------------------------------- MODULE Purchases -------------------------------
(***************************************************************************)
(* What a succeeded payment was for: an invoice, tickets of an event tier  *)
(* or units of a merchant's service.  A payment is attached to its purpose *)
(* when it is drafted; after it succeeds a hook applies the purpose, at    *)
(* once and again by the retry worker of any replica until the hook is     *)
(* marked done (store_invoices.go, store_events.go, store_merchants.go).   *)
(* A succeeded payment may be refunded at any time, also before its hook:  *)
(* the refund turns back what it finds in the payment's journal, no hook   *)
(* asks whether its payment was refunded, and the purpose stays applied    *)
(* (store_refunds.go).                                                     *)
(*                                                                         *)
(* Hooks are transactions at READ COMMITTED: a statement sees what was     *)
(* committed when it started, also in the subqueries it evaluates again    *)
(* after it waited for a row.                                              *)
(***************************************************************************)
EXTENDS LedgerQueue, Functions

CONSTANTS Payments,
          Purposes,      \* the assignments of purposes to payments to explore
          Amount,        \* [Payments -> kobo, or units of an offer]
          InvoiceTotal,
          Capacity,      \* of the tier, or units of the service
          Runs,          \* hook executions that may overlap
          MaxHookFaults, \* bound: hooks that fail or die
          MaxTierEdits,  \* bound: edits of the event
          MaxRefunds     \* bound: payments refunded

ASSUME PurchasesAssumption ==
  /\ IsFiniteSet(Payments)
  /\ Purposes \subseteq [Payments -> {"invoice", "seat", "stock"}]
  /\ Amount \in [Payments -> Nat \ {0}]
  /\ {InvoiceTotal, Capacity, MaxHookFaults, MaxTierEdits, MaxRefunds} \subseteq Nat
  /\ Runs \subseteq Appenders

VARIABLES purpose,
          link,       \* invoice_payments.status, or the applied flag of a purchase; gone: deleted
          succeeded,  \* payments that succeeded
          due,        \* payments whose hook is pending in payment_hooks
          invoice,    \* status and amount_paid_kobo
          allocated,  \* [Payments -> kobo posted from the float to the merchant's payable]
          refund,     \* [Payments -> where its refund stands, the allocation it found]
          sold,       \* tickets or units counted against the capacity
          run,        \* [Runs -> a hook execution]
          hookFaults, tierEdits

purchaseVars ==
  <<purpose, link, succeeded, due, invoice, allocated, refund, sold, run, hookFaults, tierEdits>>
ledgerVars == <<tail, append>>

NoRefund == [pc |-> "none", found |-> 0]
NoRun == [of |-> {}, pc |-> "idle", fresh |-> FALSE, sum |-> 0]

PurchasesInit ==
  /\ purpose \in Purposes
  /\ link = [p \in Payments |-> "none"]
  /\ succeeded = {} /\ due = {}
  /\ invoice = [status |-> "sent", paid |-> 0]
  /\ allocated = [p \in Payments |-> 0]
  /\ refund = [p \in Payments |-> NoRefund]
  /\ sold = 0
  /\ run = [r \in Runs |-> NoRun]
  /\ hookFaults = 0 /\ tierEdits = 0

AmountOf(S) == SumFunctionOnSet(Amount, S)

Applied == {p \in Payments : link[p] = "applied"}
Lacking == InvoiceTotal - invoice.paid

-----------------------------------------------------------------------------
(* Drafting and success.                                                   *)

\* CreateInvoicePayment, CreateEventTicketPurchase, CreateServicePurchase: an
\* invoice takes no more than what it lacks when the payment is drafted.
Attach(p) ==
  /\ link[p] = "none" /\ p \notin succeeded
  /\ purpose[p] = "invoice" => invoice.status # "paid" /\ Amount[p] <= Lacking
  /\ link' = [link EXCEPT ![p] = "pending"]
  /\ UNCHANGED <<purpose, succeeded, due, invoice, allocated, refund, sold, run, hookFaults, tierEdits, ledgerVars>>

\* The gateway confirms the payment: its hook is recorded.
Succeed(p) ==
  /\ link[p] # "none" /\ p \notin succeeded
  /\ succeeded' = succeeded \cup {p}
  /\ due' = due \cup {p}
  /\ UNCHANGED <<purpose, link, invoice, allocated, refund, sold, run, hookFaults, tierEdits, ledgerVars>>

-----------------------------------------------------------------------------
(* The hook of an invoice payment: ApplyInvoicePaymentSuccess.             *)

At(r, pc) == run[r].pc = pc
Of(r, p)  == run[r].of = {p}

\* Runs of one payment exclude each other on its invoice_payments row.
HoldsLink(p) == \E r \in Runs : Of(r, p) /\ run[r].pc \in {"post", "sum", "write"}

\* Mutant: the allocation is posted by every run.
FreshMutant(p) == TRUE

\* The status gate: only the run that makes the row succeeded posts.
Fresh(p) == link[p] # "applied"

StartInvoiceHook(r, p) ==
  /\ At(r, "idle") /\ p \in due /\ purpose[p] = "invoice" /\ ~HoldsLink(p)
  /\ run' = [run EXCEPT ![r] = [of |-> {p}, pc |-> IF Fresh(p) THEN "post" ELSE "sum",
                                fresh |-> Fresh(p), sum |-> 0]]
  /\ IF Fresh(p) THEN ReadTail(r) ELSE UNCHANGED append
  /\ UNCHANGED <<tail, purpose, link, succeeded, due, invoice, allocated, refund, sold, hookFaults, tierEdits>>

PostAllocation(r) ==
  /\ At(r, "post")
  /\ Insert(r)
  /\ run' = [run EXCEPT ![r].pc = "sum"]
  /\ UNCHANGED <<tail, purpose, link, succeeded, due, invoice, allocated, refund, sold, hookFaults, tierEdits>>

\* The succeeded rows the statement sees: committed ones and the run's own.
PaidSoFar(r) == AmountOf({p \in Applied : purpose[p] = "invoice"} \cup run[r].of)

SumPayments(r) ==
  /\ At(r, "sum")
  /\ run' = [run EXCEPT ![r].sum = PaidSoFar(r), ![r].pc = "write"]
  /\ UNCHANGED <<purpose, link, succeeded, due, invoice, allocated, refund, sold, hookFaults, tierEdits, ledgerVars>>

\* The invoice row is locked and written from the sum, and the run commits.
WriteInvoice(r) ==
  /\ At(r, "write")
  /\ invoice' = [status |-> IF run[r].sum >= InvoiceTotal THEN "paid" ELSE "partially_paid",
                 paid   |-> run[r].sum]
  /\ link' = [p \in Payments |-> IF Of(r, p) THEN "applied" ELSE link[p]]
  /\ allocated' = [p \in Payments |-> IF Of(r, p) /\ run[r].fresh THEN allocated[p] + Amount[p]
                                     ELSE allocated[p]]
  /\ run' = [run EXCEPT ![r].pc = "done"]
  /\ Publish(r)
  /\ UNCHANGED <<purpose, succeeded, due, refund, sold, hookFaults, tierEdits>>

-----------------------------------------------------------------------------
(* The hook of a purchase: ConfirmEventTicketPurchase, ConfirmServicePurchase. *)

Offers == {"seat", "stock"}

\* The first statement starts: it sees whether the purchase was applied.
StartPurchaseHook(r, p) ==
  /\ At(r, "idle") /\ p \in due /\ purpose[p] \in Offers
  /\ run' = [run EXCEPT ![r] = [of |-> {p}, pc |-> "count", fresh |-> link[p] = "pending", sum |-> sold]]
  /\ UNCHANGED <<purpose, link, succeeded, due, invoice, allocated, refund, sold, hookFaults, tierEdits, ledgerVars>>

\* A run that counted holds the row of the offer until it commits.
HoldsOffer(r) == At(r, "mark") /\ run[r].fresh
OfferFree == \A r \in Runs : ~HoldsOffer(r)

\* Mutant: the count the statement started with decides.
RoomMutant(r) == Capacity >= run[r].sum + AmountOf(run[r].of)

\* The condition on the row, evaluated again after a wait.
Room(r) == Capacity >= sold + AmountOf(run[r].of)

\* The row is locked and counted up, if the purchase was seen unapplied, still
\* exists, and there is room.  The flag is not looked at again.
CountSold(r) ==
  /\ At(r, "count") /\ OfferFree
  /\ LET counts == run[r].fresh /\ Room(r) /\ \A p \in run[r].of : link[p] # "gone"
     IN  /\ run' = [run EXCEPT ![r].pc = "mark", ![r].fresh = counts]
         /\ sold' = IF counts THEN sold + AmountOf(run[r].of) ELSE sold
  /\ UNCHANGED <<purpose, link, succeeded, due, invoice, allocated, refund, hookFaults, tierEdits, ledgerVars>>

\* The purchase is marked applied, counted or not, and the run commits.
MarkApplied(r) ==
  /\ At(r, "mark")
  /\ link' = [p \in Payments |-> IF Of(r, p) /\ link[p] = "pending" THEN "applied" ELSE link[p]]
  /\ run' = [run EXCEPT ![r].pc = "done"]
  /\ UNCHANGED <<purpose, succeeded, due, invoice, allocated, refund, sold, hookFaults, tierEdits, ledgerVars>>

-----------------------------------------------------------------------------
(* RefundPayment, and ApproveRefund for a refund that needs a second admin. *)

\* Under the lock of the succeeded payment postLedgerReversalTx reads the journal
\* of the payment: its allocation is there if a hook has committed it by now.
\* (Tickets and units have no allocation: nothing here knows of their refunds.)
ReadJournal(p) ==
  /\ p \in succeeded /\ purpose[p] = "invoice" /\ refund[p] = NoRefund
  /\ Cardinality({q \in Payments : refund[q] # NoRefund}) < MaxRefunds
  /\ refund' = [refund EXCEPT ![p] = [pc |-> "open", found |-> allocated[p]]]
  /\ UNCHANGED <<purpose, link, succeeded, due, invoice, allocated, sold, run, hookFaults, tierEdits, ledgerVars>>

\* What was read is posted the other way round, and the payment is refunded.  The
\* row that links it to its purpose stays as it is, and so does what is sold.
CommitRefund(p) ==
  /\ refund[p].pc = "open"
  /\ allocated' = [allocated EXCEPT ![p] = @ - refund[p].found]
  /\ refund' = [refund EXCEPT ![p].pc = "done"]
  /\ PostAtOnce
  /\ UNCHANGED <<purpose, link, succeeded, due, invoice, sold, run, hookFaults, tierEdits>>

\* A statement fails, or the process dies: the refund rolls back.
RefundFails(p) ==
  /\ refund[p].pc = "open"
  /\ refund' = [refund EXCEPT ![p] = NoRefund]
  /\ UNCHANGED <<purpose, link, succeeded, due, invoice, allocated, sold, run, hookFaults, tierEdits, ledgerVars>>

-----------------------------------------------------------------------------
\* MarkPaymentHookDone.
MarkHookDone(r) ==
  /\ At(r, "done")
  /\ due' = due \ run[r].of
  /\ run' = [run EXCEPT ![r] = NoRun]
  /\ UNCHANGED <<purpose, link, succeeded, invoice, allocated, refund, sold, hookFaults, tierEdits, ledgerVars>>

\* The process dies, or a statement fails: what is not committed rolls back and
\* the hook stays pending.
HookFails(r) ==
  /\ ~At(r, "idle") /\ hookFaults < MaxHookFaults
  /\ hookFaults' = hookFaults + 1
  /\ sold' = IF HoldsOffer(r) THEN sold - AmountOf(run[r].of) ELSE sold
  /\ run' = [run EXCEPT ![r] = NoRun]
  /\ Withdraw(r)
  /\ UNCHANGED <<tail, purpose, link, succeeded, due, invoice, allocated, refund, tierEdits>>

\* SetEventTiersFull, at every edit of an event: tiers are deleted and inserted
\* again, purchases go with them (ON DELETE CASCADE).
SetEventTiersFull ==
  /\ tierEdits < MaxTierEdits /\ OfferFree
  /\ \E p \in Payments : purpose[p] = "seat"
  /\ tierEdits' = tierEdits + 1
  /\ link' = [p \in Payments |-> IF purpose[p] = "seat" /\ link[p] # "none" THEN "gone" ELSE link[p]]
  /\ sold' = 0
  /\ UNCHANGED <<purpose, succeeded, due, invoice, allocated, refund, run, hookFaults, ledgerVars>>

\* One step of a hook execution.
RunHook(r) ==
  \/ \E p \in Payments : StartInvoiceHook(r, p) \/ StartPurchaseHook(r, p)
  \/ PostAllocation(r) \/ SumPayments(r) \/ WriteInvoice(r)
  \/ CountSold(r) \/ MarkApplied(r) \/ MarkHookDone(r)

PurchasesNext ==
  \/ \E p \in Payments : \/ Attach(p) \/ Succeed(p)
                          \/ ReadJournal(p) \/ CommitRefund(p) \/ RefundFails(p)
  \/ \E r \in Runs : RunHook(r) \/ HookFails(r)
  \/ SetEventTiersFull

PurchasesSpec == LedgerInit /\ PurchasesInit /\ [][PurchasesNext]_<<purchaseVars, ledgerVars>>

-----------------------------------------------------------------------------
(* Properties.                                                             *)

PurchasesTypeOK ==
  /\ purpose \in Purposes
  /\ link \in [Payments -> {"none", "pending", "applied", "gone"}]
  /\ due \subseteq succeeded /\ succeeded \subseteq Payments
  /\ invoice.status \in {"sent", "partially_paid", "paid"} /\ invoice.paid \in Nat
  /\ allocated \in [Payments -> Nat]
  /\ refund \in [Payments -> [pc : {"none", "open", "done"}, found : Nat]]
  /\ {sold, hookFaults, tierEdits} \subseteq Nat
  /\ \A r \in Runs :
       /\ run[r].of \subseteq succeeded /\ Cardinality(run[r].of) <= 1
       /\ run[r].pc \in {"idle", "post", "sum", "write", "count", "mark", "done"}
       /\ run[r].pc = "idle" <=> run[r].of = {}

InvoicesApplied == {p \in Applied : purpose[p] = "invoice"}

\* An invoice never shows more than the payments applied to it, and is paid only
\* when they cover it, however often and wherever the hooks run, fail and run
\* again.  (A refunded payment stays applied and counted.)
InvoiceIsBacked ==
  /\ invoice.paid <= AmountOf(InvoicesApplied)
  /\ invoice.status = "paid" => AmountOf(InvoicesApplied) >= InvoiceTotal

\* The merchant is allocated each payment applied to an invoice, and no other, once
\* in full; a refund takes back what was allocated or nothing, and only a
\* refund takes anything back.
AllocatedOnce ==
  \A p \in Payments :
    /\ allocated[p] \in {0, Amount[p]}
    /\ allocated[p] # 0 => p \in InvoicesApplied
    /\ p \in InvoicesApplied /\ allocated[p] = 0 => refund[p].pc = "done"

\* The count of a tier or of a service never passes its capacity, whatever runs
\* wait for each other on its row.  (It is the count alone: see SoldIsExact and
\* IssuedWithinCapacity.)
CountWithinCapacity == sold <= Capacity

\* What the hooks of an invoice, of tickets and of services, and refunds beside
\* them, may never get wrong.
PurchasesSafe == InvoiceIsBacked /\ AllocatedOnce /\ CountWithinCapacity

-----------------------------------------------------------------------------
(* What a comment says, or a reader might expect, and the code does not do. *)

\* "Reversing the payment journal reference unwinds both the money-in and this
\* allocation" (store_invoices.go): not of a hook that commits after the refund
\* read the journal.
RefundUnwinds == \A p \in Payments : refund[p].pc = "done" => allocated[p] = 0

\* The invoice shows the sum of its applied payments once no hook runs.
InvoiceIsExact ==
  (\A r \in Runs : At(r, "idle")) => invoice.paid = AmountOf(InvoicesApplied)

\* What is counted is what applied purchases bought.
SoldIsExact ==
  (\A r \in Runs : At(r, "idle")) =>
    sold = AmountOf({p \in Applied : purpose[p] \in Offers})

\* Applied purchases, for which codes and receipts are issued in full, fit in the
\* capacity: one that found no room is applied all the same.
IssuedWithinCapacity ==
  AmountOf({p \in Applied : purpose[p] \in Offers}) <= Capacity
=============================================================================
