------------------------------- MODULE Partner --------------------------------
(***************************************************************************)
(* The Partner API: credentials, and the requests that create payments,    *)
(* invoices and checkout links under the merchant's own reference          *)
(* (internal/app/api_keys.go; internal/store/store_api_keys.go,            *)
(* store_checkouts.go, store_invoices.go; migrations 012, 036, 037, 039,   *)
(* 045).                                                                   *)
(*                                                                         *)
(* A request looks its reference up, creates a row, and for a payment puts *)
(* the reference on the row in a further step.  Replays of one reference   *)
(* run at the same time; a request may be cut off anywhere.  The           *)
(* idempotency key of an order is unused or stands for its reference.      *)
(***************************************************************************)
EXTENDS Naturals, FiniteSets

CONSTANTS Calls,        \* requests in progress
          Orders,       \* [kind, payee, ref] that are asked for, again and again
          Records,      \* rows of payments, invoices and checkouts
          Credentials,  \* rows of merchant_api_keys of each merchant
          NoRecord

ASSUME OrdersAssumption ==
  /\ \A o \in Orders : o.kind \in {"payment", "invoice", "checkout"}
  /\ NoRecord \notin [o : Orders, stamped : BOOLEAN]

VARIABLES credential,  \* merchant_api_keys
          trading,     \* merchants that are active
          record,      \* the order a row was made for, and whether its reference is on it
          call,        \* what each request in progress knows
          replies      \* the rows each order was answered with

partnerVars == <<credential, trading, record, call, replies>>

Payees == {o.payee : o \in Orders}
NoCall == [at |-> "idle"]

PartnerInit ==
  /\ credential = [k \in Credentials |-> [payee |-> NoRecord, state |-> "none"]]
  /\ trading = Payees
  /\ record = [i \in Records |-> NoRecord]
  /\ call = [r \in Calls |-> NoCall]
  /\ replies = [o \in Orders |-> {}]

Turns(r, rec) == call' = [call EXCEPT ![r] = rec]
Ends(r) == Turns(r, NoCall)
Replies(r, i) == replies' = [replies EXCEPT ![call[r].o] = @ \cup {i}] /\ Ends(r)

(***************************************************************************)
(* Credentials                                                             *)
(***************************************************************************)
CreateMerchantAPIKey(k, m) ==
  /\ credential[k].state = "none"
  /\ credential' = [credential EXCEPT ![k] = [payee |-> m, state |-> "enabled"]]
  /\ UNCHANGED <<trading, record, call, replies>>

RevokeMerchantAPIKey(k) ==
  /\ credential[k].state = "enabled"
  /\ credential' = [credential EXCEPT ![k].state = "revoked"]
  /\ UNCHANGED <<trading, record, call, replies>>

SwitchTrading(m) ==
  /\ trading' = IF m \in trading THEN trading \ {m} ELSE trading \cup {m}
  /\ UNCHANGED <<credential, record, call, replies>>

\* requireAPIKey: the key and the merchant in one query.
RequireAPIKey(r, o) ==
  /\ call[r] = NoCall
  /\ o.payee \in trading
  /\ \E k \in Credentials : credential[k] = [payee |-> o.payee, state |-> "enabled"]
  /\ Turns(r, [at |-> "lookup", o |-> o])
  /\ UNCHANGED <<credential, trading, record, replies>>

(***************************************************************************)
(* References                                                              *)
(***************************************************************************)
\* One reference: an invoice's across merchants, else within one.
SameReference(o, p) ==
  o.kind = p.kind /\ o.ref = p.ref /\ (o.kind = "invoice" \/ o.payee = p.payee)

Holders(o) == {i \in Records : /\ record[i] # NoRecord /\ record[i].stamped
                               /\ SameReference(record[i].o, o)}

\* Mutant: the unique indexes are missing.
TakenMutant(o) == FALSE
\* payments_merchant_ref_idx, payments_idempotency_key_idx, invoices.reference,
\* checkouts_payee_reference_idx.
ReferenceTaken(o) == Holders(o) # {}

\* PaymentByIdempotencyKey, PaymentByMerchantReference, InvoiceByReference,
\* CheckoutByPayeeAndReference; an invoice of another merchant is a conflict.
Lookup(r) ==
  /\ call[r].at = "lookup"
  /\ LET o == call[r].o
     IN IF Holders(o) = {} THEN Turns(r, [at |-> "create", o |-> o]) /\ UNCHANGED replies
        ELSE \E i \in Holders(o) :
               IF record[i].o.payee = o.payee THEN Replies(r, i)
               ELSE Ends(r) /\ UNCHANGED replies
  /\ UNCHANGED <<credential, trading, record>>

(***************************************************************************)
(* Creation                                                                *)
(***************************************************************************)
NewRecord(i, o, stamped) ==
  record[i] = NoRecord /\ record' = [record EXCEPT ![i] = [o |-> o, stamped |-> stamped]]

\* apiCreatePayment: CreateCollectionDraft, ...
CreateCollectionDraft(r) ==
  /\ call[r].at = "create" /\ call[r].o.kind = "payment"
  /\ \E i \in Records : /\ NewRecord(i, call[r].o, FALSE)
                        /\ Turns(r, [at |-> "stamp", o |-> call[r].o, i |-> i])
  /\ UNCHANGED <<credential, trading, replies>>

\* ... then SetPaymentInitiationMeta; the loser of a race answers the winner's.
SetPaymentInitiationMeta(r) ==
  /\ call[r].at = "stamp"
  /\ IF ReferenceTaken(call[r].o)
     THEN UNCHANGED record /\ \E i \in Holders(call[r].o) : Replies(r, i)
     ELSE record' = [record EXCEPT ![call[r].i].stamped = TRUE] /\ Replies(r, call[r].i)
  /\ UNCHANGED <<credential, trading>>

\* apiCreateInvoice: the same, in one insert.
ApiCreateInvoice(r) ==
  /\ call[r].at = "create" /\ call[r].o.kind = "invoice"
  /\ IF ReferenceTaken(call[r].o)
     THEN /\ UNCHANGED record
          /\ \E i \in Holders(call[r].o) : IF record[i].o.payee = call[r].o.payee THEN Replies(r, i)
                                           ELSE Ends(r) /\ UNCHANGED replies
     ELSE \E i \in Records : NewRecord(i, call[r].o, TRUE) /\ Replies(r, i)
  /\ UNCHANGED <<credential, trading>>

\* CreateCheckout: the loser of a race is an error, and its retry finds the row.
CreateCheckout(r) ==
  /\ call[r].at = "create" /\ call[r].o.kind = "checkout"
  /\ IF ReferenceTaken(call[r].o) THEN Ends(r) /\ UNCHANGED <<record, replies>>
     ELSE \E i \in Records : NewRecord(i, call[r].o, TRUE) /\ Replies(r, i)
  /\ UNCHANGED <<credential, trading>>

\* A lookup or an insert fails, the process dies, or the caller hangs up.
CutOff(r) ==
  /\ call[r] # NoCall /\ Ends(r)
  /\ UNCHANGED <<credential, trading, record, replies>>

PartnerNext ==
  \/ \E k \in Credentials : RevokeMerchantAPIKey(k) \/ \E m \in Payees : CreateMerchantAPIKey(k, m)
  \/ \E m \in Payees : SwitchTrading(m)
  \/ \E r \in Calls : \/ \E o \in Orders : RequireAPIKey(r, o)
                      \/ Lookup(r) \/ CreateCollectionDraft(r) \/ SetPaymentInitiationMeta(r)
                      \/ ApiCreateInvoice(r) \/ CreateCheckout(r) \/ CutOff(r)

PartnerSpec == PartnerInit /\ [][PartnerNext]_partnerVars

(***************************************************************************)
(* Properties                                                              *)
(***************************************************************************)
\* Every replay of a reference, at the same time or after one was cut off, is
\* answered with one and the same row, which belongs to the merchant that asked
\* (apiCreatePayment, apiCreateInvoice, CreateCheckout).
RepliesAgree ==
  \A o \in Orders :
    /\ Cardinality(replies[o]) <= 1
    /\ \A i \in replies[o] : record[i].stamped /\ record[i].o.payee = o.payee

\* Not checked: a request cut off between the draft and its reference leaves a
\* draft nobody is told of.
NoOrphanDraft == \A i \in Records : record[i] # NoRecord => record[i].stamped
=============================================================================
