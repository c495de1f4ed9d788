------------------------------- MODULE Scanning -------------------------------
(***************************************************************************)
(* Receipt scan codes: a paid ticket or service is admitted once for every *)
(* unit bought (internal/store/store_scanning.go; createReceiptScanToken   *)
(* in internal/service/payments.go; migrations 014, 019).                  *)
(*                                                                         *)
(* The payment's hook looks its code up, then makes one under the lock of  *)
(* the payment, then tells the buyer; it may be run twice at a time and    *)
(* may stop anywhere.  A reader's or the portal's scan is one transaction. *)
(***************************************************************************)
EXTENDS Naturals, FiniteSets

CONSTANTS Sales,      \* successful or pending payments
          Units,      \* [Sales -> Nat]: tickets or items bought, 0 for another purchase
          Gatekeepers,\* registered services of the merchant (the code takes the oldest)
          Readers,    \* reader credentials
          Hooks,      \* runs of the hook of a payment
          NoSale

ASSUME UnitsAssumption == Units \in [Sales -> Nat]

VARIABLES gatekeeper, \* registered_services: active, accepted types, phone whitelist
          reader,     \* service_readers: the service of each
          sale,       \* status of each payment
          code,       \* receipt_scan_tokens
          hook,       \* what each run of the hook knows
          admitted,   \* valid scans of each sale
          told        \* sales whose buyer was sent a code

scanVars == <<gatekeeper, reader, sale, code, hook, admitted, told>>

ScanInit ==
  /\ gatekeeper = [s \in Gatekeepers |-> [active |-> FALSE, accepts |-> {}, barred |-> {}]]
  /\ reader = [d \in Readers |-> NoSale]
  /\ sale = [p \in Sales |-> "pending"]
  /\ code = {}
  /\ hook = [h \in Hooks |-> [at |-> "idle", p |-> NoSale]]
  /\ admitted = [p \in Sales |-> 0]
  /\ told = {}

CodesOf(p) == {c \in code : c.p = p}
Uses(p) == IF Units[p] = 0 THEN 1 ELSE Units[p]

(***************************************************************************)
(* Set-up                                                                  *)
(***************************************************************************)
\* CreateRegisteredService adds a service or replaces its switch and types.
CreateRegisteredService(s, on, types) ==
  /\ gatekeeper' = [gatekeeper EXCEPT ![s].active = on, ![s].accepts = types]
  /\ UNCHANGED <<reader, sale, code, hook, admitted, told>>

\* UpdateServicePhoneWhitelist: the buyers that are not on the list are barred.
UpdateServicePhoneWhitelist(s, ps) ==
  /\ gatekeeper' = [gatekeeper EXCEPT ![s].barred = ps]
  /\ UNCHANGED <<reader, sale, code, hook, admitted, told>>

CreateServiceReader(d, s) ==
  /\ reader[d] = NoSale
  /\ reader' = [reader EXCEPT ![d] = s]
  /\ UNCHANGED <<gatekeeper, sale, code, hook, admitted, told>>

\* The payment settles, and may be refunded afterwards.
SaleMoves(p) ==
  /\ sale[p] # "refunded"
  /\ sale' = [sale EXCEPT ![p] = IF @ = "pending" THEN "succeeded" ELSE "refunded"]
  /\ UNCHANGED <<gatekeeper, reader, code, hook, admitted, told>>

(***************************************************************************)
(* The hook: createReceiptScanToken                                        *)
(***************************************************************************)
HookTurns(h, to, p) == hook' = [hook EXCEPT ![h] = [at |-> to, p |-> p]]
HookEnds(h) == HookTurns(h, "idle", NoSale)

\* scanTokenByPaymentTx: a code that is there ends the run without a word.
LooksUpCode(h, p) ==
  /\ hook[h].at = "idle" /\ sale[p] # "pending"
  /\ IF CodesOf(p) = {} THEN HookTurns(h, "none", p) ELSE UNCHANGED hook
  /\ UNCHANGED <<gatekeeper, reader, sale, code, admitted, told>>

Serving(p) == {s \in Gatekeepers : gatekeeper[s].active /\ p \in gatekeeper[s].accepts}

\* Mutant: a payment may have several codes.
OneCodeMutant(p) == TRUE
\* receipt_scan_tokens.payment_id is unique.
OneCode(p) == CodesOf(p) = {}

NewCode(p, s) == [p |-> p, s |-> s, left |-> Uses(p), expired |-> FALSE]

\* EnsureReceiptScanToken from the lock of the payment on: not succeeded, no service
\* that accepts its type, or a code made in the meantime ends it.
EnsureReceiptScanToken(h) ==
  /\ hook[h].at = "none"
  /\ LET p == hook[h].p
     IN IF sale[p] = "succeeded" /\ Serving(p) # {} /\ OneCode(p)
        THEN \E s \in Serving(p) : code' = code \cup {NewCode(p, s)} /\ HookTurns(h, "made", p)
        ELSE UNCHANGED code /\ HookEnds(h)
  /\ UNCHANGED <<gatekeeper, reader, sale, admitted, told>>

\* The message with the code is queued.
SendsCode(h) ==
  /\ hook[h].at = "made"
  /\ told' = told \cup {hook[h].p} /\ HookEnds(h)
  /\ UNCHANGED <<gatekeeper, reader, sale, code, admitted>>

\* A call of the run fails or its process dies; the hook is run again.
HookCut(h) ==
  /\ hook[h].at # "idle" /\ HookEnds(h)
  /\ UNCHANGED <<gatekeeper, reader, sale, code, admitted, told>>

CodeExpires(c) ==
  /\ c \in code /\ ~c.expired
  /\ code' = (code \ {c}) \cup {[c EXCEPT !.expired = TRUE]}
  /\ UNCHANGED <<gatekeeper, reader, sale, hook, admitted, told>>

(***************************************************************************)
(* The scan                                                                *)
(***************************************************************************)
\* The checks both scans make under the lock of the code, its service and payment.
ScanIsValid(c) ==
  /\ gatekeeper[c.s].active /\ c.p \notin gatekeeper[c.s].barred
  /\ sale[c.p] = "succeeded"
  /\ ~c.expired /\ c.left > 0

\* The use is counted and the scan recorded in one transaction.
Consumes(c) ==
  /\ code' = (code \ {c}) \cup {[c EXCEPT !.left = @ - 1]}
  /\ admitted' = [admitted EXCEPT ![c.p] = @ + 1]

\* A reader scans for the one service it is bound to.
ValidateAndConsumeReceiptScan(d, c) ==
  /\ c \in code /\ reader[d] = c.s
  /\ ScanIsValid(c) /\ Consumes(c)
  /\ UNCHANGED <<gatekeeper, reader, sale, hook, told>>

\* The merchant's portal scans for every service of the merchant.
MerchantValidateScanToken(c) ==
  /\ c \in code
  /\ ScanIsValid(c) /\ Consumes(c)
  /\ UNCHANGED <<gatekeeper, reader, sale, hook, told>>

ScanNext ==
  \/ \E s \in Gatekeepers :
       \/ \E on \in BOOLEAN, ps \in SUBSET Sales : CreateRegisteredService(s, on, ps)
       \/ \E ps \in SUBSET Sales : UpdateServicePhoneWhitelist(s, ps)
       \/ \E d \in Readers : CreateServiceReader(d, s)
  \/ \E p \in Sales : SaleMoves(p)
  \/ \E h \in Hooks : \/ \E p \in Sales : LooksUpCode(h, p)
                      \/ EnsureReceiptScanToken(h) \/ SendsCode(h) \/ HookCut(h)
  \/ \E c \in code : \/ CodeExpires(c) \/ MerchantValidateScanToken(c)
                     \/ \E d \in Readers : ValidateAndConsumeReceiptScan(d, c)

ScanSpec == ScanInit /\ [][ScanNext]_scanVars

(***************************************************************************)
(* Properties                                                              *)
(***************************************************************************)
\* What was bought is what may still be shown plus what was admitted, however often
\* the hook ran and whoever scans: never more people than units paid for
\* (EnsureReceiptScanToken, ValidateAndConsumeReceiptScan).
ScansAreCovered ==
  \A p \in Sales :
    /\ admitted[p] <= Uses(p)
    /\ \A c \in CodesOf(p) : c.left + admitted[p] = Uses(p)
    /\ admitted[p] > 0 => sale[p] # "pending"

\* Not checked: a run cut off after the code was made is run again, finds the code
\* and ends without sending it.
CodeReachesBuyer == \A p \in Sales : admitted[p] > 0 => p \in told
=============================================================================
