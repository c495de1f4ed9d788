-------------------------- MODULE PaymentLifecycle --------------------------
(***************************************************************************)
(* A payment from draft to its outcome: money-in allowance, hosted         *)
(* checkout, verification by return page, webhook and reconciliation,      *)
(* inline wallet confirmation, cancellation, expiry, refund, and the hook  *)
(* that applies the payment's purpose after it succeeded.                  *)
(*                                                                         *)
(* A session is a goroutine with a web or chat request or a job of the     *)
(* worker loop.  Each of its steps is one database transaction or one call *)
(* to the gateway; sessions interleave between steps and may die there.  A *)
(* transaction that reads rows it has not locked is two steps.  Every      *)
(* payment is of one unit of money and belongs to one payer.               *)
(***************************************************************************)
EXTENDS Integers, FiniteSets, Functions, TLC

CONSTANTS Payments,
          Kinds,           \* what may be drafted: [provider, purpose] records
          Sessions,        \* return pages, webhook deliveries, chat turns, jobs
          OpeningBalance,  \* units in the payer's wallet at the start
          MaxWebhookTries, \* claims after which a webhook row is dead (5)
          MaxHookTries,    \* maxPaymentHookAttempts (8)
          MaxFailures      \* bound: crashes and gateway errors in a behaviour

Providers == {"interswitch", "bank_transfer", "wallet"}
Purposes  == {"collection", "topup", "individual"}

\* A wallet is not topped up from itself.
AllKinds == {k \in [provider : Providers, purpose : Purposes] :
               k.provider = "wallet" => k.purpose # "topup"}
CardCollections == {[provider |-> "interswitch", purpose |-> "collection"]}

\* For TLC: sessions are interchangeable.
Interchangeable == Permutations(Sessions)

ASSUME PaymentAssumption ==
  /\ IsFiniteSet(Payments)
  /\ Kinds \subseteq AllKinds
  /\ OpeningBalance \in Nat
  /\ MaxWebhookTries \in Nat \ {0}
  /\ MaxHookTries \in Nat \ {0}
  /\ MaxFailures \in Nat

VARIABLES kind,       \* [Payments -> Kinds]: provider and purpose columns
          status,     \* [Payments -> Statuses]; "none" before the row exists
          allowance,  \* [Payments -> allowance_usage row under its reference]
          gateway,    \* [Payments -> the transaction at the gateway]
          webhook,    \* [Payments -> its webhook_deliveries row]
          hook,       \* [Payments -> its payment_hooks row]
          journal,    \* [Payments -> ledger postings for it]
          wallet,     \* ledger balance of the payer's wallet
          flow,       \* [Payments -> the web flow that drafted it]
          superseded, \* payments whose flow was reopened for a retry
          session,    \* [Sessions -> SessionStates]
          failures

vars == <<kind, status, allowance, gateway, webhook, hook, journal, wallet, flow,
          superseded, session, failures>>

Live     == {"awaiting_confirmation", "initialized", "pending"}
Unpaid   == {"failed", "abandoned", "expired"}
Statuses == {"none", "draft", "succeeded", "refunded"} \cup Live \cup Unpaid
Idle     == [pc |-> "idle"]
NoKind   == [provider |-> "none", purpose |-> "none"]

Init ==
  /\ kind = [p \in Payments |-> NoKind]
  /\ status = [p \in Payments |-> "none"]
  /\ allowance = [p \in Payments |-> "none"]
  /\ gateway = [p \in Payments |-> "none"]
  /\ webhook = [p \in Payments |-> [state |-> "none", tries |-> 0]]
  /\ hook = [p \in Payments |-> [state |-> "none", tries |-> 0]]
  /\ journal = [p \in Payments |-> [received |-> 0, applied |-> 0,
                                    settled |-> FALSE, returned |-> 0]]
  /\ wallet = OpeningBalance
  /\ flow = [p \in Payments |-> "open"]
  /\ superseded = {}
  /\ session = [s \in Sessions |-> Idle]
  /\ failures = 0

At(s, pc)      == session[s].pc = pc
Goto(s, state) == session' = [session EXCEPT ![s] = state]
Do(s, pc, p)   == Goto(s, [pc |-> pc, p |-> p])
Step(s, pc)    == Goto(s, [session[s] EXCEPT !.pc = pc])

Provider(p) == kind[p].provider
Purpose(p)  == kind[p].purpose

money == <<journal, wallet>>
web   == <<flow, superseded>>

-----------------------------------------------------------------------------
(* Transitions of the payment row.                                         *)

Successors == [draft                 |-> {"awaiting_confirmation", "expired"},
          awaiting_confirmation |-> {"initialized", "pending", "abandoned", "expired"},
          initialized           |-> {"pending", "succeeded", "failed", "abandoned", "expired"},
          pending               |-> {"succeeded", "failed", "abandoned", "expired"},
          succeeded             |-> {"refunded"}]

\* Mutant: a late decline overwrites how an unpaid attempt ended.
CanTransitionMutant(from, to) ==
  \/ from = to
  \/ from \in Unpaid /\ to = "failed"
  \/ from \in DOMAIN Successors /\ to \in Successors[from]

\* The monotonic lifecycle.
CanTransition(from, to) ==
  \/ from = to
  \/ from \in DOMAIN Successors /\ to \in Successors[from]

\* The transition changes the row; the same status again is a no-op.
Moves(p, to) == status[p] # to /\ CanTransition(status[p], to)

\* Mutant: the wallet transaction does not lock the payment.
LockedMutant(p) == FALSE

\* A wallet confirmation holds the row FOR UPDATE.
Locked(p) == \E s \in Sessions : At(s, "debiting") /\ session[s].p = p

\* Mutant: expiry keeps the reservation.
ReleasesMutant(to) == to \in {"failed", "abandoned"}

\* Statuses that delete the money-in reservation.
Releases(to) == to \in Unpaid

\* transitionPayment for a gateway payment or a wallet payment that ends
\* unpaid: status, money-in posting and reservation in one transaction.
Transition(p, to) ==
  /\ status' = [status EXCEPT ![p] = to]
  /\ allowance' = IF Releases(to) /\ allowance[p] = "in"
                  THEN [allowance EXCEPT ![p] = "none"] ELSE allowance
  /\ journal' = IF to = "succeeded"
                THEN [journal EXCEPT ![p].received = @ + 1] ELSE journal

-----------------------------------------------------------------------------
(* Drafting.                                                               *)

\* createDraftCore names a new payment and reserves the money-in allowance; a
\* wallet payment needs none.
Draft(s, p) ==
  /\ session[s] = Idle
  /\ status[p] = "none" /\ allowance[p] = "none"
  /\ \A t \in Sessions : session[t] # Idle => session[t].p # p
  /\ \E k \in Kinds :
       /\ kind' = [kind EXCEPT ![p] = k]
       /\ allowance' = IF k.provider = "wallet" THEN allowance
                       ELSE [allowance EXCEPT ![p] = "in"]
  /\ Do(s, "create", p)
  /\ UNCHANGED <<status, gateway, webhook, hook, money, web, failures>>

\* CreatePayment inserts the row, or fails.
Create(s) ==
  /\ At(s, "create")
  /\ LET p == session[s].p
     IN  \/ /\ status' = [status EXCEPT ![p] = "draft"]
            /\ Step(s, "submit")
         \/ /\ Step(s, "release")
            /\ UNCHANGED status
  /\ UNCHANGED <<kind, allowance, gateway, webhook, hook, money, web, failures>>

\* The draft awaits the customer, unless it expired first.
Submit(s) ==
  /\ At(s, "submit")
  /\ LET p == session[s].p
     IN  IF Moves(p, "awaiting_confirmation")
         THEN Transition(p, "awaiting_confirmation") /\ Goto(s, Idle)
         ELSE Step(s, "release") /\ UNCHANGED <<status, allowance, journal>>
  /\ UNCHANGED <<kind, gateway, webhook, hook, wallet, web, failures>>

\* ReleaseAllowance by reference.
Release(s) ==
  /\ At(s, "release")
  /\ allowance' = [allowance EXCEPT ![session[s].p] = "none"]
  /\ Goto(s, Idle)
  /\ UNCHANGED <<kind, status, gateway, webhook, hook, money, web, failures>>

-----------------------------------------------------------------------------
(* Checkout, cancellation and expiry.                                      *)

\* InitializeCheckout of a payment seen awaiting confirmation; the gateway is
\* called before the row is written.
Initialize(s, p) ==
  /\ session[s] = Idle
  /\ Provider(p) # "wallet" /\ status[p] = "awaiting_confirmation"
  /\ Do(s, "checkout", p)
  /\ UNCHANGED <<kind, status, allowance, gateway, webhook, hook, money, web, failures>>

\* SetCheckout; only then does the customer hold the page to pay on.
SetCheckout(s) ==
  /\ At(s, "checkout") /\ ~Locked(session[s].p)
  /\ LET p == session[s].p
     IN  IF status[p] = "awaiting_confirmation"
         THEN /\ status' = [status EXCEPT ![p] = "initialized"]
              /\ gateway' = [gateway EXCEPT ![p] = "open"]
         ELSE UNCHANGED <<status, gateway>>
  /\ Goto(s, Idle)
  /\ UNCHANGED <<kind, allowance, webhook, hook, money, web, failures>>

\* The chat cancels the session's payment, seen unfinished.
Cancel(s, p) ==
  /\ session[s] = Idle
  /\ status[p] \in Live \cup {"draft"}
  /\ Do(s, "cancel", p)
  /\ UNCHANGED <<kind, status, allowance, gateway, webhook, hook, money, web, failures>>

\* ExpirablePayments: stale, never handed to the gateway.
Expirable(p) == status[p] \in {"draft", "awaiting_confirmation"}

\* The expiry job lists the payment.
ListExpirable(s, p) ==
  /\ session[s] = Idle
  /\ Expirable(p)
  /\ Do(s, "expire", p)
  /\ UNCHANGED <<kind, status, allowance, gateway, webhook, hook, money, web, failures>>

\* The transition of either; it re-reads the status but accepts any legal move.
End(s, pc, to) ==
  /\ At(s, pc) /\ ~Locked(session[s].p)
  /\ IF Moves(session[s].p, to) THEN Transition(session[s].p, to)
     ELSE UNCHANGED <<status, allowance, journal>>
  /\ Goto(s, Idle)
  /\ UNCHANGED <<kind, gateway, webhook, hook, wallet, web, failures>>

-----------------------------------------------------------------------------
(* The gateway and its webhook.                                            *)

\* The customer pays on the hosted page or cancels, or the bank declines; the gateway
\* announces the end of the transaction once.
CustomerPays(p) ==
  /\ gateway[p] = "open"
  /\ \E end \in {"paid", "declined", "cancelled"} : gateway' = [gateway EXCEPT ![p] = end]
  /\ webhook' = [webhook EXCEPT ![p].state = "sent"]
  /\ UNCHANGED <<kind, status, allowance, hook, money, web, session, failures>>

Verifying(s, p, source) == Goto(s, [pc |-> "verify", p |-> p, source |-> source, tries |-> 0])

\* receiveInterswitchWebhook records the delivery, a duplicate being dropped.
ReceiveWebhook(s, p) ==
  /\ session[s] = Idle
  /\ webhook[p].state = "sent"
  /\ webhook' = [webhook EXCEPT ![p].state = "received"]
  /\ Do(s, "acknowledge", p)
  /\ UNCHANGED <<kind, status, allowance, gateway, hook, money, web, failures>>

\* It marks the row delivered before it verifies.
Acknowledge(s) ==
  /\ At(s, "acknowledge")
  /\ webhook' = [webhook EXCEPT ![session[s].p].state = "delivered"]
  /\ Verifying(s, session[s].p, "webhook")
  /\ UNCHANGED <<kind, status, allowance, gateway, hook, money, web, failures>>

\* The worker leases a row nobody acknowledged, or whose lease ran out.
ClaimWebhook(s, p) ==
  /\ session[s] = Idle
  /\ webhook[p].state \in {"received", "processing"}
  /\ webhook[p].tries < MaxWebhookTries
  /\ webhook' = [webhook EXCEPT ![p] = [state |-> "processing", tries |-> @.tries + 1]]
  /\ Goto(s, [pc |-> "verify", p |-> p, source |-> "worker", tries |-> webhook[p].tries])
  /\ UNCHANGED <<kind, status, allowance, gateway, hook, money, web, failures>>

\* CompleteWebhook and RetryWebhook of the worker.
CloseWebhook(s) ==
  /\ session[s].pc \in {"processed", "retry"}
  /\ LET dead == session[s].tries + 1 >= MaxWebhookTries
     IN  webhook' = [webhook EXCEPT ![session[s].p].state =
                       IF At(s, "processed") THEN "processed"
                       ELSE IF dead THEN "failed" ELSE "received"]
  /\ Goto(s, Idle)
  /\ UNCHANGED <<kind, status, allowance, gateway, hook, money, web, failures>>

-----------------------------------------------------------------------------
(* VerifyAndApply.                                                         *)

\* The customer's return page, and the merchant's API call.
Poll(s, p) ==
  /\ session[s] = Idle
  /\ Provider(p) # "wallet" /\ status[p] \notin {"none", "draft"}
  /\ \E source \in {"return", "api"} : Verifying(s, p, source)
  /\ UNCHANGED <<kind, status, allowance, gateway, webhook, hook, money, web, failures>>

\* Mutant: reconciliation forgets pending payments.
UnresolvedMutant(p) == Provider(p) = "interswitch" /\ status[p] = "initialized"

\* UnresolvedPayments.
Unresolved(p) == Provider(p) = "interswitch" /\ status[p] \in {"initialized", "pending"}

\* The reconciliation job takes an unresolved payment.
Reconcile(s, p) ==
  /\ session[s] = Idle
  /\ Unresolved(p)
  /\ Verifying(s, p, "reconciliation")
  /\ UNCHANGED <<kind, status, allowance, gateway, webhook, hook, money, web, failures>>

\* Mutant: an unfinished transaction is taken for a success.
MapGatewayStatusMutant(answer) == IF answer = "declined" THEN "failed" ELSE "succeeded"

\* A reference unknown to the gateway is answered as one still processing.
MapGatewayStatus(answer) == CASE answer \in {"paid", "refunded"} -> "succeeded"
                              [] answer = "declined"             -> "failed"
                              [] answer = "cancelled"            -> "abandoned"
                              [] OTHER                           -> "pending"

\* The requery answers.
VerifyAnswers(s) ==
  /\ At(s, "verify")
  /\ Goto(s, [pc |-> "apply", p |-> session[s].p, source |-> session[s].source,
              tries |-> session[s].tries,
              target |-> MapGatewayStatus(gateway[session[s].p])])
  /\ UNCHANGED <<kind, status, allowance, gateway, webhook, hook, money, web, failures>>

\* Where a session goes once VerifyAndApply returned, and when it failed.
Return(s, view) ==
  CASE session[s].source \in {"return", "webhook"} ->
         Goto(s, [pc |-> "flow", p |-> session[s].p, view |-> view])
    [] session[s].source = "worker" -> Step(s, "processed")
    [] OTHER                        -> Goto(s, Idle)
Fail(s) == IF session[s].source = "worker" THEN Step(s, "retry") ELSE Goto(s, Idle)

\* The requery fails.
VerifyErrors(s) ==
  /\ At(s, "verify") /\ failures < MaxFailures
  /\ failures' = failures + 1
  /\ Fail(s)
  /\ UNCHANGED <<kind, status, allowance, gateway, webhook, hook, money, web>>

\* The verdict is applied to the row as it is now.
Apply(s) ==
  /\ At(s, "apply") /\ ~Locked(session[s].p)
  /\ LET p  == session[s].p
         to == session[s].target
     IN  IF Moves(p, to)
         THEN /\ Transition(p, to)
              /\ IF to = "succeeded" THEN Step(s, "ensure") ELSE Return(s, to)
         ELSE /\ IF status[p] = to THEN Return(s, to) ELSE Fail(s)
              /\ UNCHANGED <<status, allowance, journal>>
  /\ UNCHANGED <<kind, gateway, webhook, hook, wallet, web, failures>>

-----------------------------------------------------------------------------
(* Post-success hooks.                                                     *)

\* EnsurePaymentHooks, a transaction after the one that marked success.
Ensure(s) ==
  /\ At(s, "ensure")
  /\ LET p == session[s].p
     IN  hook' = IF hook[p].state = "none"
                 THEN [hook EXCEPT ![p].state = "pending"] ELSE hook
  /\ Step(s, "run")
  /\ UNCHANGED <<kind, status, allowance, gateway, webhook, money, web, failures>>

\* Mutant: the top-up hook does not look at the payment's status.
CreditableMutant(p) == journal[p].applied = 0

\* ApplyWalletTopup, under the lock of the payment row.
Creditable(p) == status[p] = "succeeded" /\ journal[p].applied = 0

\* A top-up credits the wallet in one transaction.
ApplyWalletTopup(s, p) ==
  /\ Purpose(p) = "topup"
  /\ IF Creditable(p)
     THEN /\ journal' = [journal EXCEPT ![p].applied = @ + 1]
          /\ wallet' = wallet + 1
     ELSE UNCHANGED money
  /\ Step(s, "mark")

\* The splits of a collection and the recipient's settlement first look for rows
\* of an earlier run.
LookFirst(s, p) == Step(s, IF journal[p].settled THEN "mark" ELSE "post") /\ UNCHANGED money

ApplyCollectionSplits(s, p)        == Purpose(p) = "collection" /\ LookFirst(s, p)
ApplyIndividualPaySettlement(s, p) == Purpose(p) = "individual" /\ LookFirst(s, p)

\* runPaymentHook, by the purpose of the payment.
RunHook(s) ==
  /\ At(s, "run")
  /\ LET p == session[s].p
     IN  ApplyWalletTopup(s, p) \/ ApplyCollectionSplits(s, p) \/ ApplyIndividualPaySettlement(s, p)
  /\ UNCHANGED <<kind, status, allowance, gateway, webhook, hook, web, failures>>

\* The postings that follow, whatever committed since the look.
PostHook(s) ==
  /\ At(s, "post")
  /\ journal' = [journal EXCEPT ![session[s].p].applied = @ + 1,
                                ![session[s].p].settled = TRUE]
  /\ Step(s, "mark")
  /\ UNCHANGED <<kind, status, allowance, gateway, webhook, hook, wallet, web, failures>>

\* MarkPaymentHookDone.
MarkDone(s) ==
  /\ At(s, "mark")
  /\ hook' = [hook EXCEPT ![session[s].p].state = "done"]
  /\ Return(s, "succeeded")
  /\ UNCHANGED <<kind, status, allowance, gateway, webhook, money, web, failures>>

\* The hook fails in the database; the row is due again or, after its last
\* attempt, left to an operator.
MarkFailed(s) ==
  /\ session[s].pc \in {"run", "post"}
  /\ LET p     == session[s].p
         final == session[s].source = "hooks" /\ session[s].tries + 1 >= MaxHookTries
     IN  /\ hook[p].tries < MaxHookTries
         /\ hook' = [hook EXCEPT ![p] = [state |-> IF final THEN "failed" ELSE "pending",
                                         tries |-> @.tries + 1]]
  /\ Return(s, "succeeded")
  /\ UNCHANGED <<kind, status, allowance, gateway, webhook, money, web, failures>>

\* Mutant: hooks that failed inline are not picked up.
HookDueMutant(p) == hook[p].state = "pending" /\ hook[p].tries = 0

\* PendingPaymentHooks, some time after the backoff.
HookDue(p) == hook[p].state = "pending"

\* The retry job takes a pending hook; the row is not leased.
RetryHook(s, p) ==
  /\ session[s] = Idle
  /\ HookDue(p)
  /\ Goto(s, [pc |-> "run", p |-> p, source |-> "hooks", tries |-> hook[p].tries])
  /\ UNCHANGED <<kind, status, allowance, gateway, webhook, hook, money, web, failures>>

-----------------------------------------------------------------------------
(* Wallet payments.                                                        *)

\* ConfirmWalletPayment of a payment seen awaiting confirmation.
Confirm(s, p) ==
  /\ session[s] = Idle
  /\ Provider(p) = "wallet" /\ status[p] = "awaiting_confirmation"
  /\ Do(s, "reserve", p)
  /\ UNCHANGED <<kind, status, allowance, gateway, webhook, hook, money, web, failures>>

\* The money-out allowance under the payment's reference: an existing row is
\* taken for this confirmation's own, a ceiling may refuse a new one.
ReserveOut(s) ==
  /\ At(s, "reserve")
  /\ LET p == session[s].p
     IN  \/ /\ allowance' = [allowance EXCEPT ![p] = "out"]
            /\ Step(s, "debit")
         \/ /\ allowance[p] = "none"
            /\ Goto(s, Idle)
            /\ UNCHANGED allowance
  /\ UNCHANGED <<kind, status, gateway, webhook, hook, money, web, failures>>

\* The transition locks the payment and reads the balance, not locked.
Debit(s) ==
  /\ At(s, "debit") /\ ~Locked(session[s].p)
  /\ LET p == session[s].p
     IN  CASE status[p] = "succeeded" -> Goto(s, Idle)
           [] status[p] = "awaiting_confirmation" /\ wallet >= 1 -> Step(s, "debiting")
           [] OTHER -> Step(s, "release")
  /\ UNCHANGED <<kind, status, allowance, gateway, webhook, hook, money, web, failures>>

\* The debit is posted and the payment has succeeded.
Debited(s) ==
  /\ At(s, "debiting")
  /\ Transition(session[s].p, "succeeded")
  /\ wallet' = wallet - 1
  /\ Goto(s, [pc |-> "ensure", p |-> session[s].p, source |-> "wallet", tries |-> 0])
  /\ UNCHANGED <<kind, gateway, webhook, hook, web, failures>>

-----------------------------------------------------------------------------
(* Web flow and refunds.                                                   *)

\* maybeCompleteWebFlowForPayment: a success looks whether the attempt was
\* superseded, any other outcome reopens the flow for a retry.
Flow(s) ==
  /\ At(s, "flow")
  /\ LET p == session[s].p
     IN  IF session[s].view = "succeeded"
         THEN /\ Step(s, IF p \in superseded THEN "refund" ELSE "claim")
              /\ UNCHANGED web
         ELSE /\ IF flow[p] = "open"
                 THEN /\ flow' = [flow EXCEPT ![p] = "reopened"]
                      /\ superseded' = superseded \cup {p}
                 ELSE UNCHANGED web
              /\ Goto(s, Idle)
  /\ UNCHANGED <<kind, status, allowance, gateway, webhook, hook, money, failures>>

\* The open flow is finished and the customer told.
ClaimFlow(s) ==
  /\ At(s, "claim")
  /\ LET p == session[s].p
     IN  flow' = IF flow[p] = "open" THEN [flow EXCEPT ![p] = "finished"] ELSE flow
  /\ Goto(s, Idle)
  /\ UNCHANGED <<kind, status, allowance, gateway, webhook, hook, money, superseded, failures>>

\* The payment's own journal touches the payer's wallet.
WalletTouched(p) == \/ Provider(p) = "wallet"
                    \/ Purpose(p) = "topup" /\ journal[p].applied > 0

\* RefundPayment: the payment's journal is reversed; the individual settlement
\* is under another journal.  A payment that never touched the wallet credits it.
RefundPayment(p) ==
  /\ status' = [status EXCEPT ![p] = "refunded"]
  /\ journal' = [journal EXCEPT ![p].received = 0,
                                ![p].applied  = IF Purpose(p) = "individual" THEN @ ELSE 0,
                                ![p].returned = IF WalletTouched(p) THEN 0 ELSE 1]
  /\ wallet' = wallet + IF Purpose(p) = "topup" /\ WalletTouched(p)
                        THEN -journal[p].applied ELSE 1

\* The automatic refund of a superseded attempt.
Refund(s) ==
  /\ At(s, "refund")
  /\ IF status[session[s].p] = "succeeded" THEN RefundPayment(session[s].p)
     ELSE UNCHANGED <<status, money>>
  /\ Goto(s, Idle)
  /\ UNCHANGED <<kind, allowance, gateway, webhook, hook, web, failures>>

\* An admin approves the merchant's refund request; its transaction does the same.
ApproveRefund(s, p) ==
  /\ session[s] = Idle
  /\ status[p] = "succeeded"
  /\ RefundPayment(p)
  /\ Do(s, "dispatch", p)
  /\ UNCHANGED <<kind, allowance, gateway, webhook, hook, web, failures>>

\* Then the gateway is asked to give the money back; it knows no wallet payment
\* and may decline.
DispatchRefund(s) ==
  /\ At(s, "dispatch")
  /\ LET p == session[s].p
     IN  gateway' \in {gateway, IF gateway[p] = "paid"
                               THEN [gateway EXCEPT ![p] = "refunded"] ELSE gateway}
  /\ Goto(s, Idle)
  /\ UNCHANGED <<kind, status, allowance, webhook, hook, money, web, failures>>

-----------------------------------------------------------------------------

\* The process dies, or the request is cancelled; an open transaction rolls back.
Crash(s) ==
  /\ session[s] # Idle /\ failures < MaxFailures
  /\ failures' = failures + 1
  /\ Goto(s, Idle)
  /\ UNCHANGED <<kind, status, allowance, gateway, webhook, hook, money, web>>

\* What a session does next without outside help.
Continue(s) ==
  \/ Create(s) \/ Submit(s) \/ Release(s) \/ SetCheckout(s)
  \/ End(s, "cancel", "abandoned") \/ End(s, "expire", "expired")
  \/ Acknowledge(s) \/ CloseWebhook(s) \/ VerifyAnswers(s) \/ Apply(s)
  \/ Ensure(s) \/ RunHook(s) \/ PostHook(s) \/ MarkDone(s) \/ MarkFailed(s)
  \/ ReserveOut(s) \/ Debit(s) \/ Debited(s)
  \/ Flow(s) \/ ClaimFlow(s) \/ Refund(s) \/ DispatchRefund(s)

\* What a request or a job begins.
Begin(s, p) ==
  \/ Draft(s, p) \/ Initialize(s, p) \/ Cancel(s, p) \/ ListExpirable(s, p)
  \/ ReceiveWebhook(s, p) \/ ClaimWebhook(s, p) \/ Poll(s, p) \/ Reconcile(s, p)
  \/ RetryHook(s, p) \/ Confirm(s, p) \/ ApproveRefund(s, p)

Next ==
  \/ \E s \in Sessions : Continue(s) \/ VerifyErrors(s) \/ Crash(s)
  \/ \E s \in Sessions, p \in Payments : Begin(s, p)
  \/ \E p \in Payments : CustomerPays(p)

Spec == Init /\ [][Next]_vars

\* A session that runs goes on, and every job of the worker gets its tick: each
\* has its own ticker and gate.  Customers, merchants and deliveries owe nothing.
Fairness ==
  /\ \A s \in Sessions : WF_vars(Continue(s))
  /\ \A p \in Payments :
       /\ SF_vars(\E s \in Sessions : Reconcile(s, p))
       /\ SF_vars(\E s \in Sessions : RetryHook(s, p))
       /\ SF_vars(\E s \in Sessions : ClaimWebhook(s, p))

LiveSpec == Spec /\ Fairness

-----------------------------------------------------------------------------
(* Properties.                                                             *)

SessionPcs == {"create", "submit", "release", "checkout", "cancel", "expire",
               "acknowledge", "verify", "processed", "retry", "apply", "ensure",
               "run", "post", "mark", "reserve", "debit", "debiting", "flow",
               "claim", "refund", "dispatch"}

\* Every row holds a value its table allows, and a payment is posted as
\* received exactly while it counts as succeeded.
TypeOK ==
  /\ kind \in [Payments -> Kinds \cup {NoKind}]
  /\ status \in [Payments -> Statuses]
  /\ allowance \in [Payments -> {"none", "in", "out"}]
  /\ gateway \in [Payments -> {"none", "open", "paid", "declined", "cancelled", "refunded"}]
  /\ \A p \in Payments :
       /\ webhook[p].state \in {"none", "sent", "received", "delivered",
                                "processing", "processed", "failed"}
       /\ webhook[p].tries \in 0 .. MaxWebhookTries
       /\ hook[p].state \in {"none", "pending", "done", "failed"}
       /\ hook[p].tries \in 0 .. MaxHookTries
       /\ journal[p].received = IF status[p] = "succeeded" THEN 1 ELSE 0
       /\ journal[p].applied \in Nat /\ journal[p].returned \in {0, 1}
       /\ journal[p].settled \in BOOLEAN
  /\ wallet \in Int
  /\ flow \in [Payments -> {"open", "reopened", "finished"}]
  /\ superseded \subseteq Payments
  /\ \A s \in Sessions : session[s] = Idle \/ session[s].pc \in SessionPcs
  /\ failures \in 0 .. MaxFailures

\* A gateway payment counts as succeeded, or was refunded, only if the gateway
\* did collect the money, however return page, webhook, worker and
\* reconciliation interleave (VerifyAndApply).
SucceededWasPaid ==
  \A p \in Payments : status[p] \in {"succeeded", "refunded"} /\ Provider(p) # "wallet"
                        => gateway[p] \in {"paid", "refunded"}

\* A gateway payment holds its money-in reservation as long as it can still
\* succeed and once it has, and gives it back when it ends unpaid
\* (createDraftCore, transitionPayment).
ReservedWhileItCounts ==
  \A p \in Payments : Provider(p) # "wallet" =>
    /\ status[p] \in Live \cup {"succeeded"} => allowance[p] = "in"
    /\ status[p] \in Unpaid => allowance[p] = "none"

\* A stale session never takes a payment out of its outcome: success can only
\* be refunded, and an attempt that failed, was abandoned or expired is over.
OutcomeIsFinal ==
  [][\A p \in Payments :
       /\ status[p] = "succeeded" => status'[p] \in {"succeeded", "refunded"}
       /\ status[p] \in Unpaid \cup {"refunded"} => status'[p] = status[p]]_vars

\* A top-up reaches the wallet at most once: as the credit of its hook or as
\* the credit of its refund, whatever retries race the refund
\* (ApplyWalletTopup, RefundPayment).
ToppedUpOnce ==
  \A p \in Payments : Purpose(p) = "topup" =>
    journal[p].applied + journal[p].returned <= 1

\* What a payment leaves in the payer's wallet.
Effect(p) == IF Provider(p) = "wallet"
             THEN IF status[p] = "succeeded" THEN -1 ELSE 0
             ELSE journal[p].returned + IF Purpose(p) = "topup" THEN journal[p].applied ELSE 0

\* The wallet holds what its payments explain: a confirmed wallet payment is
\* debited once, though the chat and the web confirm it together, a refund puts
\* back what was taken or takes back what a top-up brought, and no retry, crash
\* or second refund moves the balance again (transitionPayment,
\* ApplyWalletTopup, RefundPayment).
WalletExplained ==
  wallet = OpeningBalance + SumFunctionOnSet([p \in Payments |-> Effect(p)], Payments)

\* What the customer paid at the gateway through a card checkout is recognised:
\* the payment leaves the unresolved statuses even if every webhook is lost.
PaidIsResolved ==
  \A p \in Payments :
    gateway[p] = "paid" /\ status[p] \in {"initialized", "pending"}
      ~> status[p] \notin {"initialized", "pending"}

\* The purpose of a succeeded payment is applied, or is visible to an operator
\* as a failed hook, unless the payment is refunded first.
PurposeApplied ==
  \A p \in Payments :
    status[p] = "succeeded"
      ~> \/ journal[p].applied > 0
         \/ hook[p].state = "failed"
         \/ status[p] = "refunded"

-----------------------------------------------------------------------------
(* What the repository says of this code and the code does not do.         *)

\* The wallet is never overdrawn.  One payment cannot do it, but two wallet
\* payments both see the balance before either debits it, and a refund takes
\* back a top-up that was spent.
WalletNeverOverdrawn == wallet >= 0

\* "expired is terminal, so expiring one could strand a real late payment":
\* no payment the customer has paid for is expired.
NoLateMoneyStranded ==
  \A p \in Payments : gateway[p] = "paid" => status[p] # "expired"

\* "It is idempotent: if splits already exist for the payment, it returns":
\* the merchant is credited once for a collection.
SplitOnce ==
  \A p \in Payments : Purpose(p) = "collection" => journal[p].applied <= 1

\* "The reversal unwound the money-in and splits back into the customer float":
\* nothing stays posted for the purpose of a refunded payment.
RefundUnwindsAll ==
  \A p \in Payments : status[p] = "refunded" => journal[p].applied = 0

\* "instead of returning it to the operating bank": the money of a refunded
\* payment goes to the wallet or back through the gateway.
RefundedOnce ==
  \A p \in Payments : ~(journal[p].returned = 1 /\ gateway[p] = "refunded")

\* "the reservation is released again if the attempt later ... is refunded".
RefundReleases ==
  \A p \in Payments : status[p] = "refunded" => allowance[p] = "none"

\* "the money-out ceiling is enforced at confirmation": a wallet payment that
\* succeeded counts against the payer's money-out allowance.
WalletSpendReserved ==
  \A p \in Payments : Provider(p) = "wallet" /\ status[p] = "succeeded"
                        => allowance[p] = "out"

\* "the retry already moved money, so this late success must never charge the
\* customer twice": a superseded attempt that succeeds is refunded.
SupersededIsRefunded ==
  \A p \in Payments :
    p \in superseded /\ status[p] = "succeeded" ~> status[p] = "refunded"
=============================================================================
