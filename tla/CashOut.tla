------------------------------- MODULE CashOut -------------------------------
(***************************************************************************)
(* Wallet cash-outs: a customer moves money from the Xego wallet to a bank *)
(* account over the Interswitch transfer rail.                             *)
(*                                                                         *)
(* internal/service/wallet_payouts.go runs the request (reserve the        *)
(* money-out allowance, screen the beneficiary, debit the wallet) and the  *)
(* dispatch (claim, call the rail, record the answer); the maintenance     *)
(* sweep of the settlement worker requeues, retries and reverses.          *)
(* internal/store/store_wallet_payouts.go holds the statements, each one   *)
(* PostgreSQL transaction and here one action.  A cash-out is named by its *)
(* reservation reference, which is fresh for every Request.                *)
(*                                                                         *)
(* The ledger is kept as the balance its lines add up to (walletBalanceQ). *)
(***************************************************************************)
EXTENDS Integers, FiniteSets, Functions

CONSTANTS Users,             \* wallet owners
          Payouts,           \* cash-out requests (reservation references)
          Workers,           \* goroutines that run Dispatch
          Owner,             \* [Payouts -> Users]
          Amount,            \* [Payouts -> kobo debited: principal and fee]
          Funds,             \* [Users -> kobo in the wallet at the start]
          Ceiling,           \* daily money-out ceiling of a customer, in kobo
          PayoutMaxAttempts, \* claims before a failed cash-out is reversed
          MaxCrashes         \* bound: process crashes in a behaviour

ASSUME CashOutAssumption ==
  /\ IsFiniteSet(Payouts)
  /\ Owner \in [Payouts -> Users]
  /\ Amount \in [Payouts -> Nat \ {0}]
  /\ Funds \in [Users -> Nat]
  /\ Ceiling \in Nat
  /\ PayoutMaxAttempts \in Nat \ {0}
  /\ MaxCrashes \in Nat

VARIABLES balance,      \* [Users -> Int]: net of the wallet's ledger lines
          walletStatus, \* [Users -> WalletStatuses]
          request,      \* [Payouts -> RequestSteps]: where Request stands
          allowance,    \* Payouts with a row in allowance_usage
          status,       \* [Payouts -> PayoutStatuses], "none" before the row
          attempts,     \* [Payouts -> 0 .. PayoutMaxAttempts]
          worker,       \* [Workers -> WorkerStates]
          transferred,  \* Payouts the rail has credited to the bank account
          denied,       \* those of them whose last answer said otherwise
          crashes       \* number of crashes so far

vars == <<balance, walletStatus, request, allowance, status, attempts,
          worker, transferred, denied, crashes>>

WalletStatuses == {"active", "frozen"}
RequestSteps   == {"start", "reserved", "screened", "review", "refused",
                   "accepted", "crashed"}
PayoutStatuses == {"none", "queued", "processing", "completed", "failed",
                   "reversed"}
Answers        == {"succeeded", "declined", "pending", "error"}
Idle           == [pc |-> "idle"]
WorkerStates   == {Idle}
                    \cup [pc : {"calling"}, payout : Payouts]
                    \cup [pc : {"answered"}, payout : Payouts, answer : Answers]

Init ==
  /\ balance = Funds
  /\ walletStatus = [u \in Users |-> "active"]
  /\ request = [p \in Payouts |-> "start"]
  /\ allowance = {}
  /\ status = [p \in Payouts |-> "none"]
  /\ attempts = [p \in Payouts |-> 0]
  /\ worker = [w \in Workers |-> Idle]
  /\ transferred = {}
  /\ denied = {}
  /\ crashes = 0

-----------------------------------------------------------------------------
(* Request: WalletPayoutService.Request, one action per transaction.       *)

OwnedBy(u) == {p \in Payouts : Owner[p] = u}

\* Money-out of u counted against the ceiling today.
Used(u) == SumFunctionOnSet(Amount, allowance \cap OwnedBy(u))

\* Mutant: the movement being reserved is left out of the sum.
WithinCeilingMutant(p) == Used(Owner[p]) <= Ceiling

\* kyc.Validate: the new movement counts too.
WithinCeiling(p) == Used(Owner[p]) + Amount[p] <= Ceiling

\* ReserveAllowance, under the advisory lock of (customer, direction): a
\* refusal ends the request.
Reserve(p) ==
  /\ request[p] = "start"
  /\ IF WithinCeiling(p)
     THEN /\ allowance' = allowance \cup {p}
          /\ request' = [request EXCEPT ![p] = "reserved"]
     ELSE /\ request' = [request EXCEPT ![p] = "refused"]
          /\ UNCHANGED allowance
  /\ UNCHANGED <<balance, walletStatus, status, attempts, worker,
                 transferred, denied, crashes>>

\* ReleaseAllowance: the reservation row is deleted and the request refused.
Refuse(p) ==
  /\ allowance' = allowance \ {p}
  /\ request' = [request EXCEPT ![p] = "refused"]

\* Counterparty screening: clear, a hold that keeps the reservation, or an
\* outage of the screening provider that gives it back.
Screen(p) ==
  /\ request[p] = "reserved"
  /\ \/ /\ request' = [request EXCEPT ![p] = "screened"]
        /\ UNCHANGED allowance
     \/ /\ request' = [request EXCEPT ![p] = "review"]
        /\ UNCHANGED allowance
     \/ Refuse(p)
  /\ UNCHANGED <<balance, walletStatus, status, attempts, worker,
                 transferred, denied, crashes>>

\* Mutant: the balance is not checked under the lock.
CanDebitMutant(p) == walletStatus[Owner[p]] = "active"

CanDebit(p) == /\ walletStatus[Owner[p]] = "active"
               /\ balance[Owner[p]] >= Amount[p]

\* CreateWalletPayout: under the lock of the wallet row the balance is
\* checked, the row inserted and the debit posted; an error releases the
\* reservation.
CreateWalletPayout(p) ==
  /\ request[p] = "screened"
  /\ \/ /\ CanDebit(p)
        /\ balance' = [balance EXCEPT ![Owner[p]] = @ - Amount[p]]
        /\ status' = [status EXCEPT ![p] = "queued"]
        /\ request' = [request EXCEPT ![p] = "accepted"]
        /\ UNCHANGED allowance
     \/ /\ ~CanDebit(p)
        /\ Refuse(p)
        /\ UNCHANGED <<balance, status>>
  /\ UNCHANGED <<walletStatus, attempts, worker, transferred, denied, crashes>>

\* The process dies between two transactions of a request.
CrashRequest(p) ==
  /\ crashes < MaxCrashes
  /\ request[p] \in {"reserved", "screened"}
  /\ request' = [request EXCEPT ![p] = "crashed"]
  /\ crashes' = crashes + 1
  /\ UNCHANGED <<balance, walletStatus, allowance, status, attempts, worker,
                 transferred, denied>>

\* freezeWalletTx: compliance blocks further money-out of the wallet.
FreezeWallet(u) ==
  /\ walletStatus[u] = "active"
  /\ walletStatus' = [walletStatus EXCEPT ![u] = "frozen"]
  /\ UNCHANGED <<balance, request, allowance, status, attempts, worker,
                 transferred, denied, crashes>>

-----------------------------------------------------------------------------
(* Dispatch: claim the row, call the rail, record what it answered.  The   *)
(* caller is the request's own handler or the sweep of any replica.        *)

\* ClaimWalletPayoutForDispatch.  attempts only matters up to the maximum.
Claim(w, p) ==
  /\ worker[w] = Idle
  /\ status[p] = "queued"
  /\ status' = [status EXCEPT ![p] = "processing"]
  /\ attempts' = [attempts EXCEPT ![p] =
                    IF @ < PayoutMaxAttempts THEN @ + 1 ELSE @]
  /\ worker' = [worker EXCEPT ![w] = [pc |-> "calling", payout |-> p]]
  /\ UNCHANGED <<balance, walletStatus, request, allowance, transferred, denied,
                 crashes>>

\* What the rail may answer to a call for p, and whether p is then
\* transferred.  The payout id is its idempotency key, so a repeated call for
\* a transferred payout moves nothing, however it is answered; a response that
\* is lost on its way, a 5xx or one that cannot be read is an error whether or
\* not the transfer was executed.
RailOutcomes(p) ==
  {[answer |-> "succeeded", moved |-> TRUE], [answer |-> "error", moved |-> TRUE]}
    \cup [answer : {"declined", "pending", "error"}, moved : {p \in transferred}]

\* The answers that say that no money moved.
Denials == {"declined", "error"}

\* The call to the rail returns (interswitch.Client.Payout).
RailAnswers(w, outcome) ==
  /\ worker[w].pc = "calling"
  /\ LET p == worker[w].payout
     IN  /\ outcome \in RailOutcomes(p)
         /\ worker' = [worker EXCEPT ![w] = [pc     |-> "answered",
                                             payout |-> p,
                                             answer |-> outcome.answer]]
         /\ transferred' = IF outcome.moved THEN transferred \cup {p} ELSE transferred
         /\ denied' = IF outcome.moved /\ outcome.answer \in Denials
                      THEN denied \cup {p} ELSE denied \ {p}
  /\ UNCHANGED <<balance, walletStatus, request, allowance, status, attempts,
                 crashes>>

\* Mutant: the rail's own word is stored.
OutcomeMutant(answer) == answer

\* Mutant: a pending transfer is taken for an accepted one.
OutcomePendingMutant(answer) ==
  IF answer \in {"succeeded", "pending"} THEN "completed" ELSE "failed"

\* The status a processing row takes on an answer; a pending one leaves it to
\* the sweep.
Outcome(answer) == CASE answer = "succeeded" -> "completed"
                     [] answer = "pending"   -> "processing"
                     [] OTHER                -> "failed"

\* CompleteWalletPayout and FailWalletPayout change a processing row only.
Record(w) ==
  /\ worker[w].pc = "answered"
  /\ LET p == worker[w].payout
     IN  status' = [status EXCEPT ![p] = IF @ = "processing"
                                         THEN Outcome(worker[w].answer) ELSE @]
  /\ worker' = [worker EXCEPT ![w] = Idle]
  /\ UNCHANGED <<balance, walletStatus, request, allowance, attempts,
                 transferred, denied, crashes>>

\* The process dies around the call: the rail may or may not have acted.
CrashWorker(w) ==
  /\ crashes < MaxCrashes
  /\ worker[w] # Idle
  /\ \/ UNCHANGED transferred
     \/ /\ worker[w].pc = "calling"
        /\ transferred' = transferred \cup {worker[w].payout}
  /\ worker' = [worker EXCEPT ![w] = Idle]
  /\ crashes' = crashes + 1
  /\ UNCHANGED <<balance, walletStatus, request, allowance, status, attempts,
                 denied>>

-----------------------------------------------------------------------------
(* Maintain: the sweep of the settlement worker.                           *)

InFlight(p) == {w \in Workers : worker[w] # Idle /\ worker[w].payout = p}

\* Mutant: the age of the row is not looked at.
StaleMutant(p) == status[p] = "processing"

\* Mutant: the sweep looks for failed rows instead of processing ones.
StaleFailedMutant(p) == status[p] = "failed" /\ InFlight(p) = {}

\* A claim stamps updated_at and the rail's HTTP client gives up after 15
\* seconds, so a row untouched for 30 minutes has no caller any more.
Stale(p) == status[p] = "processing" /\ InFlight(p) = {}

\* RequeueStaleWalletPayouts.
RequeueStale(p) ==
  /\ Stale(p)
  /\ status' = [status EXCEPT ![p] = "queued"]
  /\ UNCHANGED <<balance, walletStatus, request, allowance, attempts, worker,
                 transferred, denied, crashes>>

\* RetryWalletPayout: a failed row goes back while attempts remain.
RetryWalletPayout(p) ==
  /\ status[p] = "failed"
  /\ attempts[p] < PayoutMaxAttempts
  /\ status' = [status EXCEPT ![p] = "queued"]
  /\ UNCHANGED <<balance, walletStatus, request, allowance, attempts, worker,
                 transferred, denied, crashes>>

\* Mutant: any row out of attempts is reversed, whatever its status.
ReversibleMutant(p) == /\ status[p] \notin {"none", "reversed"}
                       /\ attempts[p] >= PayoutMaxAttempts

\* Maintain reverses a failed row that is out of attempts.
Reversible(p) == status[p] = "failed" /\ attempts[p] >= PayoutMaxAttempts

\* ReverseWalletPayout: the debits are posted back and the allowance is
\* released in one transaction.
ReverseWalletPayout(p) ==
  /\ Reversible(p)
  /\ status' = [status EXCEPT ![p] = "reversed"]
  /\ balance' = [balance EXCEPT ![Owner[p]] = @ + Amount[p]]
  /\ allowance' = allowance \ {p}
  /\ UNCHANGED <<walletStatus, request, attempts, worker, transferred, denied, crashes>>

-----------------------------------------------------------------------------

Answer(w) == \E outcome \in [answer : Answers, moved : BOOLEAN] :
               RailAnswers(w, outcome)

Next ==
  \/ \E p \in Payouts : \/ Reserve(p) \/ Screen(p) \/ CreateWalletPayout(p)
                        \/ CrashRequest(p)
                        \/ RequeueStale(p) \/ RetryWalletPayout(p)
                        \/ ReverseWalletPayout(p)
  \/ \E u \in Users : FreezeWallet(u)
  \/ \E w \in Workers : \/ \E p \in Payouts : Claim(w, p)
                        \/ Answer(w) \/ Record(w) \/ CrashWorker(w)

Spec == Init /\ [][Next]_vars

\* A rail that answers definitely, whatever the answer.
DefiniteAnswer(w) ==
  \E outcome \in [answer : Answers \ {"pending"}, moved : BOOLEAN] :
    RailAnswers(w, outcome)

\* Every tick of the settlement worker sweeps all rows, a call returns within
\* the HTTP timeout, and the beneficiary's bank is not down for ever.
Fairness ==
  /\ \A p \in Payouts : /\ SF_vars(\E w \in Workers : Claim(w, p))
                        /\ WF_vars(RequeueStale(p))
                        /\ WF_vars(RetryWalletPayout(p))
                        /\ WF_vars(ReverseWalletPayout(p))
  /\ \A w \in Workers : /\ WF_vars(Answer(w)) /\ WF_vars(Record(w))
                        /\ SF_vars(DefiniteAnswer(w))

LiveSpec == Spec /\ Fairness

-----------------------------------------------------------------------------
(* Properties.                                                             *)

\* Every variable has its type.
TypeOK ==
  /\ balance \in [Users -> Int]
  /\ walletStatus \in [Users -> WalletStatuses]
  /\ request \in [Payouts -> RequestSteps]
  /\ allowance \subseteq Payouts
  /\ status \in [Payouts -> PayoutStatuses]
  /\ attempts \in [Payouts -> 0 .. PayoutMaxAttempts]
  /\ worker \in [Workers -> WorkerStates]
  /\ transferred \subseteq Payouts
  /\ denied \subseteq Payouts
  /\ crashes \in 0 .. MaxCrashes

\* Rows whose money has left the wallet and has not come back.
Outstanding == {p \in Payouts : status[p] \notin {"none", "reversed"}}

\* Cash-outs, retries, crashes and reversals neither create nor lose wallet
\* money, and concurrent cash-outs never overdraw the wallet: the debits of
\* CreateWalletPayout and the credits of ReverseWalletPayout match row by row.
WalletConserved ==
  \A u \in Users :
    /\ balance[u] >= 0
    /\ balance[u] + SumFunctionOnSet(Amount, Outstanding \cap OwnedBy(u)) = Funds[u]

\* The ceiling holds for all the money a customer has on its way out, and a
\* row whose money is out stays counted until it is reversed.
CeilingHolds ==
  /\ Outstanding \subseteq allowance
  /\ \A u \in Users : Used(u) <= Ceiling

\* Two goroutines never call the rail for one payout at a time, whatever the
\* sweep requeues: the claim and the age of the row keep them apart.
OneCaller == \A p \in Payouts : Cardinality(InFlight(p)) <= 1

\* Money that reached the bank account is put back in the wallet only when the
\* rail itself answered last that it had moved none: no crash, requeue, retry or
\* late record does that (Maintain, ReverseWalletPayout).
ReturnedOnlyIfDenied == \A p \in transferred : status[p] = "reversed" => p \in denied

\* What the ports say of the rails: "a transfer that already executed is completed
\* instead of being re-attempted", so money is never both paid and put back.  It
\* is not so, since nothing asks the rail again after an error.
NeverPaidAndReturned == \A p \in transferred : status[p] # "reversed"

\* A completed cash-out was transferred and the rail said so last, and one that
\* was transferred is recorded as failed only when the rail denied it: through
\* repeated calls, crashes and requeues (Dispatch, RequeueStaleWalletPayouts).
RecordMatchesRail ==
  \A p \in Payouts :
    /\ status[p] = "completed" => p \in transferred \ denied
    /\ status[p] = "failed" /\ p \in transferred => p \in denied

\* A recorded outcome is final: no late answer, sweep or crash changes it.
OutcomeIsFinal ==
  [][\A p \in Payouts : status[p] \in {"completed", "reversed"}
                          => status'[p] = status[p]]_vars

\* Only what can still complete is held against the ceiling: a reservation
\* belongs to a request in progress, to a beneficiary under review or to a
\* row whose money is out.  (A crash between the two transactions breaks it.)
CeilingNotEaten ==
  \A p \in allowance : \/ p \in Outstanding
                       \/ request[p] \in {"reserved", "screened", "review"}

\* Money taken from the wallet is in the end transferred and recorded, or
\* returned: no crash, requeue or failure strands it.
EventuallySettled ==
  \A p \in Payouts : status[p] = "queued"
                       ~> status[p] \in {"completed", "reversed"}

\* The abstract promise, with the rail's credit as the payment.
Disposition ==
  [p \in Payouts |-> CASE status[p] = "none" -> "none"
                       [] status[p] = "reversed" ->
                            IF p \in transferred THEN "both" ELSE "returned"
                       [] OTHER -> IF p \notin transferred THEN "held"
                                   ELSE IF p \in denied THEN "denied" ELSE "paid"]

Promise == INSTANCE Disbursement WITH disposition <- Disposition
Implements == Promise!Spec
=============================================================================
