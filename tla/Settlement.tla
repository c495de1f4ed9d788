------------------------------ MODULE Settlement ------------------------------
(***************************************************************************)
(* Merchant settlement: succeeded payments are cut into batches, a batch   *)
(* is paid to the merchant's bank account, and refunds take payments out   *)
(* again.  One merchant; a batch is named by its batch number and a payout *)
(* row by its batch and its place among the rows of that batch.            *)
(*                                                                         *)
(* store_settlements.go and store_refunds.go hold the transactions,        *)
(* service/settlement.go strings them together.  PostgreSQL runs at READ   *)
(* COMMITTED, so a transaction that reads in one statement and writes in a *)
(* later one is two actions of a session, as is every place where a        *)
(* request leaves the database: the payout request creates the row,        *)
(* reserves the allowance, screens the account, claims, calls the bank     *)
(* rail and records, each on its own.                                      *)
(***************************************************************************)
EXTENDS Integers, FiniteSets, Functions

CONSTANTS Payments,          \* payments of the merchant, succeeded at the start
          Amount,            \* [Payments -> kobo]
          Batches,           \* batch numbers
          FeeBps,            \* settlement fee in basis points
          MaxPayouts,        \* bound: payout rows of one batch
          PayoutMaxAttempts, \* claims after which a failed row is not retried
          Ceiling,           \* money-out ceiling of the merchant, in kobo
          Sessions,          \* API handlers, ticks of the settlement and rescreen workers
          Reviewers,         \* requests that dispose of held payouts
          MaxCrashes         \* bound: sessions that die in a behaviour

ASSUME SettlementAssumption ==
  /\ IsFiniteSet(Payments) /\ IsFiniteSet(Batches)
  /\ Amount \in [Payments -> Nat \ {0}]
  /\ FeeBps \in Nat /\ FeeBps <= 10000
  /\ MaxPayouts \in Nat \ {0}
  /\ PayoutMaxAttempts \in Nat \ {0}
  /\ Ceiling \in Nat
  /\ Sessions \cap Reviewers = {}
  /\ MaxCrashes \in Nat

VARIABLES refund,      \* [Payments -> RefundStates]: the payment's refund row
          batch,       \* [Batches -> BatchRecords]
          books,       \* ledger balances: payable, wallet, fees, bank
          payout,      \* [Rows -> PayoutRecords]; journal: ledger_journal is set
          reserved,    \* [Batches -> kobo reserved in allowance_usage]
          screening,   \* [Batches -> Decisions] for the merchant's account
          session,     \* [Sessions \cup Reviewers -> SessionStates]
          transferred, \* rows whose transfer the bank rail has executed
          crashes      \* number of crashes so far

vars == <<refund, batch, books, payout, reserved, screening, session,
          transferred, crashes>>

RefundStates   == {"none", "pending_approval", "rejected", "approved",
                   "auto"}
BatchStatuses  == {"none", "open", "scheduled", "processed"}
PayoutStatuses == {"none", "queued", "held", "processing", "completed",
                   "failed", "reversed"}
Decisions      == {"none", "clear", "review", "blocked"}
Answers        == {"succeeded", "declined", "pending", "error"}

Rows      == Batches \X (1 .. MaxPayouts)
RowsOf(b) == {r \in Rows : r[1] = b}
Idle      == [pc |-> "idle"]

KoboOf(ps) == SumFunctionOnSet(Amount, ps)

Init ==
  /\ refund = [p \in Payments |-> "none"]
  /\ batch = [b \in Batches |-> [status |-> "none", lines |-> {},
                                 total  |-> 0,      fee   |-> 0]]
  /\ books = [payable |-> KoboOf(Payments), wallet |-> 0, fees |-> 0, bank |-> 0]
  /\ payout = [r \in Rows |-> [status |-> "none", amount |-> 0, attempts |-> 0,
                               journal |-> FALSE]]
  /\ reserved = [b \in Batches |-> 0]
  /\ screening = [b \in Batches |-> "none"]
  /\ session = [s \in Sessions \cup Reviewers |-> Idle]
  /\ transferred = {}
  /\ crashes = 0

Goto(s, state) == session' = [session EXCEPT ![s] = state]
SetStatus(r, status) == payout' = [payout EXCEPT ![r].status = status]

-----------------------------------------------------------------------------
(* CutSettlement.                                                          *)

\* The payment is in its refunded state.
Refunded(p) == refund[p] \in {"approved", "auto"}

\* Succeeded and on no line of a batch.
Eligible == {p \in Payments : ~Refunded(p) /\ \A b \in Batches : p \notin batch[b].lines}

\* Payments whose row a refund transaction holds FOR UPDATE.
LockedPayments ==
  {p \in Payments : \E s \in Sessions : /\ session[s].pc = "refunding"
                                        /\ session[s].payment = p}

Fee(total) == (total * FeeBps) \div 10000

\* Mutant: the wallet is credited with the gross total.
NetMutant(total) == total

\* What the merchant's wallet is credited with.
Net(total) == total - Fee(total)

\* The ledger entry of a cut.
Credit(total) == books' = [books EXCEPT !.payable = @ - total,
                                        !.fees    = @ + Fee(total),
                                        !.wallet  = @ + Net(total)]

\* The SELECT of a cut takes its snapshot.
CutRead(s, b) ==
  /\ session[s] = Idle
  /\ batch[b].status = "none"
  /\ Eligible # {}
  /\ Goto(s, [pc |-> "cutting", batch |-> b, seen |-> Eligible])
  /\ UNCHANGED <<refund, batch, books, payout, reserved, screening,
                 transferred, crashes>>

\* The rest of the cut: rows locked by others are skipped, rows refunded since
\* are dropped, rows batched since are not noticed.  A known batch number or an
\* empty cut ends it.
CutCommit(s) ==
  /\ session[s].pc = "cutting"
  /\ LET b     == session[s].batch
         lines == {p \in session[s].seen \ LockedPayments : ~Refunded(p)}
         total == KoboOf(lines)
     IN  IF batch[b].status = "none" /\ total > 0
         THEN /\ batch' = [batch EXCEPT ![b] = [status |-> "open", lines |-> lines,
                                                total |-> total, fee |-> Fee(total)]]
              /\ Credit(total)
         ELSE UNCHANGED <<batch, books>>
  /\ Goto(s, Idle)
  /\ UNCHANGED <<refund, payout, reserved, screening, transferred, crashes>>

-----------------------------------------------------------------------------
(* Refunds.                                                                *)

\* The batch a payment is in, as a set of at most one; of two (a double cut)
\* the newer one is read, here either.
BatchOf(p) == LET found == {b \in Batches : p \in batch[b].lines}
              IN  IF found = {} THEN {{}} ELSE {{b} : b \in found}

LinesOf(from) == UNION {batch[b].lines : b \in from}

\* The locked payment may be refunded: it has no refund row (a rejected one
\* keeps status "pending") and its batch has no payout under way.
Refundable(p, from) ==
  refund[p] = "none" /\ \A b \in from : batch[b].status = "open"

\* RequestRefund (for approval) and RefundPayment (at once, kind "auto") lock
\* the payment and read its batch; the UPDATE of RequestRefund sums the lines
\* of this moment, RefundPayment locks the batch row before it sums.
RefundRead(s, p, kind) ==
  /\ session[s] = Idle
  /\ p \notin LockedPayments
  /\ \E from \in BatchOf(p) :
       /\ Refundable(p, from)
       /\ Goto(s, [pc |-> "refunding", payment |-> p, kind |-> kind, from |-> from,
                   seen |-> LinesOf(from)])
  /\ UNCHANGED <<refund, batch, books, payout, reserved, screening,
                 transferred, crashes>>

\* postLedgerReversalTx: the payment's postings are offset.
ReverseLedger(p) == books' = [books EXCEPT !.payable = @ - Amount[p]]

\* The line leaves the batch, whose fee, wallet credit and payout amount stay.
RefundCommit(s) ==
  /\ session[s].pc = "refunding"
  /\ LET p == session[s].payment
         auto == session[s].kind = "auto"
         remaining(b) == (IF auto THEN batch[b].lines ELSE session[s].seen) \ {p}
     IN  /\ batch' = [b \in Batches |->
                        IF b \in session[s].from
                        THEN [batch[b] EXCEPT !.lines = @ \ {p},
                                              !.total = KoboOf(remaining(b))]
                        ELSE batch[b]]
         /\ refund' = [refund EXCEPT ![p] = IF auto THEN "auto" ELSE "pending_approval"]
         /\ IF auto THEN ReverseLedger(p) ELSE UNCHANGED books
  /\ Goto(s, Idle)
  /\ UNCHANGED <<payout, reserved, screening, transferred, crashes>>

\* ApproveRefund, by another admin: the payment is refunded whatever batch it
\* has meanwhile been cut into.  The gateway's answer is recorded in the refund
\* row and changes nothing else.
ApproveRefund(p) ==
  /\ refund[p] = "pending_approval"
  /\ refund' = [refund EXCEPT ![p] = "approved"]
  /\ ReverseLedger(p)
  /\ UNCHANGED <<batch, payout, reserved, screening, session, transferred, crashes>>

RejectRefund(p) ==
  /\ refund[p] = "pending_approval"
  /\ refund' = [refund EXCEPT ![p] = "rejected"]
  /\ UNCHANGED <<batch, books, payout, reserved, screening, session,
                 transferred, crashes>>

-----------------------------------------------------------------------------
(* RequestPayout: create the row, reserve, screen, dispatch.               *)

Live(b) == {r \in RowsOf(b) : payout[r].status \notin {"none", "reversed"}}

\* The next row of the batch.
Fresh(b) == {r \in RowsOf(b) : \A q \in RowsOf(b) :
                                 (q[2] < r[2]) <=> (payout[q].status # "none")}

\* The CHECK on the amount of a payout row.
Payable(amount) == amount > 0

\* The request goes on to its allowance.
Admit(s, r, amount) == Goto(s, [pc |-> "admitting", row |-> r, amount |-> amount])

\* RequestPayout reads the batch, which must be open or scheduled; the amount
\* it reserves is of this moment.
RequestPayout(s, b) ==
  /\ session[s] = Idle
  /\ batch[b].status \in {"open", "scheduled"}
  /\ Goto(s, [pc |-> "requesting", batch |-> b, amount |-> batch[b].total - batch[b].fee])
  /\ UNCHANGED <<refund, batch, books, payout, reserved, screening,
                 transferred, crashes>>

\* The INSERT of CreatePayout: the amount of the row is of this moment, and the
\* CHECK on it must hold.
InsertPayout(s, b) ==
  /\ Live(b) = {}
  /\ Payable(batch[b].total - batch[b].fee)
  /\ \E r \in Fresh(b) :
       /\ payout' = [payout EXCEPT ![r].status = "queued",
                                   ![r].amount = batch[b].total - batch[b].fee]
       /\ Admit(s, r, session[s].amount)

\* CreatePayout: a new row, or the batch's own if it is not completed.  A row
\* inserted by another request since is refused by the unique index.
CreatePayout(s) ==
  LET b == session[s].batch IN
    /\ session[s].pc = "requesting"
    /\ \/ InsertPayout(s, b)
       \/ /\ \E r \in Live(b) : /\ payout[r].status # "completed"
                                /\ Admit(s, r, session[s].amount)
          /\ UNCHANGED payout
       \/ /\ Live(b) # {} \/ Fresh(b) = {} \/ ~Payable(batch[b].total - batch[b].fee)
          /\ Goto(s, Idle)
          /\ UNCHANGED payout
    /\ UNCHANGED <<refund, batch, books, reserved, screening, transferred, crashes>>

UsedAllowance == SumFunctionOnSet(reserved, Batches)

\* ReserveAllowance under the batch number: a known key passes, a refusal ends
\* the request and leaves the row as it is.
ReserveAllowance(s) ==
  /\ session[s].pc = "admitting"
  /\ LET b == session[s].row[1]
         amount == session[s].amount
         screened == Goto(s, [pc |-> "screening", row |-> session[s].row])
     IN  \/ reserved[b] > 0 /\ screened /\ UNCHANGED reserved
         \/ /\ reserved[b] = 0
            /\ amount > 0
            /\ UsedAllowance + amount <= Ceiling
            /\ reserved' = [reserved EXCEPT ![b] = amount]
            /\ screened
         \/ /\ reserved[b] = 0
            /\ amount <= 0 \/ UsedAllowance + amount > Ceiling
            /\ Goto(s, Idle)
            /\ UNCHANGED reserved
  /\ UNCHANGED <<refund, batch, books, payout, screening, transferred, crashes>>

\* The session goes on to an UPDATE of its row that is guarded by a status.
Update(s, from, to) ==
  Goto(s, [pc |-> "updating", row |-> session[s].row, from |-> from, to |-> to])

\* Review holds the payout, an interdiction fails it.
Apply(s, decision) ==
  \/ decision = "clear" /\ Goto(s, [pc |-> "dispatching", row |-> session[s].row])
  \/ decision = "review" /\ Update(s, "queued", "held")
  \/ decision = "blocked" /\ Update(s, "queued", "failed")

\* ScreenPayout: the recorded decision for the account, or a new one; an outage
\* of the provider holds the payout and records nothing.
ScreenPayout(s) ==
  LET b == session[s].row[1] IN
    /\ session[s].pc = "screening"
    /\ \/ /\ screening[b] # "none"
          /\ Apply(s, screening[b])
          /\ UNCHANGED screening
       \/ /\ screening[b] = "none"
          /\ \E decision \in {"clear", "review", "blocked"} :
               /\ screening' = [screening EXCEPT ![b] = decision]
               /\ Apply(s, decision)
       \/ /\ screening[b] = "none"
          /\ Update(s, "queued", "held")
          /\ UNCHANGED screening
    /\ UNCHANGED <<refund, batch, books, payout, reserved, transferred, crashes>>

\* Mutant: the UPDATE is not guarded by the status.
StillMutant(r, from) == payout[r].status # "none"

\* The row is as the guard of the UPDATE wants it.
Still(r, from) == payout[r].status = from

\* The guarded UPDATE: a screened row is held or failed while it is queued, an
\* approved or re-evaluated one queued or failed while it is held.
UpdateRow(s) ==
  /\ session[s].pc = "updating"
  /\ IF Still(session[s].row, session[s].from)
     THEN SetStatus(session[s].row, session[s].to) ELSE UNCHANGED payout
  /\ Goto(s, Idle)
  /\ UNCHANGED <<refund, batch, books, reserved, screening, transferred, crashes>>

\* What a claim makes of a row; attempts are counted up to the bound.
Claimed(row) == [row EXCEPT !.status = "processing",
                            !.attempts = IF @ < PayoutMaxAttempts THEN @ + 1 ELSE @]

\* ClaimPayoutForDispatch: the batch's queued row, for the row the caller holds.
\* The worker's tick dispatches any queued row it lists (DispatchPending).
Claim(s, held, r) ==
  /\ \/ session[s] = Idle /\ held = r
     \/ session[s] = [pc |-> "dispatching", row |-> held]
  /\ held[1] = r[1]
  /\ payout[r].status = "queued"
  /\ payout' = [payout EXCEPT ![r] = Claimed(@)]
  /\ batch' = [batch EXCEPT ![r[1]].status = "scheduled"]
  /\ Goto(s, [pc |-> "calling", row |-> held, claimed |-> r])
  /\ UNCHANGED <<refund, books, reserved, screening, transferred, crashes>>

\* Somebody else claimed it, or it is held, failed or paid.
NothingToClaim(s) ==
  /\ session[s].pc = "dispatching"
  /\ \A r \in RowsOf(session[s].row[1]) : payout[r].status # "queued"
  /\ Goto(s, Idle)
  /\ UNCHANGED <<refund, batch, books, payout, reserved, screening,
                 transferred, crashes>>

-----------------------------------------------------------------------------
(* The call to the bank rail and its record.                               *)

\* The payout row's id is the idempotency key of the rail.  A transport error
\* tells nothing about the transfer.
RailAnswers(s, answer, moved) ==
  /\ session[s].pc = "calling"
  /\ moved => answer \in {"succeeded", "error"}
  /\ ~moved => answer # "succeeded" /\ session[s].claimed \notin transferred
  /\ transferred' = IF moved THEN transferred \cup {session[s].claimed}
                             ELSE transferred
  /\ Goto(s, [pc |-> "answered", row |-> session[s].row, answer |-> answer])
  /\ UNCHANGED <<refund, batch, books, payout, reserved, screening, crashes>>

\* Mutant: pending is taken for success.
ConfirmedMutant(answer) == answer \in {"succeeded", "pending"}

Confirmed(answer) == answer = "succeeded"

\* Mutant: a completed row is completed again.
CompletableTwiceMutant(r) == payout[r].status \in {"processing", "completed"}

Completable(r) == payout[r].status = "processing"

\* CompletePayout: the row is completed, the batch processed and the wallet
\* discharged; FailPayout: a processing row is failed.
Record(s) ==
  LET r == session[s].row
      answer == session[s].answer
      completes == Confirmed(answer) /\ Completable(r)
      fails == /\ answer \in {"declined", "error"}
               /\ payout[r].status = "processing"
  IN  /\ session[s].pc = "answered"
      /\ CASE completes ->
                /\ payout' = [payout EXCEPT ![r].status = "completed", ![r].journal = TRUE]
                /\ batch' = [batch EXCEPT ![r[1]].status = "processed"]
                /\ books' = [books EXCEPT !.wallet = @ - payout[r].amount,
                                          !.bank   = @ + payout[r].amount]
           [] fails -> SetStatus(r, "failed") /\ UNCHANGED <<batch, books>>
           [] OTHER -> UNCHANGED <<payout, batch, books>>
      /\ Goto(s, Idle)
      /\ UNCHANGED <<refund, reserved, screening, transferred, crashes>>

\* A session dies anywhere: an open transaction is rolled back, a call in
\* flight may have been executed.
Crash(s) ==
  /\ crashes < MaxCrashes
  /\ session[s] # Idle
  /\ \/ UNCHANGED transferred
     \/ /\ session[s].pc = "calling"
        /\ transferred' = transferred \cup {session[s].claimed}
  /\ Goto(s, Idle)
  /\ crashes' = crashes + 1
  /\ UNCHANGED <<refund, batch, books, payout, reserved, screening>>

-----------------------------------------------------------------------------
(* Operator, merchant and sweep.                                           *)

\* RetryPayout.
RetryPayout(r) ==
  /\ payout[r].status = "failed"
  /\ payout[r].attempts < PayoutMaxAttempts
  /\ SetStatus(r, "queued")
  /\ UNCHANGED <<refund, batch, books, reserved, screening, session,
                 transferred, crashes>>

\* Mutant: the batch is reopened whatever its status.
ReopenMutant(b) == batch' = [batch EXCEPT ![b].status = "open"]

\* The batch of a cancelled payout is reopened if it was scheduled.
Reopen(b) == batch' = IF batch[b].status = "scheduled"
                      THEN [batch EXCEPT ![b].status = "open"] ELSE batch

\* Mutant: a reversed payout can be reversed again.
ReversibleAgainMutant(r) == payout[r].status \in {"failed", "processing", "reversed"}

Reversible(r) == payout[r].status \in {"failed", "processing"}

\* ReversePayout, by the merchant's API or the admin console.
ReversePayout(r) ==
  /\ Reversible(r)
  /\ SetStatus(r, "reversed")
  /\ Reopen(r[1])
  /\ reserved' = [reserved EXCEPT ![r[1]] = 0]
  /\ UNCHANGED <<refund, books, screening, session, transferred, crashes>>

\* Mutant: the sweep looks at failed rows.
StaleMutant(r) == payout[r].status = "failed"

\* The claim does not stamp updated_at, so a row is stale when it is processing
\* and was created 30 minutes ago, however recent the claim.
Stale(r) == payout[r].status = "processing"

\* RequeueStalePayouts, after the dispatches of the same tick.
RequeueStale(s, r) ==
  /\ session[s] = Idle
  /\ Stale(r)
  /\ SetStatus(r, "queued")
  /\ UNCHANGED <<refund, batch, books, reserved, screening, session,
                 transferred, crashes>>

\* ReleaseHeldPayout reads the row, which must be held.
ReadHeld(s, r) ==
  /\ session[s] = Idle
  /\ payout[r].status = "held"
  /\ Goto(s, [pc |-> "reviewing", row |-> r])
  /\ UNCHANGED <<refund, batch, books, payout, reserved, screening,
                 transferred, crashes>>

\* The UPDATE of an open hit to a decision.
Decide(b, decision) ==
  screening' = IF screening[b] = "review" THEN [screening EXCEPT ![b] = decision]
               ELSE screening

\* Approved: the recorded hit is cleared, a hold without one stays, and the row
\* is queued if it is still held.
ApproveHeld(s) ==
  /\ session[s].pc = "reviewing"
  /\ Decide(session[s].row[1], "clear")
  /\ IF screening[session[s].row[1]] = "review"
     THEN Update(s, "held", "queued") ELSE Goto(s, Idle)
  /\ UNCHANGED <<refund, batch, books, payout, reserved, transferred, crashes>>

\* Rejected: the row is reversed, whatever has become of it since it was read ...
RejectHeld(s) ==
  /\ session[s].pc = "reviewing"
  /\ SetStatus(session[s].row, "reversed")
  /\ Goto(s, [pc |-> "releasing", row |-> session[s].row])
  /\ UNCHANGED <<refund, batch, books, reserved, screening, transferred, crashes>>

\* ... in the next statement the reservation of its batch goes ...
ReleaseReservation(s) ==
  /\ session[s].pc = "releasing"
  /\ reserved' = [reserved EXCEPT ![session[s].row[1]] = 0]
  /\ Goto(s, [pc |-> "reopening", row |-> session[s].row])
  /\ UNCHANGED <<refund, batch, books, payout, screening, transferred, crashes>>

\* ... and in the last its batch is reopened.
ReopenBatch(s) ==
  /\ session[s].pc = "reopening"
  /\ Reopen(session[s].row[1])
  /\ Goto(s, Idle)
  /\ UNCHANGED <<refund, books, payout, reserved, screening, transferred, crashes>>

\* The rescreen worker lists the held payouts with an open hit of an older list
\* (HeldScreeningsOnStaleList; any hit may be of one) ...
ListHeld(s, r) ==
  /\ session[s] = Idle
  /\ payout[r].status = "held"
  /\ screening[r[1]] = "review"
  /\ Goto(s, [pc |-> "rescreening", row |-> r])
  /\ UNCHANGED <<refund, batch, books, payout, reserved, screening,
                 transferred, crashes>>

\* ... asks the provider, and records the new list version if the hit is still
\* open.  An outage, a hit closed since, or a new hit ends it ...
Reevaluate(s) ==
  /\ session[s].pc = "rescreening"
  /\ \/ /\ screening[session[s].row[1]] = "review"
        /\ \E decision \in {"clear", "blocked"} :
             Goto(s, [pc |-> "deciding", row |-> session[s].row, decision |-> decision])
     \/ Goto(s, Idle)
  /\ UNCHANGED <<refund, batch, books, payout, reserved, screening,
                 transferred, crashes>>

\* ... and the decision is recorded, whether or not the hit is still open, before
\* the row is queued or failed if it is still held.
RecordDecision(s) ==
  /\ session[s].pc = "deciding"
  /\ Decide(session[s].row[1], session[s].decision)
  /\ Update(s, "held", IF session[s].decision = "clear" THEN "queued" ELSE "failed")
  /\ UNCHANGED <<refund, batch, books, payout, reserved, transferred, crashes>>

-----------------------------------------------------------------------------

Answer(s) == \E answer \in Answers, moved \in BOOLEAN : RailAnswers(s, answer, moved)

Dispatch(s) == \/ \E r \in Rows : \E held \in RowsOf(r[1]) : Claim(s, held, r)
               \/ NothingToClaim(s)

Next ==
  \/ \E s \in Sessions :
       \/ \E b \in Batches : CutRead(s, b) \/ RequestPayout(s, b)
       \/ \E p \in Payments, kind \in {"request", "auto"} : RefundRead(s, p, kind)
       \/ \E r \in Rows : RequeueStale(s, r) \/ ListHeld(s, r)
       \/ CutCommit(s) \/ RefundCommit(s) \/ CreatePayout(s)
       \/ ReserveAllowance(s) \/ ScreenPayout(s) \/ Dispatch(s)
       \/ Answer(s) \/ Record(s) \/ Reevaluate(s) \/ RecordDecision(s)
  \/ \E s \in Reviewers :
       \/ \E r \in Rows : ReadHeld(s, r)
       \/ ApproveHeld(s) \/ RejectHeld(s) \/ ReleaseReservation(s) \/ ReopenBatch(s)
  \/ \E s \in Sessions \cup Reviewers : UpdateRow(s) \/ Crash(s)
  \/ \E p \in Payments : ApproveRefund(p) \/ RejectRefund(p)
  \/ \E r \in Rows : RetryPayout(r) \/ ReversePayout(r)

Spec == Init /\ [][Next]_vars

\* The rail says something definite.
DefiniteAnswer(s) ==
  \E answer \in {"succeeded", "declined"}, moved \in BOOLEAN : RailAnswers(s, answer, moved)

\* The worker ticks every ten seconds: it claims what is queued and requeues
\* what stays processing; a session that has started goes on, a call returns
\* within the HTTP timeout and the rail is not undecided for ever.
Fairness ==
  /\ \A b \in Batches : SF_vars(\E s \in Sessions, r \in RowsOf(b), q \in RowsOf(b) :
                                  Claim(s, q, r))
  /\ \A r \in Rows : SF_vars(\E s \in Sessions : RequeueStale(s, r))
  /\ \A s \in Sessions :
       /\ WF_vars(CutCommit(s)) /\ WF_vars(RefundCommit(s)) /\ WF_vars(CreatePayout(s))
       /\ WF_vars(ReserveAllowance(s)) /\ WF_vars(ScreenPayout(s))
       /\ WF_vars(UpdateRow(s)) /\ WF_vars(Reevaluate(s)) /\ WF_vars(RecordDecision(s))
       /\ WF_vars(Dispatch(s)) /\ WF_vars(Record(s)) /\ SF_vars(DefiniteAnswer(s))

LiveSpec == Spec /\ Fairness

-----------------------------------------------------------------------------
(* Properties.                                                             *)

SessionStates ==
  {Idle}
    \cup [pc : {"cutting"}, batch : Batches, seen : SUBSET Payments]
    \cup [pc : {"refunding"}, payment : Payments, kind : {"request", "auto"},
          from : SUBSET Batches, seen : SUBSET Payments]
    \cup [pc : {"requesting"}, batch : Batches, amount : Int]
    \cup [pc : {"admitting"}, row : Rows, amount : Int]
    \cup [pc : {"screening", "dispatching", "reviewing", "releasing", "reopening",
               "rescreening"}, row : Rows]
    \cup [pc : {"updating"}, row : Rows, from : {"queued"}, to : {"held", "failed"}]
    \cup [pc : {"updating"}, row : Rows, from : {"held"}, to : {"queued", "failed"}]
    \cup [pc : {"deciding"}, row : Rows, decision : {"clear", "blocked"}]
    \cup [pc : {"calling"}, row : Rows, claimed : Rows]
    \cup [pc : {"answered"}, row : Rows, answer : Answers]

\* Every variable has its type.
TypeOK ==
  /\ refund \in [Payments -> RefundStates]
  /\ batch \in [Batches -> [status : BatchStatuses, lines : SUBSET Payments,
                            total : Nat, fee : Nat]]
  /\ books \in [payable : Int, wallet : Int, fees : Int, bank : Int]
  /\ payout \in [Rows -> [status : PayoutStatuses, amount : Nat,
                          attempts : 0 .. PayoutMaxAttempts, journal : BOOLEAN]]
  /\ reserved \in [Batches -> Nat]
  /\ screening \in [Batches -> Decisions]
  /\ session \in [Sessions \cup Reviewers -> SessionStates]
  /\ transferred \subseteq Rows
  /\ crashes \in 0 .. MaxCrashes

\* The merchant's collections are all accounted for: still payable, in the
\* wallet, taken as fee, paid from the bank or refunded, each payment once.
BooksBalance ==
  books.payable + books.wallet + books.fees + books.bank
    + KoboOf({p \in Payments : Refunded(p)}) = KoboOf(Payments)

\* Completed payouts written over by a rejection.
Overwritten == {r \in Rows : payout[r].journal /\ payout[r].status # "completed"}

AmountOfRow == [r \in Rows |-> payout[r].amount]

\* Payouts take no more out of the merchant's wallet than the cuts put in, but
\* for the amounts of the completed payouts that a rejection has written over:
\* only these batches may discharge the wallet again.
WalletNeverOverdrawn == books.wallet + SumFunctionOnSet(AmountOfRow, Overwritten) >= 0

\* A payout recorded as completed was executed by the rail, however late the
\* answer and however often the row was requeued in between.
CompletedWasTransferred ==
  \A r \in Rows : payout[r].status = "completed" => r \in transferred

\* The batch of a completed payout is processed, and a processed batch has a
\* payout that discharged the wallet, completed unless a rejection wrote over it.
ProcessedHasPayout ==
  \A b \in Batches :
    /\ batch[b].status = "processed" => \E r \in RowsOf(b) : payout[r].journal
    /\ \A r \in RowsOf(b) : payout[r].status = "completed" => batch[b].status = "processed"

\* Session s is about to reverse row r, which it read held.
Rejecting(s, r) == session[s].pc = "reviewing" /\ session[s].row = r

\* A completed or reversed payout row never changes again, unless a reviewer who
\* read it held reverses it: through retries, late answers, requeues,
\* re-evaluations and approvals.
OutcomeIsFinal ==
  [][\A r \in Rows : payout[r].status \in {"completed", "reversed"} =>
       \/ payout'[r] = payout[r]
       \/ /\ \E s \in Reviewers : Rejecting(s, r)
          /\ payout'[r] = [payout[r] EXCEPT !.status = "reversed"]]_vars

\* The money-out reservation of a batch goes only in the step that reverses its
\* live payout, or under a rejection whose payout is reversed already.
ReservationKept ==
  [][\A b \in Batches : reserved[b] > 0 /\ reserved'[b] = 0 =>
       \E r \in RowsOf(b) :
         /\ payout'[r].status = "reversed"
         /\ \/ r \in Live(b)
            \/ \E s \in Reviewers : session[s] = [pc |-> "releasing", row |-> r]]_vars

\* A queued payout is in the end completed, failed, reversed or held.
QueuedIsSettled ==
  \A r \in Rows : payout[r].status = "queued"
                     ~> payout[r].status \notin {"queued", "processing"}

(* What the documents say and the code does not do.                        *)

\* The wallet never goes below zero.
WalletCovers == books.wallet >= 0

\* A disposition applies to a held payout.
RejectsHeld ==
  [][\A s \in Reviewers, r \in Rows :
       Rejecting(s, r) /\ payout'[r].status = "reversed" => payout[r].status = "held"]_vars

\* Every money-out movement is within the ceiling before it reaches the rail.
PaidIsReserved == \A r \in transferred : payout[r].status # "reversed" => reserved[r[1]] > 0

\* A batch settles once, however often its payout is requested.
BatchPaidOnce == \A b \in Batches : Cardinality(transferred \cap RowsOf(b)) <= 1

\* No refunded payment is in a scheduled or processed batch.
RefundedNotSettled ==
  \A p \in Payments, b \in Batches :
    Refunded(p) /\ p \in batch[b].lines => batch[b].status = "open"

\* The payout amount is the total of its batch minus the fee.
PayoutIsNet == \A b \in Batches : \A r \in Live(b) :
                 payout[r].amount = batch[b].total - batch[b].fee

\* The total of a batch is recomputed from its lines.
TotalIsSumOfLines == \A b \in Batches : batch[b].total = KoboOf(batch[b].lines)

\* A payment is settled through one batch.
OneBatchPerPayment ==
  \A p \in Payments : Cardinality({b \in Batches : p \in batch[b].lines}) <= 1

\* A payout is requeued only when nobody is calling the rail for it.
RequeuesOrphans ==
  [][\A r \in Rows : payout[r].status = "processing" /\ payout'[r].status = "queued"
       => \A s \in Sessions : session[s].pc = "calling" => session[s].claimed # r]_vars
=============================================================================
