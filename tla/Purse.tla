--------------------------------- MODULE Purse ---------------------------------
(***************************************************************************)
(* Program purses (store_programs.go): money a sponsor grants to enrolled  *)
(* beneficiaries, which only the program's approved merchants may be paid  *)
(* with, and which goes back to the sponsor when its validity ends.        *)
(*                                                                         *)
(* A spend and a return lock the row of the purse before they read its     *)
(* balance.  The statement that takes the lock read the allow-list and the *)
(* program first, and sees them as they were when it began to wait.  A     *)
(* grant and a refund credit the purse without the lock.                   *)
(***************************************************************************)
EXTENDS Integers, FiniteSets

CONSTANTS Purses,    \* one per beneficiary of the program
          Shops,     \* merchants
          Spends,    \* payments drafted by the beneficiaries
          Grants,    \* disbursement items, which a retried run posts again
          GrantKobo, \* of every grant
          Price,     \* of every payment; the ordinary wallet pays what the purse does not
          MaxEdits   \* bound: decisions of the sponsor and of the operators

ASSUME PurseAssumption ==
  /\ IsFiniteSet(Spends) /\ IsFiniteSet(Grants)
  /\ {GrantKobo, Price, MaxEdits} \subseteq Nat
  /\ GrantKobo > 0 /\ Price > 0

VARIABLES program, \* status; [Shops -> membership]; the enrolled beneficiaries; edits made
          purse,   \* [Purses -> status, lapsed, ledger balance and the sums behind it]
          spend,   \* [Spends -> the payment: step, purse, merchant, draw, what its gate saw]
          grant,   \* [Grants -> the posting under way, and how often it was posted]
          sweeper  \* the return under way

purseVars == <<program, purse, spend, grant, sweeper>>

NoSpend == [pc |-> "none", purse |-> {}, shop |-> {}, draw |-> 0, allowed |-> FALSE]

PurseInit ==
  /\ program = [active |-> TRUE, shops |-> [m \in Shops |-> "none"], enrolled |-> {}, edits |-> 0]
  /\ purse = [p \in Purses |-> [status |-> "none", lapsed |-> FALSE, balance |-> 0,
                                granted |-> 0, spent |-> 0, refunded |-> 0, returned |-> 0]]
  /\ spend = [s \in Spends |-> NoSpend]
  /\ grant = [g \in Grants |-> [pc |-> "idle", purse |-> {}, posted |-> 0]]
  /\ sweeper = [pc |-> "idle", purse |-> {}, kobo |-> 0]

-----------------------------------------------------------------------------
(* The sponsor.                                                            *)

Edited(new) ==
  /\ program.edits < MaxEdits
  /\ program' = [new EXCEPT !.edits = @ + 1]
  /\ UNCHANGED <<purse, spend, grant, sweeper>>

SetProgramStatus == \E active \in BOOLEAN \ {program.active} : Edited([program EXCEPT !.active = active])

AddProgramMerchant(m) ==
  program.shops[m] # "approved" /\ Edited([program EXCEPT !.shops[m] = "approved"])

\* BlockProgramMerchant and RemoveProgramMerchant keep the row of the approval.
BlockProgramMerchant(m) ==
  program.shops[m] = "approved" /\ Edited([program EXCEPT !.shops[m] = "blocked"])

EnrollUser(p) == p \notin program.enrolled /\ Edited([program EXCEPT !.enrolled = @ \union {p}])
RemoveEnrollment(p) == p \in program.enrolled /\ Edited([program EXCEPT !.enrolled = @ \ {p}])

\* ensureProgramPurseTx: an active enrollment opens the purse, or finds it as it
\* is; the credit that follows goes by the status read here.
EnsureProgramPurse(g, p) ==
  /\ grant[g].pc = "idle" /\ grant[g].purse \subseteq {p}
  /\ program.active /\ p \in program.enrolled /\ purse[p].status # "closed"
  /\ purse' = [purse EXCEPT ![p].status = "active"]
  /\ grant' = [grant EXCEPT ![g].pc = "posting", ![g].purse = {p}]
  /\ UNCHANGED <<program, spend, sweeper>>

\* CreditProgramPurseTx: once per reference, and without the lock of the purse.
CreditProgramPurse(g) ==
  /\ grant[g].pc = "posting"
  /\ grant' = [grant EXCEPT ![g].pc = "idle", ![g].posted = 1]
  /\ purse' = IF grant[g].posted > 0 THEN purse
              ELSE [p \in Purses |-> IF p \notin grant[g].purse THEN purse[p]
                      ELSE [purse[p] EXCEPT !.balance = @ + GrantKobo, !.granted = @ + GrantKobo]]
  /\ UNCHANGED <<program, spend, sweeper>>

\* PostBulkProgramPaymentItem: one transaction that locks the item, finds or opens
\* the beneficiary's purse and credits it.
PostBulkProgramPaymentItem(g) == CreditProgramPurse(g) \/ \E p \in Purses : EnsureProgramPurse(g, p)

PurseLapses(p) ==
  /\ purse[p].status = "active" /\ ~purse[p].lapsed
  /\ purse' = [purse EXCEPT ![p].lapsed = TRUE]
  /\ UNCHANGED <<program, spend, grant, sweeper>>

-----------------------------------------------------------------------------
(* A payment.                                                              *)

Live(p) == purse[p].status = "active" /\ ~purse[p].lapsed
PurseOf(s) == CHOOSE p \in Purses : p \in spend[s].purse

\* splitPurseDraw: the purse pays what it holds by now.
SplitPurseDraw(p) == IF purse[p].balance < Price THEN purse[p].balance ELSE Price

\* ApprovedPurseForPayee, when the payment is drafted.
DraftFromPurse(s, p, m) ==
  /\ spend[s].pc = "none"
  /\ program.active /\ Live(p) /\ program.shops[m] = "approved" /\ purse[p].balance > 0
  /\ spend' = [spend EXCEPT ![s] = [pc |-> "drafted", purse |-> {p}, shop |-> {m}, allowed |-> FALSE,
                                    draw |-> SplitPurseDraw(p)]]
  /\ UNCHANGED <<program, purse, grant, sweeper>>

\* The statement of PurseSpendAllowedTx begins, and may have to wait.
BeginSpend(s) ==
  /\ spend[s].pc = "drafted"
  /\ spend' = [spend EXCEPT ![s].pc = "waiting",
                 ![s].allowed = program.active /\ \A m \in spend[s].shop : program.shops[m] = "approved"]
  /\ UNCHANGED <<program, purse, grant, sweeper>>

\* Mutant: the row is read without FOR UPDATE.
PurseFreeMutant(p) == TRUE

\* Nobody holds the row of the purse.
PurseFree(p) ==
  /\ \A s \in Spends : ~(spend[s].pc = "locked" /\ p \in spend[s].purse)
  /\ p \notin sweeper.purse

\* The lock is granted: the purse is read as it is now, and so is its balance; a
\* refusal leaves the payment to be confirmed again.
PurseSpendAllowed(s) ==
  LET p == PurseOf(s)
  IN  /\ spend[s].pc = "waiting" /\ PurseFree(p)
      /\ spend' = [spend EXCEPT ![s].pc =
                     IF spend[s].allowed /\ Live(p) /\ purse[p].balance >= spend[s].draw
                     THEN "locked" ELSE "drafted"]
      /\ UNCHANGED <<program, purse, grant, sweeper>>

\* TransitionPayment commits; or the wallet cannot pay the rest, and nothing moves.
SpendFromPurse(s) ==
  LET p == PurseOf(s)
  IN  /\ spend[s].pc = "locked"
      /\ \/ /\ spend' = [spend EXCEPT ![s].pc = "paid"]
            /\ purse' = [purse EXCEPT ![p].balance = @ - spend[s].draw, ![p].spent = @ + spend[s].draw]
         \/ spend[s].draw < Price /\ spend' = [spend EXCEPT ![s].pc = "drafted"] /\ UNCHANGED purse
      /\ UNCHANGED <<program, grant, sweeper>>

\* A refund reverses the payment's journal: the money is restricted again, also
\* when the purse was closed meanwhile.
RefundToPurse(s) ==
  LET p == PurseOf(s)
  IN  /\ spend[s].pc = "paid"
      /\ spend' = [spend EXCEPT ![s].pc = "refunded"]
      /\ purse' = [purse EXCEPT ![p].balance = @ + spend[s].draw, ![p].refunded = @ + spend[s].draw]
      /\ UNCHANGED <<program, grant, sweeper>>

-----------------------------------------------------------------------------
(* The return.                                                             *)

\* ExpiredPurses lists, ReturnExpiredPurse locks: a live purse is left alone.
ReturnBegins(p) ==
  /\ sweeper.pc = "idle" /\ PurseFree(p)
  /\ purse[p].balance > 0 /\ (purse[p].status = "closed" \/ (purse[p].status = "active" /\ purse[p].lapsed))
  /\ sweeper' = [pc |-> "returning", purse |-> {p}, kobo |-> purse[p].balance]
  /\ UNCHANGED <<program, purse, spend, grant>>

\* The balance read under the lock goes to the sponsor and the purse is closed;
\* what was credited meanwhile stays for the next sweep.
ReturnExpiredPurse ==
  /\ sweeper.pc = "returning"
  /\ purse' = [p \in Purses |-> IF p \notin sweeper.purse THEN purse[p]
                 ELSE [purse[p] EXCEPT !.status = "closed", !.balance = @ - sweeper.kobo,
                                  !.returned = @ + sweeper.kobo]]
  /\ sweeper' = [pc |-> "idle", purse |-> {}, kobo |-> 0]
  /\ UNCHANGED <<program, spend, grant>>

PurseNext ==
  \/ SetProgramStatus \/ ReturnExpiredPurse
  \/ \E m \in Shops : AddProgramMerchant(m) \/ BlockProgramMerchant(m)
  \/ \E p \in Purses : EnrollUser(p) \/ RemoveEnrollment(p) \/ PurseLapses(p) \/ ReturnBegins(p)
  \/ \E g \in Grants : PostBulkProgramPaymentItem(g)
  \/ \E s \in Spends :
       \/ BeginSpend(s) \/ PurseSpendAllowed(s) \/ SpendFromPurse(s) \/ RefundToPurse(s)
       \/ \E p \in Purses, m \in Shops : DraftFromPurse(s, p, m)

PurseSpec == PurseInit /\ [][PurseNext]_purseVars

-----------------------------------------------------------------------------
\* However spends, refunds, late grants and returns meet, a purse is never
\* overdrawn and what the sponsor granted is where the program says: held,
\* spent, or returned; a grant counts once.
PurseSafe ==
  \A p \in Purses :
    /\ purse[p].balance >= 0
    /\ purse[p].balance = purse[p].granted + purse[p].refunded - purse[p].spent - purse[p].returned
    /\ purse[p].granted = GrantKobo * Cardinality({g \in Grants : grant[g].posted > 0 /\ p \in grant[g].purse})
    /\ purse[p].returned <= purse[p].granted

PurseTypeOK ==
  /\ program.edits \in 0 .. MaxEdits
  /\ \A s \in Spends : spend[s].draw \in 0 .. Price

\* What a reader might expect and the code does not do: a merchant taken off the
\* list while a confirmation waits for the lock is paid all the same.
DelistedIsNotPaid ==
  [][\A s \in Spends : (spend[s].pc = "locked" /\ spend'[s].pc = "paid") =>
       \A m \in spend[s].shop : program.shops[m] = "approved"]_purseVars
=============================================================================
