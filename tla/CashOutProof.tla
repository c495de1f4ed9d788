---------------------------- MODULE CashOutProof ----------------------------
(***************************************************************************)
(* Proofs about CashOut for any customers, payouts, workers, ceilings and  *)
(* retry budget.  The argument is about who may be calling the rail: a     *)
(* busy worker holds a row that is processing (CallerHoldsRow) and no two  *)
(* workers hold the same row (SoleCaller).  What the rail has transferred  *)
(* can then only be processing, queued again or completed, unless the rail *)
(* itself denied it last (TransferredIsLive).                              *)
(***************************************************************************)
EXTENDS CashOut, Sums, FiniteSetTheorems, TLAPS

\* The time a leaf may take on a slow machine.
USE SMTT(40), ZenonT(20)

\* A worker between its claim and its record holds a processing row.
CallerHoldsRow ==
  \A w \in Workers : worker[w] # Idle => status[worker[w].payout] = "processing"

\* No two workers hold the same row.
SoleCaller ==
  \A v, w \in Workers :
    worker[v] # Idle /\ worker[w] # Idle /\ worker[v].payout = worker[w].payout
      => v = w

\* There is a row only for an accepted request.
RowsAreAccepted == \A p \in Payouts : request[p] # "accepted" => status[p] = "none"

\* The inductive invariant for any rail.
CallInv == TypeOK /\ CallerHoldsRow /\ SoleCaller /\ RowsAreAccepted

LEMMA WorkerShape ==
  ASSUME TypeOK, NEW w \in Workers
  PROVE  /\ worker[w].pc = "calling"
              => worker[w] # Idle /\ worker[w].payout \in Payouts
         /\ worker[w].pc = "answered"
              => /\ worker[w] # Idle /\ worker[w].payout \in Payouts
                 /\ worker[w].answer \in Answers
         /\ worker[w] # Idle => /\ worker[w].payout \in Payouts
                                /\ worker[w].pc \in {"calling", "answered"}
BY DEF TypeOK, WorkerStates, Idle

\* Every variable keeps its type.
LEMMA TypeStep ==
  ASSUME CashOutAssumption, TypeOK, [Next]_vars
  PROVE  TypeOK'
<1> USE DEF TypeOK, RequestSteps, PayoutStatuses, WalletStatuses
<1>1. ASSUME NEW p \in Payouts, Reserve(p) PROVE TypeOK'
  BY <1>1 DEF Reserve
<1>2. ASSUME NEW p \in Payouts, Screen(p) PROVE TypeOK'
  BY <1>2 DEF Screen, Refuse
<1>3. ASSUME NEW p \in Payouts, CreateWalletPayout(p) PROVE TypeOK'
  BY <1>3 DEF CreateWalletPayout, Refuse, CashOutAssumption
<1>4. ASSUME NEW p \in Payouts, CrashRequest(p) PROVE TypeOK'
  BY <1>4 DEF CrashRequest, CashOutAssumption
<1>5. ASSUME NEW p \in Payouts, RequeueStale(p) PROVE TypeOK'
  BY <1>5 DEF RequeueStale
<1>6. ASSUME NEW p \in Payouts, RetryWalletPayout(p) PROVE TypeOK'
  BY <1>6 DEF RetryWalletPayout
<1>7. ASSUME NEW p \in Payouts, ReverseWalletPayout(p) PROVE TypeOK'
  BY <1>7 DEF ReverseWalletPayout, CashOutAssumption
<1>8. ASSUME NEW u \in Users, FreezeWallet(u) PROVE TypeOK'
  BY <1>8 DEF FreezeWallet
<1>9. ASSUME NEW w \in Workers, NEW p \in Payouts, Claim(w, p) PROVE TypeOK'
  <2>1. worker' \in [Workers -> WorkerStates]
    BY <1>9 DEF Claim, WorkerStates
  <2>2. attempts' \in [Payouts -> 0 .. PayoutMaxAttempts]
    BY <1>9 DEF Claim, CashOutAssumption
  <2> QED BY <1>9, <2>1, <2>2 DEF Claim
<1>10. ASSUME NEW w \in Workers, Answer(w) PROVE TypeOK'
  <2>1. PICK o \in [answer : Answers, moved : BOOLEAN] : RailAnswers(w, o)
    BY <1>10 DEF Answer
  <2>2. worker[w].payout \in Payouts
    BY <2>1, WorkerShape DEF RailAnswers
  <2>3. worker' \in [Workers -> WorkerStates]
    BY <2>1, <2>2 DEF RailAnswers, WorkerStates
  <2> QED BY <2>1, <2>2, <2>3 DEF RailAnswers
<1>11. ASSUME NEW w \in Workers, Record(w) PROVE TypeOK'
  <2>1. worker' \in [Workers -> WorkerStates]
    BY <1>11 DEF Record, WorkerStates
  <2> QED BY <1>11, <2>1 DEF Record, Outcome
<1>12. ASSUME NEW w \in Workers, CrashWorker(w) PROVE TypeOK'
  <2>1. worker' \in [Workers -> WorkerStates]
    BY <1>12 DEF CrashWorker, WorkerStates
  <2>2. worker[w].payout \in Payouts
    BY <1>12, WorkerShape DEF CrashWorker
  <2>3. crashes' \in 0 .. MaxCrashes
    BY <1>12 DEF CrashWorker, CashOutAssumption
  <2> QED BY <1>12, <2>1, <2>2, <2>3 DEF CrashWorker
<1>13. CASE UNCHANGED vars
  BY <1>13 DEF vars
<1> QED
  BY <1>1, <1>2, <1>3, <1>4, <1>5, <1>6, <1>7, <1>8, <1>9, <1>10, <1>11,
     <1>12, <1>13 DEF Next

\* Only a claim makes a worker busy, and the row it claims was queued, which
\* no busy worker holds; only an answered worker's record, or a sweep that
\* found no worker on the row, takes a row out of processing.
LEMMA CallStep ==
  ASSUME CashOutAssumption, CallInv, [Next]_vars
  PROVE  CallInv'
<1> USE DEF CallInv, CallerHoldsRow, SoleCaller, RowsAreAccepted
<1>0. TypeOK /\ TypeOK'
  BY TypeStep
<1>1. ASSUME NEW p \in Payouts, Reserve(p) PROVE CallInv'
  BY <1>0, <1>1 DEF Reserve, TypeOK
<1>2. ASSUME NEW p \in Payouts, Screen(p) PROVE CallInv'
  BY <1>0, <1>2 DEF Screen, Refuse, TypeOK
<1>3. ASSUME NEW p \in Payouts, CreateWalletPayout(p) PROVE CallInv'
  <2>1. status[p] = "none" /\ request[p] # "accepted"
    BY <1>3 DEF CreateWalletPayout
  <2>2. \A w \in Workers : worker[w] # Idle => worker[w].payout # p
    BY <2>1
  <2>3. CallerHoldsRow'
    BY <1>0, <1>3, <2>2, WorkerShape DEF CreateWalletPayout, TypeOK
  <2> QED BY <1>0, <1>3, <2>1, <2>3 DEF CreateWalletPayout, Refuse, TypeOK
<1>4. ASSUME NEW p \in Payouts, CrashRequest(p) PROVE CallInv'
  BY <1>0, <1>4 DEF CrashRequest, TypeOK
<1>5. ASSUME NEW p \in Payouts, RequeueStale(p) PROVE CallInv'
  <2>1. \A w \in Workers : worker[w] # Idle => worker[w].payout # p
    BY <1>5 DEF RequeueStale, Stale, InFlight
  <2>2. status[p] # "none"
    BY <1>5 DEF RequeueStale, Stale
  <2> QED BY <1>0, <1>5, <2>1, <2>2, WorkerShape DEF RequeueStale, TypeOK
<1>6. ASSUME NEW p \in Payouts, RetryWalletPayout(p) PROVE CallInv'
  <2>1. \A w \in Workers : worker[w] # Idle => worker[w].payout # p
    BY <1>6 DEF RetryWalletPayout
  <2> QED BY <1>0, <1>6, <2>1, WorkerShape DEF RetryWalletPayout, TypeOK
<1>7. ASSUME NEW p \in Payouts, ReverseWalletPayout(p) PROVE CallInv'
  <2>1. \A w \in Workers : worker[w] # Idle => worker[w].payout # p
    BY <1>7 DEF ReverseWalletPayout, Reversible
  <2> QED BY <1>0, <1>7, <2>1, WorkerShape
            DEF ReverseWalletPayout, Reversible, TypeOK
<1>8. ASSUME NEW u \in Users, FreezeWallet(u) PROVE CallInv'
  BY <1>0, <1>8 DEF FreezeWallet
<1>9. ASSUME NEW w \in Workers, NEW p \in Payouts, Claim(w, p) PROVE CallInv'
  <2>1. \A v \in Workers : worker[v] # Idle => worker[v].payout # p
    BY <1>9 DEF Claim
  <2>2. /\ worker'[w] = [pc |-> "calling", payout |-> p]
        /\ \A v \in Workers : v # w => worker'[v] = worker[v]
        /\ status'[p] = "processing"
        /\ \A q \in Payouts : q # p => status'[q] = status[q]
    BY <1>0, <1>9 DEF Claim, TypeOK
  <2>3. CallerHoldsRow'
    BY <2>1, <2>2, WorkerShape, <1>0
  <2>4. SoleCaller'
    BY <2>1, <2>2
  <2>5. RowsAreAccepted'
    BY <1>0, <1>9, <2>2 DEF Claim
  <2> QED BY <1>0, <2>3, <2>4, <2>5
<1>10. ASSUME NEW w \in Workers, Answer(w) PROVE CallInv'
  <2>1. PICK o \in [answer : Answers, moved : BOOLEAN] : RailAnswers(w, o)
    BY <1>10 DEF Answer
  <2>2. /\ worker'[w].payout = worker[w].payout /\ worker[w] # Idle
        /\ \A v \in Workers : v # w => worker'[v] = worker[v]
    BY <1>0, <2>1, WorkerShape DEF RailAnswers, TypeOK
  <2> QED BY <1>0, <2>1, <2>2 DEF RailAnswers
<1>11. ASSUME NEW w \in Workers, Record(w) PROVE CallInv'
  <2>1. /\ worker'[w] = Idle /\ worker[w] # Idle /\ worker[w].payout \in Payouts
        /\ \A v \in Workers : v # w => worker'[v] = worker[v]
    BY <1>0, <1>11, WorkerShape DEF Record, TypeOK
  <2>2. \A q \in Payouts : q # worker[w].payout => status'[q] = status[q]
    BY <1>0, <1>11 DEF Record, TypeOK
  <2>3. CallerHoldsRow'
    BY <1>0, <2>1, <2>2, WorkerShape
  <2>4. SoleCaller'
    BY <2>1
  <2>5. RowsAreAccepted'
    BY <1>0, <1>11, <2>1, <2>2 DEF Record
  <2> QED BY <1>0, <2>3, <2>4, <2>5
<1>12. ASSUME NEW w \in Workers, CrashWorker(w) PROVE CallInv'
  BY <1>0, <1>12 DEF CrashWorker, TypeOK
<1>13. CASE UNCHANGED vars
  BY <1>0, <1>13 DEF vars
<1> QED
  BY <1>1, <1>2, <1>3, <1>4, <1>5, <1>6, <1>7, <1>8, <1>9, <1>10, <1>11,
     <1>12, <1>13 DEF Next

LEMMA CallInit ==
  ASSUME CashOutAssumption, Init
  PROVE  CallInv
BY DEF CashOutAssumption, Init, CallInv, TypeOK, CallerHoldsRow, SoleCaller,
       RowsAreAccepted, WorkerStates, WalletStatuses, RequestSteps, PayoutStatuses

LEMMA CallInvariance == CashOutAssumption => (Spec => []CallInv)
<1> SUFFICES ASSUME CashOutAssumption PROVE Spec => []CallInv
  OBVIOUS
<1>1. Init => CallInv
  BY CallInit
<1>2. CallInv /\ [Next]_vars => CallInv'
  BY CallStep
<1> QED BY <1>1, <1>2, PTL DEF Spec

\* Every variable keeps its type, for every choice of the constants.
THEOREM TypeCorrect == CashOutAssumption => (Spec => []TypeOK)
<1>1. CallInv => TypeOK
  BY DEF CallInv
<1> QED BY <1>1, CallInvariance, PTL

\* The rail never has two callers for one payout: with any number of
\* replicas, crashes and requeues, and whatever the rail answers.
THEOREM OneCallerAlways == CashOutAssumption => (Spec => []OneCaller)
<1>1. CallInv => OneCaller
  <2> SUFFICES ASSUME CallInv, NEW p \in Payouts
               PROVE  Cardinality(InFlight(p)) <= 1
    BY DEF OneCaller
  <2>1. CASE InFlight(p) = {}
    BY <2>1, FS_EmptySet
  <2>2. CASE InFlight(p) # {}
    <3>1. PICK w \in InFlight(p) : TRUE
      BY <2>2
    <3>2. InFlight(p) = {w}
      BY <3>1 DEF InFlight, CallInv, SoleCaller
    <3>3. Cardinality({w}) = 1
      BY FS_Singleton, Zenon
    <3> QED BY <3>2, <3>3
  <2> QED BY <2>1, <2>2
<1> QED BY <1>1, CallInvariance, PTL

\* A completed or reversed cash-out stays that way: every statement that
\* writes a status asks for the one it expects.
THEOREM OutcomesAreFinal == CashOutAssumption => (Spec => OutcomeIsFinal)
<1> SUFFICES ASSUME CashOutAssumption PROVE Spec => OutcomeIsFinal
  OBVIOUS
<1>1. ASSUME CallInv, [Next]_vars
      PROVE  [\A p \in Payouts : status[p] \in {"completed", "reversed"}
                                  => status'[p] = status[p]]_vars
  <2> SUFFICES ASSUME NEW p \in Payouts, status[p] \in {"completed", "reversed"}
               PROVE  status'[p] = status[p]
    OBVIOUS
  <2>0. TypeOK
    BY <1>1 DEF CallInv
  <2>1. ASSUME NEW q \in Payouts, CreateWalletPayout(q) PROVE status'[p] = status[p]
    <3>1. status[q] = "none"
      BY <1>1, <2>1 DEF CallInv, RowsAreAccepted, CreateWalletPayout
    <3> QED BY <2>0, <2>1, <3>1 DEF CreateWalletPayout, TypeOK
  <2>2. ASSUME NEW q \in Payouts,
               RequeueStale(q) \/ RetryWalletPayout(q) \/ ReverseWalletPayout(q)
        PROVE  status'[p] = status[p]
    BY <2>0, <2>2 DEF RequeueStale, Stale, RetryWalletPayout,
                      ReverseWalletPayout, Reversible, TypeOK
  <2>3. ASSUME NEW w \in Workers, NEW q \in Payouts, Claim(w, q)
        PROVE  status'[p] = status[p]
    BY <2>0, <2>3 DEF Claim, TypeOK
  <2>4. ASSUME NEW w \in Workers, Record(w) PROVE status'[p] = status[p]
    BY <2>0, <2>4, WorkerShape DEF Record, TypeOK
  <2>5. ASSUME NEW q \in Payouts, Reserve(q) \/ Screen(q) \/ CrashRequest(q)
        PROVE  status' = status
    BY <2>5 DEF Reserve, Screen, Refuse, CrashRequest
  <2>6. ASSUME NEW u \in Users, FreezeWallet(u) PROVE status' = status
    BY <2>6 DEF FreezeWallet
  <2>7. ASSUME NEW w \in Workers, Answer(w) \/ CrashWorker(w)
        PROVE  status' = status
    BY <2>7 DEF Answer, RailAnswers, CrashWorker
  <2>8. CASE UNCHANGED vars
    BY <2>8 DEF vars
  <2> QED BY <1>1, <2>1, <2>2, <2>3, <2>4, <2>5, <2>6, <2>7, <2>8 DEF Next
<1> QED BY <1>1, CallInvariance, PTL DEF Spec, OutcomeIsFinal

-----------------------------------------------------------------------------
(* The wallet and the ceiling, for any rail.                               *)

\* The debits of a customer that are out.
Held(u) == Outstanding \cap OwnedBy(u)

\* A request between its reservation and its end is counted.
ReservedIsCounted ==
  \A p \in Payouts : request[p] \in {"reserved", "screened"} => p \in allowance

\* The inductive invariant of the money: rows, debits and reservations agree.
MoneyInv == CallInv /\ WalletConserved /\ CeilingHolds /\ ReservedIsCounted

LEMMA SumOfAmounts ==
  ASSUME CashOutAssumption, NEW S \in SUBSET Payouts
  PROVE  /\ IsFiniteSet(S) /\ SumFunctionOnSet(Amount, S) \in Nat
         /\ \A p \in Payouts \ S :
              SumFunctionOnSet(Amount, S \cup {p}) = Amount[p] + SumFunctionOnSet(Amount, S)
         /\ \A p \in S :
              SumFunctionOnSet(Amount, S) = Amount[p] + SumFunctionOnSet(Amount, S \ {p})
         /\ \A R \in SUBSET S : SumFunctionOnSet(Amount, R) <= SumFunctionOnSet(Amount, S)
<1>1. IsFiniteSet(S) /\ \A p \in Payouts : Amount[p] \in Nat /\ Amount[p] \in Int
  BY FS_Subset DEF CashOutAssumption
<1> QED BY <1>1, SumNat, SumAdd, SumRemove, SumSubset

\* Only a created row debits and only a reversal credits, each by the amount
\* of one row that starts or ceases to be outstanding.
LEMMA ConservedStep ==
  ASSUME CashOutAssumption, MoneyInv, [Next]_vars
  PROVE  WalletConserved'
<1> USE DEF MoneyInv, Held
<1>0. TypeOK /\ CallInv /\ TypeOK'
  BY CallStep DEF CallInv
<1>1. ASSUME balance' = balance, Outstanding' = Outstanding PROVE WalletConserved'
  BY <1>1, Zenon DEF WalletConserved, OwnedBy
<1>2. ASSUME NEW p \in Payouts, CreateWalletPayout(p), CanDebit(p) PROVE WalletConserved'
  <2>1. /\ p \notin Outstanding /\ Outstanding' = Outstanding \cup {p}
        /\ Outstanding \in SUBSET Payouts
    BY <1>0, <1>2 DEF CreateWalletPayout, Outstanding, CallInv, RowsAreAccepted, TypeOK
  <2> SUFFICES ASSUME NEW u \in Users
               PROVE  balance'[u] >= 0 /\ balance'[u] + SumFunctionOnSet(Amount, Held(u)') = Funds[u]
    BY DEF WalletConserved, OwnedBy
  <2>2. /\ balance[u] \in Int /\ balance[u] >= 0 /\ Amount[p] \in Nat
        /\ balance[u] + SumFunctionOnSet(Amount, Held(u)) = Funds[u]
    BY <1>0 DEF WalletConserved, TypeOK, CashOutAssumption
  <2>3. CASE u = Owner[p]
    <3>1. balance'[u] = balance[u] - Amount[p] /\ balance[u] >= Amount[p]
      BY <1>0, <1>2, <2>3 DEF CreateWalletPayout, CanDebit, TypeOK
    <3>2. p \notin Held(u) /\ Held(u)' = Held(u) \cup {p} /\ Held(u) \in SUBSET Payouts
      BY <2>1, <2>3 DEF OwnedBy
    <3>3. /\ SumFunctionOnSet(Amount, Held(u)') = Amount[p] + SumFunctionOnSet(Amount, Held(u))
          /\ SumFunctionOnSet(Amount, Held(u)) \in Nat
      BY <3>2, SumOfAmounts
    <3> QED BY <2>2, <3>1, <3>3
  <2>4. CASE u # Owner[p]
    <3>1. balance'[u] = balance[u] /\ Held(u)' = Held(u)
      BY <1>0, <1>2, <2>1, <2>4 DEF CreateWalletPayout, OwnedBy, TypeOK
    <3> QED BY <2>2, <3>1
  <2> QED BY <2>3, <2>4
<1>3. ASSUME NEW p \in Payouts, ReverseWalletPayout(p) PROVE WalletConserved'
  <2>1. /\ p \in Outstanding /\ Outstanding' = Outstanding \ {p}
        /\ Outstanding \in SUBSET Payouts
    BY <1>0, <1>3 DEF ReverseWalletPayout, Reversible, Outstanding, TypeOK
  <2> SUFFICES ASSUME NEW u \in Users
               PROVE  balance'[u] >= 0 /\ balance'[u] + SumFunctionOnSet(Amount, Held(u)') = Funds[u]
    BY DEF WalletConserved, OwnedBy
  <2>2. /\ balance[u] \in Int /\ balance[u] >= 0 /\ Amount[p] \in Nat
        /\ balance[u] + SumFunctionOnSet(Amount, Held(u)) = Funds[u]
    BY <1>0 DEF WalletConserved, TypeOK, CashOutAssumption
  <2>3. CASE u = Owner[p]
    <3>1. balance'[u] = balance[u] + Amount[p]
      BY <1>0, <1>3, <2>3 DEF ReverseWalletPayout, TypeOK
    <3>2. p \in Held(u) /\ Held(u)' = Held(u) \ {p} /\ Held(u) \in SUBSET Payouts
      BY <2>1, <2>3 DEF OwnedBy
    <3>3. /\ SumFunctionOnSet(Amount, Held(u)) = Amount[p] + SumFunctionOnSet(Amount, Held(u)')
          /\ SumFunctionOnSet(Amount, Held(u)') \in Nat
      BY <3>2, SumOfAmounts
    <3> QED BY <2>2, <3>1, <3>3
  <2>4. CASE u # Owner[p]
    <3>1. balance'[u] = balance[u] /\ Held(u)' = Held(u)
      BY <1>0, <1>3, <2>1, <2>4 DEF ReverseWalletPayout, OwnedBy, TypeOK
    <3> QED BY <2>2, <3>1
  <2> QED BY <2>3, <2>4
<1>4. ASSUME NEW p \in Payouts, CreateWalletPayout(p), ~CanDebit(p) PROVE WalletConserved'
  BY <1>1, <1>4 DEF CreateWalletPayout, Outstanding
<1>5. ASSUME NEW p \in Payouts,
             Reserve(p) \/ Screen(p) \/ CrashRequest(p) \/ RequeueStale(p) \/ RetryWalletPayout(p)
      PROVE  WalletConserved'
  BY <1>0, <1>1, <1>5 DEF Reserve, Screen, Refuse, CrashRequest, RequeueStale, Stale,
                          RetryWalletPayout, Outstanding, TypeOK
<1>6. ASSUME NEW u \in Users, FreezeWallet(u) PROVE WalletConserved'
  BY <1>1, <1>6 DEF FreezeWallet, Outstanding
<1>7. ASSUME NEW w \in Workers, NEW p \in Payouts, Claim(w, p) PROVE WalletConserved'
  BY <1>0, <1>1, <1>7 DEF Claim, Outstanding, TypeOK
<1>8. ASSUME NEW w \in Workers, Record(w) PROVE WalletConserved'
  <2>1. worker[w].payout \in Payouts /\ Outcome(worker[w].answer) \notin {"none", "reversed"}
    BY <1>0, <1>8, WorkerShape DEF Record, Outcome
  <2>2. Outstanding' = Outstanding
    BY <1>0, <1>8, <2>1 DEF Record, Outstanding, TypeOK
  <2> QED BY <1>1, <1>8, <2>2 DEF Record
<1>9. ASSUME NEW w \in Workers, Answer(w) \/ CrashWorker(w) PROVE WalletConserved'
  BY <1>1, <1>9 DEF Answer, RailAnswers, CrashWorker, Outstanding
<1>10. CASE UNCHANGED vars
  BY <1>1, <1>10 DEF vars, Outstanding
<1> QED
  BY <1>2, <1>3, <1>4, <1>5, <1>6, <1>7, <1>8, <1>9, <1>10 DEF Next

\* A reservation is added only within the ceiling, a row becomes outstanding
\* only under its reservation, and only a row that is none or reversed loses it.
LEMMA CeilingStep ==
  ASSUME CashOutAssumption, MoneyInv, [Next]_vars
  PROVE  CeilingHolds' /\ ReservedIsCounted'
<1> DEFINE Goal == CeilingHolds' /\ ReservedIsCounted'
<1>0. TypeOK /\ CallInv /\ TypeOK'
  BY CallStep DEF MoneyInv, CallInv
<1>01. /\ Outstanding \subseteq allowance /\ ReservedIsCounted
       /\ \A u \in Users : SumFunctionOnSet(Amount, allowance \cap OwnedBy(u)) <= Ceiling
  BY DEF MoneyInv, CeilingHolds, Used
<1>1. ASSUME allowance' \subseteq allowance, Outstanding' \subseteq allowance', ReservedIsCounted'
      PROVE  Goal
  <2> SUFFICES ASSUME NEW u \in Users PROVE Used(u)' <= Ceiling
    BY <1>1 DEF CeilingHolds
  <2> DEFINE S == allowance \cap OwnedBy(u)
             R == allowance' \cap OwnedBy(u)
  <2>1. S \in SUBSET Payouts /\ R \in SUBSET S
    BY <1>1 DEF OwnedBy
  <2>2. SumFunctionOnSet(Amount, R) <= SumFunctionOnSet(Amount, S)
    BY <2>1, SumOfAmounts
  <2>3. SumFunctionOnSet(Amount, S) <= Ceiling
    BY <1>01
  <2>4. SumFunctionOnSet(Amount, S) \in Nat /\ SumFunctionOnSet(Amount, R) \in Nat /\ Ceiling \in Nat
    BY <2>1, SumOfAmounts DEF CashOutAssumption
  <2>5. Used(u)' = SumFunctionOnSet(Amount, R)
    BY DEF Used, OwnedBy
  <2> HIDE DEF R, S
  <2> QED BY <2>2, <2>3, <2>4, <2>5
<1>2. ASSUME NEW p \in Payouts, Reserve(p) PROVE Goal
  <2>1. CASE WithinCeiling(p)
    <3>1. allowance' = allowance \cup {p} /\ Outstanding' = Outstanding
      BY <1>2, <2>1 DEF Reserve, Outstanding
    <3>2. ReservedIsCounted'
      BY <1>0, <1>01, <1>2, <2>1 DEF Reserve, ReservedIsCounted, TypeOK
    <3>3. Outstanding' \subseteq allowance'
      BY <1>01, <3>1
    <3>4. ASSUME NEW u \in Users PROVE Used(u)' <= Ceiling
      <4> DEFINE S == allowance \cap OwnedBy(u)
      <4>1. Used(u)' = SumFunctionOnSet(Amount, allowance' \cap OwnedBy(u))
        BY DEF Used, OwnedBy
      <4>2. S \in SUBSET Payouts
        BY DEF OwnedBy
      <4>3. CASE u = Owner[p] /\ p \notin allowance
        <5>1. allowance' \cap OwnedBy(u) = S \cup {p} /\ p \in Payouts \ S
          BY <3>1, <4>3 DEF OwnedBy
        <5>2. SumFunctionOnSet(Amount, S \cup {p}) = Amount[p] + SumFunctionOnSet(Amount, S)
          BY <4>2, <5>1, SumOfAmounts
        <5>3. SumFunctionOnSet(Amount, S) + Amount[p] <= Ceiling
          BY <2>1, <4>3 DEF WithinCeiling, Used
        <5>4. SumFunctionOnSet(Amount, S) \in Nat /\ Amount[p] \in Nat /\ Ceiling \in Nat
          BY <4>2, SumOfAmounts DEF CashOutAssumption
        <5> HIDE DEF S
        <5> QED BY <4>1, <5>1, <5>2, <5>3, <5>4
      <4>4. CASE ~(u = Owner[p] /\ p \notin allowance)
        <5>1. allowance' \cap OwnedBy(u) = S
          BY <3>1, <4>4 DEF OwnedBy
        <5> QED BY <1>01, <4>1, <5>1
      <4> QED BY <4>3, <4>4
    <3> QED BY <3>2, <3>3, <3>4 DEF CeilingHolds
  <2>2. CASE ~WithinCeiling(p)
    BY <1>0, <1>01, <1>1, <1>2, <2>2 DEF Reserve, Outstanding, ReservedIsCounted, TypeOK
  <2> QED BY <2>1, <2>2
<1>3. ASSUME NEW p \in Payouts, Screen(p) PROVE Goal
  <2>1. p \notin Outstanding /\ Outstanding' = Outstanding
    BY <1>0, <1>3 DEF Screen, Outstanding, CallInv, RowsAreAccepted
  <2>2. allowance' = allowance \/ allowance' = allowance \ {p}
    BY <1>3 DEF Screen, Refuse
  <2>3. ReservedIsCounted'
    BY <1>0, <1>01, <1>3 DEF Screen, Refuse, ReservedIsCounted, TypeOK
  <2> QED BY <1>01, <1>1, <2>1, <2>2, <2>3
<1>4. ASSUME NEW p \in Payouts, CreateWalletPayout(p) PROVE Goal
  <2>1. p \notin Outstanding /\ p \in allowance
    BY <1>0, <1>01, <1>4 DEF CreateWalletPayout, Outstanding, CallInv, RowsAreAccepted, ReservedIsCounted
  <2>2. \/ allowance' = allowance /\ Outstanding' \subseteq Outstanding \cup {p}
        \/ allowance' = allowance \ {p} /\ Outstanding' = Outstanding
    BY <1>0, <1>4 DEF CreateWalletPayout, Refuse, Outstanding, TypeOK
  <2>3. ReservedIsCounted'
    BY <1>0, <1>01, <1>4 DEF CreateWalletPayout, Refuse, ReservedIsCounted, TypeOK
  <2> QED BY <1>01, <1>1, <2>1, <2>2, <2>3
<1>5. ASSUME NEW p \in Payouts, ReverseWalletPayout(p) PROVE Goal
  <2>1. Outstanding' = Outstanding \ {p} /\ allowance' = allowance \ {p}
    BY <1>0, <1>5 DEF ReverseWalletPayout, Reversible, Outstanding, TypeOK
  <2>2. request' = request /\ request[p] = "accepted"
    BY <1>0, <1>5 DEF ReverseWalletPayout, Reversible, CallInv, RowsAreAccepted
  <2>3. ReservedIsCounted'
    BY <1>01, <2>1, <2>2 DEF ReservedIsCounted
  <2> QED BY <1>01, <1>1, <2>1, <2>3
<1>6. ASSUME NEW p \in Payouts, CrashRequest(p) PROVE Goal
  BY <1>0, <1>01, <1>1, <1>6 DEF CrashRequest, Outstanding, ReservedIsCounted, TypeOK
<1>7. ASSUME NEW p \in Payouts, RequeueStale(p) \/ RetryWalletPayout(p) PROVE Goal
  BY <1>0, <1>01, <1>1, <1>7 DEF RequeueStale, Stale, RetryWalletPayout, Outstanding,
                                 ReservedIsCounted, TypeOK
<1>8. ASSUME NEW u \in Users, FreezeWallet(u) PROVE Goal
  BY <1>01, <1>1, <1>8 DEF FreezeWallet, Outstanding, ReservedIsCounted
<1>9. ASSUME NEW w \in Workers, NEW p \in Payouts, Claim(w, p) PROVE Goal
  BY <1>0, <1>01, <1>1, <1>9 DEF Claim, Outstanding, ReservedIsCounted, TypeOK
<1>10. ASSUME NEW w \in Workers, Record(w) PROVE Goal
  <2>1. worker[w].payout \in Payouts /\ status[worker[w].payout] = "processing"
    BY <1>0, <1>10, WorkerShape DEF Record, CallInv, CallerHoldsRow
  <2>2. Outstanding' \subseteq Outstanding
    BY <1>0, <1>10, <2>1 DEF Record, Outstanding, TypeOK
  <2> QED BY <1>01, <1>1, <1>10, <2>2 DEF Record, ReservedIsCounted
<1>11. ASSUME NEW w \in Workers, Answer(w) \/ CrashWorker(w) PROVE Goal
  BY <1>01, <1>1, <1>11 DEF Answer, RailAnswers, CrashWorker, Outstanding, ReservedIsCounted
<1>12. CASE UNCHANGED vars
  BY <1>01, <1>1, <1>12 DEF vars, Outstanding, ReservedIsCounted
<1> QED
  BY <1>2, <1>3, <1>4, <1>5, <1>6, <1>7, <1>8, <1>9, <1>10, <1>11, <1>12 DEF Next

LEMMA MoneyInvariance == CashOutAssumption => (Spec => []MoneyInv)
<1> SUFFICES ASSUME CashOutAssumption PROVE Spec => []MoneyInv
  OBVIOUS
<1>1. ASSUME Init PROVE MoneyInv
  <2>1. CallInv
    BY <1>1, CallInit
  <2>2. Outstanding = {} /\ allowance = {} /\ balance = Funds
    BY <1>1 DEF Init, Outstanding
  <2>3. \A u \in Users : Outstanding \cap OwnedBy(u) = {} /\ allowance \cap OwnedBy(u) = {}
    BY <2>2
  <2>4. SumFunctionOnSet(Amount, {}) = 0
    BY SumEmpty
  <2>5. WalletConserved
    BY <2>2, <2>3, <2>4 DEF WalletConserved, CashOutAssumption
  <2>6. CeilingHolds
    BY <2>2, <2>3, <2>4 DEF CeilingHolds, Used, CashOutAssumption
  <2>7. ReservedIsCounted
    BY <1>1 DEF Init, ReservedIsCounted
  <2> QED BY <2>1, <2>5, <2>6, <2>7 DEF MoneyInv
<1>2. MoneyInv /\ [Next]_vars => MoneyInv'
  BY CallStep, ConservedStep, CeilingStep DEF MoneyInv
<1> QED BY <1>1, <1>2, PTL DEF Spec

\* Cash-outs, retries, crashes and reversals neither create nor lose wallet
\* money and never overdraw a wallet: however many requests run at once.
THEOREM WalletIsConserved == CashOutAssumption => (Spec => []WalletConserved)
<1>1. MoneyInv => WalletConserved
  BY DEF MoneyInv
<1> QED BY <1>1, MoneyInvariance, PTL

\* The money a customer has on its way out stays within the ceiling, and
\* every outstanding row stays counted: whatever crashes, retries or answers.
THEOREM CeilingIsKept == CashOutAssumption => (Spec => []CeilingHolds)
<1>1. MoneyInv => CeilingHolds
  BY DEF MoneyInv
<1> QED BY <1>1, MoneyInvariance, PTL

-----------------------------------------------------------------------------
(* What the record says and what the rail did, for any rail.               *)

\* What the rail has transferred is on its way to completed, or the rail denied
\* it: its row left for failed only on such an answer.
TransferredIsLive ==
  /\ denied \subseteq transferred
  /\ \A p \in transferred : /\ status[p] # "none"
                            /\ status[p] \in {"failed", "reversed"} => p \in denied

\* An answered worker heard what the rail said last, and a completed row was paid.
AnswersAreTrue ==
  /\ \A w \in Workers : worker[w].pc = "answered" =>
       /\ worker[w].answer = "succeeded" => worker[w].payout \in transferred \ denied
       /\ worker[w].answer \in Denials /\ worker[w].payout \in transferred
            => worker[w].payout \in denied
  /\ \A p \in Payouts : status[p] = "completed" => p \in transferred \ denied

\* The inductive invariant of the record.
RailInv == CallInv /\ TransferredIsLive /\ AnswersAreTrue

LEMMA RailStep ==
  ASSUME CashOutAssumption, RailInv, [Next]_vars
  PROVE  RailInv'
<1> USE DEF RailInv, TransferredIsLive, AnswersAreTrue
<1>0. CallInv /\ CallInv' /\ TypeOK /\ TypeOK'
  BY CallStep, TypeStep DEF CallInv
<1>1. ASSUME NEW p \in Payouts, Reserve(p) \/ Screen(p) \/ CrashRequest(p)
      PROVE  RailInv'
  BY <1>0, <1>1 DEF Reserve, Screen, Refuse, CrashRequest
<1>2. ASSUME NEW p \in Payouts, CreateWalletPayout(p) PROVE RailInv'
  <2>1. p \notin transferred
    BY <1>0, <1>2 DEF CreateWalletPayout, CallInv, RowsAreAccepted
  <2> QED BY <1>0, <1>2, <2>1 DEF CreateWalletPayout, TypeOK
<1>3. ASSUME NEW p \in Payouts,
             RequeueStale(p) \/ RetryWalletPayout(p) \/ ReverseWalletPayout(p)
      PROVE  RailInv'
  BY <1>0, <1>3 DEF RequeueStale, RetryWalletPayout, ReverseWalletPayout,
                    Reversible, TypeOK
<1>4. ASSUME NEW u \in Users, FreezeWallet(u) PROVE RailInv'
  BY <1>0, <1>4 DEF FreezeWallet
<1>5. ASSUME NEW w \in Workers, NEW p \in Payouts, Claim(w, p)
      PROVE  RailInv'
  BY <1>0, <1>5 DEF Claim, TypeOK
<1>6. ASSUME NEW w \in Workers, Answer(w) PROVE RailInv'
  <2>1. PICK o \in [answer : Answers, moved : BOOLEAN] : RailAnswers(w, o)
    BY <1>6 DEF Answer
  <2> DEFINE p == worker[w].payout
  <2>2. p \in Payouts /\ status[p] = "processing" /\ worker[w] # Idle
    BY <1>0, <2>1, WorkerShape DEF RailAnswers, CallInv, CallerHoldsRow
  <2>3. /\ o.answer = "succeeded" => p \in transferred' \ denied'
        /\ o.answer \in Denials /\ p \in transferred' => p \in denied'
        /\ p \in denied' => p \in transferred'
    <3>1. /\ o \in RailOutcomes(p)
          /\ transferred' = IF o.moved THEN transferred \cup {p} ELSE transferred
          /\ denied' = IF o.moved /\ o.answer \in Denials
                       THEN denied \cup {p} ELSE denied \ {p}
      BY <2>1 DEF RailAnswers
    <3>2. CASE o = [answer |-> "succeeded", moved |-> TRUE]
      <4>1. o.moved = TRUE /\ o.answer = "succeeded"
        BY <3>2
      <4> QED BY <3>1, <4>1 DEF Denials
    <3>3. CASE o = [answer |-> "error", moved |-> TRUE]
      <4>1. o.moved = TRUE /\ o.answer = "error"
        BY <3>3
      <4> QED BY <3>1, <4>1 DEF Denials
    <3>4. CASE o \in [answer : {"declined", "pending", "error"}, moved : {p \in transferred}]
      <4>1. o.moved = (p \in transferred) /\ o.answer \in {"declined", "pending", "error"}
        BY <3>4
      <4> QED BY <3>1, <4>1 DEF Denials
    <3> QED BY <3>1, <3>2, <3>3, <3>4 DEF RailOutcomes
  <2>4. /\ worker'[w].payout = p /\ worker'[w].answer = o.answer
        /\ \A v \in Workers : v # w => worker'[v] = worker[v]
        /\ status' = status
        /\ \A q \in Payouts : q # p => (q \in transferred' <=> q \in transferred)
        /\ \A q \in Payouts : q # p => (q \in denied' <=> q \in denied)
    BY <1>0, <2>1 DEF RailAnswers, TypeOK
  <2>5. \A v \in Workers : v # w /\ worker[v] # Idle => worker[v].payout # p
    BY <1>0, <2>2 DEF CallInv, SoleCaller
  <2>6. TransferredIsLive'
    <3>1. \A q \in denied' : q \in transferred'
      BY <1>0, <2>3, <2>4 DEF TypeOK
    <3>2. ASSUME NEW q \in transferred'
          PROVE  status'[q] # "none" /\ (status'[q] \in {"failed", "reversed"} => q \in denied')
      BY <1>0, <2>2, <2>4, <3>2 DEF TypeOK
    <3> QED BY <3>1, <3>2
  <2>7. ASSUME NEW v \in Workers, worker'[v].pc = "answered"
        PROVE  /\ worker'[v].answer = "succeeded" => worker'[v].payout \in transferred' \ denied'
               /\ worker'[v].answer \in Denials /\ worker'[v].payout \in transferred'
                    => worker'[v].payout \in denied'
    <3>1. CASE v = w
      BY <3>1, <2>3, <2>4
    <3>2. CASE v # w
      <4>1. /\ worker'[v] = worker[v] /\ worker[v] # Idle
            /\ worker[v].payout \in Payouts /\ worker[v].payout # p
        BY <3>2, <2>7, <1>0, <2>4, <2>5, WorkerShape
      <4> QED BY <2>7, <2>4, <4>1
    <3> QED BY <3>1, <3>2
  <2>8. \A q \in Payouts : status'[q] = "completed" => q \in transferred' \ denied'
    BY <2>2, <2>4
  <2> QED BY <1>0, <2>6, <2>7, <2>8
<1>7. ASSUME NEW w \in Workers, Record(w) PROVE RailInv'
  <2> DEFINE p == worker[w].payout
  <2>1. /\ p \in Payouts /\ status[p] = "processing" /\ worker[w].answer \in Answers
        /\ worker[w].answer = "succeeded" => p \in transferred \ denied
        /\ worker[w].answer \in Denials /\ p \in transferred => p \in denied
    BY <1>0, <1>7, WorkerShape DEF Record, CallInv, CallerHoldsRow
  <2>2. /\ status'[p] = Outcome(worker[w].answer)
        /\ \A q \in Payouts : q # p => status'[q] = status[q]
        /\ worker'[w] = Idle
        /\ \A v \in Workers : v # w => worker'[v] = worker[v]
        /\ transferred' = transferred /\ denied' = denied
    BY <1>0, <1>7, <2>1 DEF Record, TypeOK
  <2>3. /\ status'[p] = "completed" => p \in transferred \ denied
        /\ status'[p] = "failed" /\ p \in transferred => p \in denied
        /\ status'[p] \notin {"none", "reversed"}
    BY <2>1, <2>2 DEF Outcome, Answers, Denials
  <2>4. TransferredIsLive'
    BY <1>0, <2>1, <2>2, <2>3 DEF TypeOK
  <2>5. AnswersAreTrue'
    BY <1>0, <2>1, <2>2, <2>3 DEF TypeOK, Idle
  <2> QED BY <1>0, <2>4, <2>5
<1>8. ASSUME NEW w \in Workers, CrashWorker(w) PROVE RailInv'
  <2> DEFINE p == worker[w].payout
  <2>1. p \in Payouts /\ status[p] = "processing"
    BY <1>0, <1>8, WorkerShape DEF CrashWorker, CallInv, CallerHoldsRow
  <2>2. \A v \in Workers : v # w /\ worker[v] # Idle => worker[v].payout # p
    BY <1>0, <1>8 DEF CrashWorker, CallInv, SoleCaller
  <2>3. /\ worker'[w] = Idle
        /\ \A v \in Workers : v # w => worker'[v] = worker[v]
        /\ status' = status /\ denied' = denied
        /\ \A q \in Payouts : q # p => (q \in transferred' <=> q \in transferred)
        /\ transferred \subseteq transferred'
    BY <1>0, <1>8 DEF CrashWorker, TypeOK
  <2>4. TransferredIsLive'
    BY <1>0, <2>1, <2>3 DEF TypeOK
  <2>5. AnswersAreTrue'
    BY <1>0, <2>1, <2>2, <2>3, WorkerShape DEF Idle
  <2> QED BY <1>0, <2>4, <2>5
<1>9. CASE UNCHANGED vars
  BY <1>0, <1>9 DEF vars
<1> QED
  BY <1>1, <1>2, <1>3, <1>4, <1>5, <1>6, <1>7, <1>8, <1>9 DEF Next

LEMMA RailInvariance == CashOutAssumption => (Spec => []RailInv)
<1> SUFFICES ASSUME CashOutAssumption PROVE Spec => []RailInv
  OBVIOUS
<1>1. ASSUME Init PROVE RailInv
  <2>1. CallInv
    BY <1>1, CallInit
  <2> QED BY <1>1, <2>1 DEF Init, RailInv, TransferredIsLive,
                            AnswersAreTrue, Idle
<1>2. RailInv /\ [Next]_vars => RailInv'
  BY RailStep
<1> QED BY <1>1, <1>2, PTL DEF Spec

\* Whatever the rail answers and hides, and whatever crashes, is requeued or is
\* retried: money that reached the bank account is put back in the wallet only
\* when the rail denied it last.
THEOREM ReturnedOnlyWhenDenied == CashOutAssumption => (Spec => []ReturnedOnlyIfDenied)
<1>1. RailInv => ReturnedOnlyIfDenied
  BY DEF RailInv, TransferredIsLive, ReturnedOnlyIfDenied
<1> QED BY <1>1, RailInvariance, PTL

\* The recorded outcome of a cash-out is what the rail said last, and contradicts
\* what it did only when the rail did.
THEOREM RecordIsTrue == CashOutAssumption => (Spec => []RecordMatchesRail)
<1>1. RailInv => RecordMatchesRail
  BY DEF RailInv, TransferredIsLive, AnswersAreTrue, RecordMatchesRail
<1> QED BY <1>1, RailInvariance, PTL

-----------------------------------------------------------------------------
(* The refinement.  Disposition changes in four ways: a row is created, the *)
(* rail executes a transfer (it answers, or the caller dies), it answers    *)
(* again about one, a row is reversed; every other step leaves it and the   *)
(* balance alone.                                                           *)

LEMMA RefineStep ==
  ASSUME CashOutAssumption, RailInv, [Next]_vars
  PROVE  [Promise!Next]_(Promise!vars)
<1> DEFINE Unchanged == balance' = balance /\ Disposition' = Disposition
<1> USE DEF Promise!vars
<1>0. CallInv /\ CallInv' /\ TypeOK /\ TypeOK' /\ RailInv'
  BY CallStep, RailStep DEF RailInv, CallInv
<1>1. ASSUME balance' = balance, transferred' = transferred, denied' = denied,
             \A p \in Payouts :
               \/ status'[p] = status[p]
               \/ /\ status[p] \notin {"none", "reversed"}
                  /\ status'[p] \notin {"none", "reversed"}
      PROVE  Unchanged
  <2>1. \A p \in Payouts : Disposition'[p] = Disposition[p]
    BY <1>1 DEF Disposition
  <2> QED BY <1>1, <2>1, Zenon DEF Disposition
<1>2. ASSUME NEW p \in Payouts, Reserve(p) \/ Screen(p) \/ CrashRequest(p)
      PROVE  Unchanged
  BY <1>2, <1>1 DEF Reserve, Screen, Refuse, CrashRequest
<1>3. ASSUME NEW p \in Payouts, RequeueStale(p) \/ RetryWalletPayout(p)
      PROVE  Unchanged
  BY <1>0, <1>3, <1>1 DEF RequeueStale, Stale, RetryWalletPayout, TypeOK
<1>4. ASSUME NEW u \in Users, FreezeWallet(u) PROVE Unchanged
  BY <1>4, <1>1 DEF FreezeWallet
<1>5. ASSUME NEW w \in Workers, NEW p \in Payouts, Claim(w, p)
      PROVE  Unchanged
  BY <1>0, <1>5, <1>1 DEF Claim, TypeOK
<1>6. ASSUME NEW w \in Workers, Record(w) PROVE Unchanged
  <2>1. worker[w].payout \in Payouts /\ status[worker[w].payout] = "processing"
    BY <1>0, <1>6, WorkerShape DEF Record, CallInv, CallerHoldsRow
  <2>2. Outcome(worker[w].answer) \notin {"none", "reversed"}
    BY DEF Outcome
  <2> QED BY <1>0, <1>6, <1>1, <2>1, <2>2 DEF Record, TypeOK
<1>7. ASSUME NEW p \in Payouts, CreateWalletPayout(p)
      PROVE  Promise!Next \/ Unchanged
  <2>1. status[p] = "none" /\ p \notin transferred
    BY <1>0, <1>7 DEF CreateWalletPayout, CallInv, RowsAreAccepted,
                      RailInv, TransferredIsLive
  <2>2. CASE CanDebit(p)
    <3>1. /\ status'[p] = "queued" /\ transferred' = transferred /\ denied' = denied
          /\ \A q \in Payouts : q # p => status'[q] = status[q]
          /\ balance' = [balance EXCEPT ![Owner[p]] = @ - Amount[p]]
          /\ balance[Owner[p]] >= Amount[p]
      BY <1>0, <1>7, <2>2 DEF CreateWalletPayout, CanDebit, TypeOK
    <3>2. Disposition[p] = "none" /\ Disposition'[p] = "held"
      BY <2>1, <3>1 DEF Disposition
    <3>3. Disposition' = [Disposition EXCEPT ![p] = "held"]
      BY <2>1, <3>1, <3>2 DEF Disposition
    <3>4. Promise!Hold(p)
      BY <3>1, <3>2, <3>3 DEF Promise!Hold
    <3> QED BY <3>4 DEF Promise!Next
  <2>3. CASE ~CanDebit(p)
    BY <1>1, <1>7, <2>3 DEF CreateWalletPayout
  <2> QED BY <2>2, <2>3
<1>8. ASSUME NEW p \in Payouts, ReverseWalletPayout(p)
      PROVE  Promise!Next
  <2>1. status[p] = "failed" /\ (p \in transferred => p \in denied)
    BY <1>8 DEF ReverseWalletPayout, Reversible, RailInv, TransferredIsLive
  <2>2. /\ status'[p] = "reversed" /\ transferred' = transferred /\ denied' = denied
        /\ \A q \in Payouts : q # p => status'[q] = status[q]
        /\ balance' = [balance EXCEPT ![Owner[p]] = @ + Amount[p]]
    BY <1>0, <1>8 DEF ReverseWalletPayout, TypeOK
  <2>3. \/ p \notin transferred /\ Disposition[p] = "held" /\ Disposition'[p] = "returned"
        \/ p \in transferred /\ Disposition[p] = "denied" /\ Disposition'[p] = "both"
    BY <2>1, <2>2 DEF Disposition
  <2>4. \A q \in Payouts : q # p => Disposition'[q] = Disposition[q]
    BY <2>2 DEF Disposition
  <2>5. Disposition' = [Disposition EXCEPT ![p] = IF @ = "held" THEN "returned" ELSE "both"]
    BY <2>3, <2>4 DEF Disposition
  <2>6. Promise!Return(p)
    BY <2>2, <2>3, <2>5 DEF Promise!Return
  <2> QED BY <2>6 DEF Promise!Next
<1>9. ASSUME NEW p \in Payouts, status[p] = "processing", status' = status,
             balance' = balance, p \in denied => p \in transferred,
             p \in transferred => p \in transferred',
             \A q \in Payouts : q # p => (q \in transferred' <=> q \in transferred),
             \A q \in Payouts : q # p => (q \in denied' <=> q \in denied)
      PROVE  Promise!Next \/ Unchanged
  <2>1. \A q \in Payouts : q # p => Disposition'[q] = Disposition[q]
    BY <1>9 DEF Disposition
  <2>2. /\ p \notin transferred => Disposition[p] = "held"
        /\ p \in transferred => Disposition[p] \in {"paid", "denied"}
        /\ p \notin transferred' => Disposition'[p] = "held"
        /\ p \in transferred' => Disposition'[p] \in {"paid", "denied"}
    BY <1>9 DEF Disposition
  <2>3. CASE p \notin transferred'
    <3>1. Disposition' = Disposition
      BY <1>9, <2>1, <2>2, <2>3 DEF Disposition
    <3> QED BY <1>9, <3>1
  <2>4. CASE p \in transferred'
    <3>1. Disposition' = [Disposition EXCEPT ![p] = Disposition'[p]]
      BY <2>1 DEF Disposition
    <3>2. CASE p \in transferred
      BY <1>9, <2>2, <2>4, <3>1, <3>2 DEF Promise!Next, Promise!Reword
    <3>3. CASE p \notin transferred
      BY <1>9, <2>2, <2>4, <3>1, <3>3 DEF Promise!Next, Promise!Pay
    <3> QED BY <3>2, <3>3
  <2> QED BY <2>3, <2>4
<1>10. ASSUME NEW w \in Workers, Answer(w) \/ CrashWorker(w)
       PROVE  Promise!Next \/ Unchanged
  <2> DEFINE p == worker[w].payout
  <2>1. p \in Payouts /\ status[p] = "processing" /\ (p \in denied => p \in transferred)
    BY <1>0, <1>10, WorkerShape
    DEF Answer, RailAnswers, CrashWorker, CallInv, CallerHoldsRow, RailInv, TransferredIsLive
  <2>2. /\ status' = status /\ balance' = balance
        /\ p \in transferred => p \in transferred'
        /\ \A q \in Payouts : q # p => (q \in transferred' <=> q \in transferred)
        /\ \A q \in Payouts : q # p => (q \in denied' <=> q \in denied)
    BY <1>10 DEF Answer, RailAnswers, CrashWorker
  <2> HIDE DEF p
  <2> QED BY <1>9, <2>1, <2>2
<1>11. CASE UNCHANGED vars
  BY <1>1, <1>11 DEF vars
<1> QED
  BY <1>2, <1>3, <1>4, <1>5, <1>6, <1>7, <1>8, <1>10, <1>11 DEF Next

\* For any rail, cash-outs implement the abstract promise: each is paid or
\* returned, both only on the bank's own word, and the wallet pays for what it
\* holds.
THEOREM CashOutImplementsPromise == CashOutAssumption => (Spec => Implements)
<1> SUFFICES ASSUME CashOutAssumption PROVE Spec => Implements
  OBVIOUS
<1>1. Init => Promise!Init
  BY DEF Init, Promise!Init, Disposition
<1>2. RailInv /\ [Next]_vars => [Promise!Next]_(Promise!vars)
  BY RefineStep
<1> QED BY <1>1, <1>2, RailInvariance, PTL DEF Spec, Implements, Promise!Spec
=============================================================================
