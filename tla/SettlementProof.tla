--------------------------- MODULE SettlementProof ---------------------------
(***************************************************************************)
(* Proofs about Settlement for any payments, batches, fee, ceiling, rows   *)
(* per batch, attempts, sessions, reviewers and crashes.                   *)
(*                                                                         *)
(* A step is first read as one of a few kinds (StepKinds): it leaves the   *)
(* tables alone, moves a total to the wallet, takes a refund out, or moves *)
(* one payout row with its batch.  The books balance because a refund in   *)
(* progress holds its payment (Locks, LocksApart) and so takes it out of   *)
(* payable once.  A completed row was transferred because a session that   *)
(* holds an answer holds it for its own row, or for one that is reversed   *)
(* (CallInv).                                                              *)
(*                                                                         *)
(* The wallet goes on from this invariant: it is covered by credits        *)
(* (CreditInv).  What a cut brought in bounds what a payout of its batch   *)
(* can take, whatever refunds do to the batch's total in between, and a    *)
(* batch takes it once, or once more for every completed payout that a     *)
(* rejection has written over.                                             *)
(***************************************************************************)
EXTENDS Settlement, Sums, FiniteSetTheorems, TLAPS

\* The time a leaf may take on a slow machine.
USE SMTT(40), ZenonT(20)

Actors == Sessions \cup Reviewers
BooksRecords == [payable : Int, wallet : Int, fees : Int, bank : Int]
BatchRecords == [status : BatchStatuses, lines : SUBSET Payments, total : Nat, fee : Nat]
PayoutRecords == [status : PayoutStatuses, amount : Nat, attempts : 0 .. PayoutMaxAttempts,
                  journal : BOOLEAN]
BatchesTyped  == batch \in [Batches -> BatchRecords]
PayoutsTyped  == payout \in [Rows -> PayoutRecords]
BooksTyped    == books \in BooksRecords
SessionsTyped == session \in [Actors -> SessionStates]
OthersTyped   == /\ refund \in [Payments -> RefundStates] /\ reserved \in [Batches -> Nat]
                 /\ screening \in [Batches -> Decisions] /\ transferred \subseteq Rows
                 /\ crashes \in 0 .. MaxCrashes

LEMMA Typing == TypeOK <=> BatchesTyped /\ PayoutsTyped /\ BooksTyped /\ SessionsTyped /\ OthersTyped
BY DEF TypeOK, BatchesTyped, PayoutsTyped, BooksTyped, SessionsTyped, OthersTyped,
       Actors, BooksRecords, BatchRecords, PayoutRecords

\* The states in which a session holds a row.
HasRow == {"admitting", "screening", "dispatching", "reviewing", "releasing", "reopening",
           "rescreening", "updating", "deciding", "calling", "answered"}

LEMMA SessionRow ==
  ASSUME TypeOK, NEW s \in Actors, session[s].pc \in HasRow
  PROVE  session[s].row \in Rows
<1>1. session[s] \in SessionStates
  BY DEF TypeOK, Actors
<1> QED BY <1>1 DEF SessionStates, Idle, HasRow

LEMMA SessionCut ==
  ASSUME TypeOK, NEW s \in Actors, session[s].pc = "cutting"
  PROVE  session[s].batch \in Batches /\ session[s].seen \in SUBSET Payments
<1>1. session[s] \in SessionStates
  BY DEF TypeOK, Actors
<1> QED BY <1>1 DEF SessionStates, Idle

LEMMA SessionRefund ==
  ASSUME TypeOK, NEW s \in Actors, session[s].pc = "refunding"
  PROVE  /\ session[s].payment \in Payments /\ session[s].kind \in {"request", "auto"}
         /\ session[s].from \in SUBSET Batches /\ session[s].seen \in SUBSET Payments
<1>1. session[s] \in SessionStates
  BY DEF TypeOK, Actors
<1> QED BY <1>1 DEF SessionStates, Idle

LEMMA SessionCall ==
  ASSUME TypeOK, NEW s \in Actors
  PROVE  /\ session[s].pc = "admitting" => session[s].amount \in Int
         /\ session[s].pc = "calling" => session[s].claimed \in Rows
         /\ session[s].pc = "answered" => session[s].answer \in Answers
         /\ session[s].pc = "requesting" => session[s].batch \in Batches /\ session[s].amount \in Int
         /\ session[s].pc = "deciding" => session[s].decision \in {"clear", "blocked"}
         /\ session[s].pc = "updating" => <<session[s].from, session[s].to>> \in
              {<<"queued", "held">>, <<"queued", "failed">>, <<"held", "queued">>, <<"held", "failed">>}
<1>1. session[s] \in SessionStates
  BY DEF TypeOK, Actors
<1> QED BY <1>1 DEF SessionStates, Idle

LEMMA RowShape ==
  ASSUME NEW r \in Rows PROVE r[1] \in Batches /\ r[2] \in 1 .. MaxPayouts /\ r = <<r[1], r[2]>>
BY DEF Rows

LEMMA KoboSums ==
  ASSUME SettlementAssumption, NEW S \in SUBSET Payments
  PROVE  /\ KoboOf(S) \in Nat
         /\ \A p \in Payments \ S : KoboOf(S \cup {p}) = Amount[p] + KoboOf(S)
         /\ \A R \in SUBSET S : KoboOf(R) \in Nat /\ KoboOf(R) <= KoboOf(S)
<1>1. IsFiniteSet(S) /\ \A p \in Payments : Amount[p] \in Nat /\ Amount[p] \in Int
  BY FS_Subset DEF SettlementAssumption
<1>2. \A R \in SUBSET S : IsFiniteSet(R)
  BY <1>1, FS_Subset
<1> QED BY <1>1, <1>2, SumNat, SumAdd, SumSubset DEF KoboOf

\* A fee is at most what it is taken from.
FeeSplits(t) == Fee(t) \in Nat /\ Fee(t) <= t /\ Net(t) \in Nat /\ Net(t) + Fee(t) = t

LEMMA FeeBounds ==
  ASSUME SettlementAssumption, NEW t \in Nat
  PROVE  FeeSplits(t)
<1> DEFINE n == t * FeeBps
<1>1. n \in Nat /\ n <= t * 10000
  BY DEF SettlementAssumption
<1>2. Fee(t) = n \div 10000
  BY DEF Fee
<1> HIDE DEF n
<1>3. n \div 10000 \in Nat /\ n \div 10000 <= t
  BY <1>1
<1>4. Net(t) = t - Fee(t)
  BY DEF Net
<1> QED BY <1>2, <1>3, <1>4 DEF FeeSplits

LEMMA GotoShape ==
  ASSUME TypeOK, NEW s \in Actors, NEW state, Goto(s, state)
  PROVE  session'[s] = state /\ \A t \in Actors : t # s => session'[t] = session[t]
BY DEF TypeOK, Goto, Actors

LEMMA GotoTyped ==
  ASSUME SessionsTyped, NEW s \in Actors, NEW state \in SessionStates, Goto(s, state)
  PROVE  SessionsTyped'
BY DEF SessionsTyped, Goto

LEMMA StatusShape ==
  ASSUME TypeOK, NEW r \in Rows, NEW st, SetStatus(r, st)
  PROVE  /\ payout'[r].status = st /\ payout'[r].amount = payout[r].amount
         /\ payout'[r].journal = payout[r].journal
         /\ \A q \in Rows : q # r => payout'[q] = payout[q]
BY DEF TypeOK, SetStatus

LEMMA StatusTyped ==
  ASSUME PayoutsTyped, NEW r \in Rows, NEW st \in PayoutStatuses, SetStatus(r, st)
  PROVE  PayoutsTyped'
BY DEF PayoutsTyped, SetStatus, PayoutRecords

LEMMA StatusNames ==
  /\ "none" \in PayoutStatuses /\ "queued" \in PayoutStatuses /\ "held" \in PayoutStatuses
  /\ "processing" \in PayoutStatuses /\ "completed" \in PayoutStatuses
  /\ "failed" \in PayoutStatuses /\ "reversed" \in PayoutStatuses
BY DEF PayoutStatuses

LEMMA ReopenShape ==
  ASSUME TypeOK, NEW b \in Batches, Reopen(b)
  PROVE  /\ \A a \in Batches : /\ batch'[a].lines = batch[a].lines /\ batch'[a].total = batch[a].total
                               /\ batch'[a].fee = batch[a].fee
                               /\ a # b => batch'[a] = batch[a]
         /\ \/ batch'[b].status = batch[b].status
            \/ batch[b].status = "scheduled" /\ batch'[b].status = "open"
BY DEF TypeOK, Reopen

LEMMA ReopenTyped ==
  ASSUME BatchesTyped, NEW b \in Batches, Reopen(b)
  PROVE  BatchesTyped'
BY DEF BatchesTyped, Reopen, BatchStatuses, BatchRecords

\* What the three largest actions do, without their local definitions.
Line(s) == session[s].payment
Rest(s, b) == (IF session[s].kind = "auto" THEN batch[b].lines ELSE session[s].seen) \ {Line(s)}
Without(record, p, n) == [record EXCEPT !.lines = @ \ {p}, !.total = n]
Left(s, b) == IF b \in session[s].from THEN Without(batch[b], Line(s), KoboOf(Rest(s, b))) ELSE batch[b]
Reads(s, p, kind, from) == Goto(s, [pc |-> "refunding", payment |-> p, kind |-> kind, from |-> from,
                                    seen |-> LinesOf(from)])
LeavesBatch(s) == batch' = [b \in Batches |-> Left(s, b)]
Requests(s, state) == refund' = [refund EXCEPT ![Line(s)] = state]
Completes(r) ==
  /\ payout' = [payout EXCEPT ![r].status = "completed", ![r].journal = TRUE]
  /\ batch' = [batch EXCEPT ![r[1]].status = "processed"]
  /\ books' = [books EXCEPT !.wallet = @ - payout[r].amount, !.bank = @ + payout[r].amount]
Claims(r) ==
  /\ payout' = [payout EXCEPT ![r] = Claimed(payout[r])]
  /\ batch' = [batch EXCEPT ![r[1]].status = "scheduled"]

Touches(r) == \A q \in Rows : q # r => payout'[q] = payout[q]
OnlyStatus(b) ==
  \A a \in Batches : /\ a # b => batch'[a] = batch[a]
                     /\ batch'[a].lines = batch[a].lines /\ batch'[a].total = batch[a].total
                     /\ batch'[a].fee = batch[a].fee

LEMMA RefundEffect ==
  ASSUME NEW s \in Actors, RefundCommit(s)
  PROVE  /\ session[s].pc = "refunding" /\ LeavesBatch(s) /\ Goto(s, Idle)
         /\ \/ Requests(s, "pending_approval") /\ books' = books
            \/ Requests(s, "auto") /\ ReverseLedger(Line(s))
         /\ UNCHANGED <<payout, reserved, screening, transferred, crashes>>
<1>1. LeavesBatch(s)
  BY Zenon DEF RefundCommit, LeavesBatch, Left, Without, Rest, Line
<1>2. \/ Requests(s, "pending_approval") /\ books' = books
      \/ Requests(s, "auto") /\ ReverseLedger(Line(s))
  BY DEF RefundCommit, Requests, Line
<1> QED BY <1>1, <1>2 DEF RefundCommit

Updates(s, from, to) == Goto(s, [pc |-> "updating", row |-> session[s].row, from |-> from, to |-> to])
GoesOn(s) == \/ Goto(s, [pc |-> "dispatching", row |-> session[s].row])
             \/ Updates(s, "queued", "held") \/ Updates(s, "queued", "failed")

LEMMA ScreenEffect ==
  ASSUME NEW s \in Actors, ScreenPayout(s)
  PROVE  /\ session[s].pc = "screening" /\ GoesOn(s)
         /\ screening' = screening \/ \E d \in Decisions : screening' = [screening EXCEPT ![session[s].row[1]] = d]
         /\ UNCHANGED <<payout, refund, batch, books, reserved, transferred, crashes>>
<1>1. \A d : Apply(s, d) => GoesOn(s)
  BY DEF Apply, Update, Updates, GoesOn
<1>2. Update(s, "queued", "held") => GoesOn(s)
  BY DEF Update, Updates, GoesOn
<1>3. /\ session[s].pc = "screening"
      /\ UNCHANGED <<payout, refund, batch, books, reserved, transferred, crashes>>
      /\ \/ Apply(s, screening[session[s].row[1]]) /\ UNCHANGED screening
         \/ \E d \in Decisions : screening' = [screening EXCEPT ![session[s].row[1]] = d] /\ Apply(s, d)
         \/ Update(s, "queued", "held") /\ UNCHANGED screening
  BY DEF ScreenPayout, Decisions
<1> QED BY <1>1, <1>2, <1>3

\* What the rail's answer, a reviewer or the rescreen worker does to a decision.
LEMMA DecideTyped ==
  ASSUME TypeOK, NEW b \in Batches, NEW d \in Decisions, Decide(b, d)
  PROVE  screening' \in [Batches -> Decisions]
BY DEF TypeOK, Decide

LEMMA ApproveEffect ==
  ASSUME NEW s \in Actors, ApproveHeld(s)
  PROVE  /\ session[s].pc = "reviewing" /\ Decide(session[s].row[1], "clear")
         /\ Goto(s, Idle) \/ Updates(s, "held", "queued")
         /\ UNCHANGED <<payout, refund, batch, books, reserved, transferred, crashes>>
BY DEF ApproveHeld, Update, Updates

LEMMA DecisionEffect ==
  ASSUME NEW s \in Actors, RecordDecision(s)
  PROVE  /\ session[s].pc = "deciding" /\ Decide(session[s].row[1], session[s].decision)
         /\ Updates(s, "held", "queued") \/ Updates(s, "held", "failed")
         /\ UNCHANGED <<payout, refund, batch, books, reserved, transferred, crashes>>
BY DEF RecordDecision, Update, Updates

LEMMA ReevaluateEffect ==
  ASSUME NEW s \in Actors, Reevaluate(s)
  PROVE  /\ session[s].pc = "rescreening"
         /\ \/ Goto(s, Idle)
            \/ \E d \in {"clear", "blocked"} : Goto(s, [pc |-> "deciding", row |-> session[s].row, decision |-> d])
         /\ UNCHANGED <<payout, refund, batch, books, reserved, screening, transferred, crashes>>
BY DEF Reevaluate

LEMMA RecordEffect ==
  ASSUME NEW s \in Actors, Record(s)
  PROVE  /\ session[s].pc = "answered" /\ Goto(s, Idle)
         /\ \/ UNCHANGED <<payout, batch, books>>
            \/ /\ payout[session[s].row].status = "processing"
               /\ SetStatus(session[s].row, "failed") /\ UNCHANGED <<batch, books>>
            \/ /\ payout[session[s].row].status = "processing" /\ session[s].answer = "succeeded"
               /\ Completes(session[s].row)
         /\ UNCHANGED <<refund, reserved, screening, transferred, crashes>>
BY DEF Record, Completable, Confirmed, Completes

\* What they do to the tables.
LEMMA WithoutShape ==
  ASSUME NEW record \in BatchRecords, NEW p, NEW n \in Nat
  PROVE  /\ Without(record, p, n) \in BatchRecords
         /\ Without(record, p, n).status = record.status /\ Without(record, p, n).fee = record.fee
         /\ Without(record, p, n).lines \subseteq record.lines /\ Without(record, p, n).total = n
BY DEF Without, BatchRecords

LEMMA LeavesEach ==
  ASSUME SettlementAssumption, TypeOK, NEW s \in Actors, session[s].pc = "refunding", LeavesBatch(s),
         NEW b \in Batches
  PROVE  /\ batch'[b] \in BatchRecords
         /\ batch'[b].status = batch[b].status /\ batch'[b].fee = batch[b].fee
         /\ batch'[b].lines \subseteq batch[b].lines
         /\ b \notin session[s].from => batch'[b] = batch[b]
         /\ b \in session[s].from => batch'[b].total = KoboOf(Rest(s, b))
<1>1. batch[b] \in BatchRecords /\ batch[b].lines \in SUBSET Payments
  BY DEF TypeOK, BatchRecords
<1>2. Rest(s, b) \in SUBSET Payments
  BY <1>1, SessionRefund DEF Rest
<1>3. KoboOf(Rest(s, b)) \in Nat
  BY <1>2, KoboSums
<1>4. LET new == Without(batch[b], Line(s), KoboOf(Rest(s, b)))
      IN  /\ new \in BatchRecords /\ new.status = batch[b].status /\ new.fee = batch[b].fee
          /\ new.lines \subseteq batch[b].lines /\ new.total = KoboOf(Rest(s, b))
  BY <1>1, <1>3, WithoutShape
<1>5. batch'[b] = Left(s, b)
  BY DEF LeavesBatch
<1> QED BY <1>1, <1>4, <1>5 DEF Left

LEMMA LeavesShape ==
  ASSUME SettlementAssumption, TypeOK, NEW s \in Actors, session[s].pc = "refunding", LeavesBatch(s)
  PROVE  \A b \in Batches :
           /\ batch'[b].status = batch[b].status /\ batch'[b].fee = batch[b].fee
           /\ batch'[b].lines \subseteq batch[b].lines
           /\ b \notin session[s].from => batch'[b] = batch[b]
           /\ b \in session[s].from => batch'[b].total = KoboOf(Rest(s, b))
BY LeavesEach

LEMMA LeavesTyped ==
  ASSUME SettlementAssumption, TypeOK, NEW s \in Actors, session[s].pc = "refunding", LeavesBatch(s)
  PROVE  BatchesTyped'
<1>1. \A b \in Batches : batch'[b] \in BatchRecords
  BY LeavesEach
<1>2. \A b \in Batches : batch'[b] = Left(s, b)
  BY DEF LeavesBatch
<1> QED BY <1>1, <1>2 DEF LeavesBatch, BatchesTyped

CreditTo(old, p, g, v) == [old EXCEPT !.payable = p, !.fees = g, !.wallet = v]
ClaimTo(old, st, n) == [old EXCEPT !.status = st, !.attempts = n]

LEMMA CreditEdit ==
  ASSUME NEW old \in BooksRecords, NEW p \in Int, NEW g \in Int, NEW v \in Int
  PROVE  LET new == CreditTo(old, p, g, v)
         IN  new \in BooksRecords /\ new.payable = p /\ new.fees = g /\ new.wallet = v /\ new.bank = old.bank
<1>1. CreditTo(old, p, g, v) \in BooksRecords
  BY DEF BooksRecords, CreditTo
<1>2. LET new == CreditTo(old, p, g, v)
      IN  new.payable = p /\ new.fees = g /\ new.wallet = v /\ new.bank = old.bank
  BY DEF BooksRecords, CreditTo
<1> QED BY <1>1, <1>2

LEMMA ClaimEdit ==
  ASSUME NEW old \in PayoutRecords, NEW st \in PayoutStatuses, NEW n \in 0 .. PayoutMaxAttempts
  PROVE  LET new == ClaimTo(old, st, n)
         IN  /\ new \in PayoutRecords /\ new.status = st /\ new.amount = old.amount
             /\ new.journal = old.journal
BY DEF ClaimTo, PayoutRecords

\* A cut moves a total from payable to the wallet and the fees.
LEMMA CreditShape ==
  ASSUME SettlementAssumption, books \in BooksRecords, NEW n \in Nat,
         Credit(n)
  PROVE  /\ books' \in BooksRecords
         /\ books'.payable = books.payable - n /\ books'.fees = books.fees + Fee(n)
         /\ books'.wallet = books.wallet + Net(n) /\ books'.bank = books.bank
<1> DEFINE p == books.payable - n
           g == books.fees + Fee(n)
           v == books.wallet + Net(n)
<1>0. FeeSplits(n)
  BY FeeBounds
<1>1. p \in Int /\ g \in Int /\ v \in Int
  BY <1>0 DEF FeeSplits, BooksRecords
<1>2. books' = CreditTo(books, p, g, v)
  BY DEF Credit, CreditTo
<1> HIDE DEF p, g, v
<1>3. books' \in BooksRecords /\ books'.payable = p /\ books'.fees = g /\ books'.wallet = v /\ books'.bank = books.bank
  BY <1>1, <1>2, CreditEdit
<1> QED BY <1>3 DEF p, g, v

LEMMA PaysOut ==
  ASSUME NEW old \in BooksRecords, NEW n \in Int, NEW new,
         new = [old EXCEPT !.wallet = @ - n, !.bank = @ + n]
  PROVE  /\ new \in BooksRecords /\ new.wallet = old.wallet - n /\ new.bank = old.bank + n
         /\ new.payable = old.payable /\ new.fees = old.fees
<1> DEFINE w == old.wallet - n
           k == old.bank + n
<1>1. w \in Int /\ k \in Int
  BY DEF BooksRecords
<1>2. new = [old EXCEPT !.wallet = w, !.bank = k]
  OBVIOUS
<1> HIDE DEF w, k
<1>3. new \in BooksRecords /\ new.wallet = w /\ new.bank = k
  BY <1>1, <1>2 DEF BooksRecords
<1>4. new.payable = old.payable /\ new.fees = old.fees
  BY <1>1, <1>2 DEF BooksRecords
<1> QED BY <1>3, <1>4 DEF w, k

\* A batch that only changes its status, to st.
Becomes(b, st) == batch' = [batch EXCEPT ![b].status = st]

LEMMA BecomesShape ==
  ASSUME TypeOK, NEW b \in Batches, NEW st, Becomes(b, st)
  PROVE  batch'[b].status = st /\ OnlyStatus(b)
<1>1. batch \in [Batches -> BatchRecords]
  BY DEF TypeOK, BatchRecords
<1>2. \A a \in Batches : a # b => batch'[a] = batch[a]
  BY <1>1 DEF Becomes
<1>3. /\ batch'[b].status = st /\ batch'[b].lines = batch[b].lines /\ batch'[b].total = batch[b].total
      /\ batch'[b].fee = batch[b].fee
  BY <1>1 DEF Becomes, BatchRecords
<1> QED BY <1>2, <1>3 DEF OnlyStatus

LEMMA BecomesTyped ==
  ASSUME BatchesTyped, NEW b \in Batches, NEW st \in BatchStatuses, Becomes(b, st)
  PROVE  BatchesTyped'
BY DEF BatchesTyped, BatchRecords, Becomes

LEMMA CompletesShape ==
  ASSUME TypeOK, NEW r \in Rows, Completes(r)
  PROVE  /\ payout'[r].status = "completed" /\ payout'[r].amount = payout[r].amount /\ Touches(r)
         /\ payout'[r].journal
         /\ OnlyStatus(r[1])
         /\ batch'[r[1]].status = "processed"
         /\ books'.wallet = books.wallet - payout[r].amount /\ books'.bank = books.bank + payout[r].amount
         /\ books'.payable = books.payable /\ books'.fees = books.fees
<1>1. r[1] \in Batches /\ payout[r].amount \in Int /\ books \in BooksRecords
  BY RowShape DEF TypeOK, BooksRecords
<1>2. /\ payout'[r].status = "completed" /\ payout'[r].amount = payout[r].amount /\ Touches(r)
      /\ payout'[r].journal
  BY DEF Completes, Touches, TypeOK
<1>3. Becomes(r[1], "processed")
  BY DEF Completes, Becomes
<1>4. /\ batch'[r[1]].status = "processed"
      /\ OnlyStatus(r[1])
  BY <1>1, <1>3, BecomesShape
<1>5. books' = [books EXCEPT !.wallet = @ - payout[r].amount, !.bank = @ + payout[r].amount]
  BY DEF Completes
<1>6. /\ books'.wallet = books.wallet - payout[r].amount /\ books'.bank = books.bank + payout[r].amount
      /\ books'.payable = books.payable /\ books'.fees = books.fees
  <2> DEFINE n == payout[r].amount
             new == books'
  <2>1. n \in Int /\ books \in BooksRecords
    BY <1>1
  <2>2. new = [books EXCEPT !.wallet = @ - n, !.bank = @ + n]
    BY <1>5
  <2> HIDE DEF n, new
  <2>3. /\ new.wallet = books.wallet - n /\ new.bank = books.bank + n
        /\ new.payable = books.payable /\ new.fees = books.fees
    BY <2>1, <2>2, PaysOut
  <2> QED BY <2>3 DEF n, new
<1> QED BY <1>2, <1>4, <1>6

LEMMA CompletesTyped ==
  ASSUME TypeOK, NEW r \in Rows, Completes(r)
  PROVE  BatchesTyped' /\ PayoutsTyped' /\ BooksTyped'
<1>1. r[1] \in Batches /\ payout[r].amount \in Int /\ books \in BooksRecords
  BY RowShape DEF TypeOK, BooksRecords
<1>2. PayoutsTyped'
  <2>1. payout' = [payout EXCEPT ![r].status = "completed", ![r].journal = TRUE] /\ PayoutsTyped
    BY Typing DEF Completes
  <2> QED BY <2>1, StatusNames DEF PayoutsTyped, PayoutRecords
<1>3. BatchesTyped'
  <2>1. Becomes(r[1], "processed") /\ "processed" \in BatchStatuses
    BY DEF Completes, Becomes, BatchStatuses
  <2> QED BY <1>1, <2>1, Typing, BecomesTyped
<1>4. BooksTyped'
  <2>1. books' = [books EXCEPT !.wallet = @ - payout[r].amount, !.bank = @ + payout[r].amount]
    BY DEF Completes
  <2> QED BY <1>1, <2>1, PaysOut DEF BooksTyped
<1> QED BY <1>2, <1>3, <1>4

LEMMA ClaimedShape ==
  ASSUME SettlementAssumption, NEW row \in PayoutRecords
  PROVE  /\ Claimed(row) \in PayoutRecords
         /\ Claimed(row).status = "processing" /\ Claimed(row).amount = row.amount
         /\ Claimed(row).journal = row.journal
<1> DEFINE n == IF row.attempts < PayoutMaxAttempts THEN row.attempts + 1 ELSE row.attempts
<1>1. n \in 0 .. PayoutMaxAttempts
  BY DEF PayoutRecords, SettlementAssumption
<1>2. Claimed(row) = ClaimTo(row, "processing", n)
  BY DEF Claimed, ClaimTo
<1>3. "processing" \in PayoutStatuses
  BY DEF PayoutStatuses
<1> HIDE DEF n
<1> QED BY <1>1, <1>2, <1>3, ClaimEdit

LEMMA ClaimsShape ==
  ASSUME SettlementAssumption, TypeOK, NEW r \in Rows, Claims(r)
  PROVE  /\ payout'[r].status = "processing" /\ payout'[r].amount = payout[r].amount /\ Touches(r)
         /\ payout'[r].journal = payout[r].journal
         /\ OnlyStatus(r[1])
         /\ batch'[r[1]].status = "scheduled"
<1>1. payout' = [payout EXCEPT ![r] = Claimed(payout[r])]
  BY DEF Claims
<1>2. /\ payout'[r].status = "processing" /\ payout'[r].amount = payout[r].amount /\ Touches(r)
      /\ payout'[r].journal = payout[r].journal
  <2>1. payout[r] \in PayoutRecords /\ payout \in [Rows -> PayoutRecords]
    BY DEF TypeOK, PayoutRecords
  <2>2. /\ Claimed(payout[r]).status = "processing" /\ Claimed(payout[r]).amount = payout[r].amount
        /\ Claimed(payout[r]).journal = payout[r].journal
    BY <2>1, ClaimedShape
  <2>3. payout'[r] = Claimed(payout[r]) /\ Touches(r)
    BY <1>1, <2>1 DEF Touches
  <2> QED BY <2>2, <2>3
<1>3. r[1] \in Batches /\ Becomes(r[1], "scheduled")
  BY RowShape DEF Claims, Becomes
<1>4. /\ batch'[r[1]].status = "scheduled"
      /\ OnlyStatus(r[1])
  BY <1>3, BecomesShape
<1> QED BY <1>2, <1>4

LEMMA ClaimsTyped ==
  ASSUME SettlementAssumption, TypeOK, NEW r \in Rows, Claims(r)
  PROVE  BatchesTyped' /\ PayoutsTyped'
<1>1. PayoutsTyped'
  <2>1. payout \in [Rows -> PayoutRecords]
    BY Typing DEF PayoutsTyped
  <2>2. Claimed(payout[r]) \in PayoutRecords
    BY <2>1, ClaimedShape
  <2>3. payout' = [payout EXCEPT ![r] = Claimed(payout[r])]
    BY DEF Claims
  <2> HIDE DEF Claimed
  <2> QED BY <2>1, <2>2, <2>3 DEF PayoutsTyped
<1>2. BatchesTyped'
  <2>1. r[1] \in Batches /\ Becomes(r[1], "scheduled") /\ "scheduled" \in BatchStatuses
    BY RowShape DEF Claims, Becomes, BatchStatuses
  <2> QED BY <2>1, Typing, BecomesTyped
<1> QED BY <1>1, <1>2

LEMMA ReverseTyped ==
  ASSUME SettlementAssumption, BooksTyped, NEW p \in Payments, ReverseLedger(p)
  PROVE  BooksTyped'
<1>1. Amount[p] \in Int
  BY DEF SettlementAssumption
<1> QED BY <1>1 DEF ReverseLedger, BooksTyped, BooksRecords

Fills(r, n) == payout' = [payout EXCEPT ![r].status = "queued", ![r].amount = n]
FillTo(row, n) == [row EXCEPT !.status = "queued", !.amount = n]

LEMMA FillTyped ==
  ASSUME PayoutsTyped, NEW r \in Rows, NEW n \in Nat, Fills(r, n)
  PROVE  PayoutsTyped'
<1>1. payout' = [payout EXCEPT ![r] = FillTo(payout[r], n)]
  BY DEF Fills, FillTo
<1>2. \A row \in PayoutRecords : FillTo(row, n) \in PayoutRecords
  BY StatusNames DEF FillTo, PayoutRecords
<1> QED BY <1>1, <1>2 DEF PayoutsTyped

LEMMA FillShape ==
  ASSUME TypeOK, NEW r \in Rows, NEW n, Fills(r, n)
  PROVE  /\ payout'[r].status = "queued" /\ payout'[r].amount = n /\ Touches(r)
         /\ payout'[r].journal = payout[r].journal
BY DEF Fills, TypeOK, Touches

Releases(r) == reserved' = [reserved EXCEPT ![r[1]] = 0]

LEMMA UndoTyped ==
  ASSUME BatchesTyped, PayoutsTyped, OthersTyped, NEW r \in Rows, SetStatus(r, "reversed"), Reopen(r[1]),
         Releases(r), UNCHANGED <<refund, screening, transferred, crashes>>
  PROVE  PayoutsTyped' /\ BatchesTyped' /\ OthersTyped'
<1>1. PayoutsTyped'
  BY StatusTyped, StatusNames
<1>2. BatchesTyped'
  BY RowShape, ReopenTyped
<1>3. reserved' \in [Batches -> Nat]
  BY DEF OthersTyped, Releases
<1>4. OthersTyped'
  BY <1>3 DEF OthersTyped
<1> QED BY <1>1, <1>2, <1>4

LEMMA TypeStep ==
  ASSUME SettlementAssumption, TypeOK, [Next]_vars
  PROVE  TypeOK'
<1>0. /\ BatchesTyped /\ PayoutsTyped /\ BooksTyped /\ SessionsTyped /\ OthersTyped
      /\ Sessions \subseteq Actors /\ Reviewers \subseteq Actors
      /\ Idle \in SessionStates
  BY Typing DEF Actors, SessionStates
<1>o. /\ refund \in [Payments -> RefundStates] /\ reserved \in [Batches -> Nat]
      /\ screening \in [Batches -> Decisions] /\ transferred \subseteq Rows /\ crashes \in 0 .. MaxCrashes
  BY <1>0 DEF OthersTyped
<1>s. ASSUME BatchesTyped', PayoutsTyped', BooksTyped', SessionsTyped', OthersTyped' PROVE TypeOK'
  BY <1>s DEF TypeOK, BatchesTyped, PayoutsTyped, BooksTyped, SessionsTyped, OthersTyped,
              Actors, BooksRecords, BatchRecords, PayoutRecords
<1>k. /\ UNCHANGED batch => BatchesTyped'
      /\ UNCHANGED payout => PayoutsTyped'
      /\ UNCHANGED books => BooksTyped'
      /\ UNCHANGED session => SessionsTyped'
      /\ UNCHANGED <<refund, reserved, screening, transferred, crashes>> => OthersTyped'
  BY <1>0 DEF BatchesTyped, PayoutsTyped, BooksTyped, SessionsTyped, OthersTyped
<1>1. ASSUME NEW s \in Sessions, NEW b \in Batches, CutRead(s, b) PROVE TypeOK'
  <2>1. [pc |-> "cutting", batch |-> b, seen |-> Eligible] \in SessionStates
    BY DEF SessionStates, Eligible
  <2>2. /\ Goto(s, [pc |-> "cutting", batch |-> b, seen |-> Eligible])
        /\ UNCHANGED batch /\ UNCHANGED payout /\ UNCHANGED books
        /\ UNCHANGED <<refund, reserved, screening, transferred, crashes>>
    BY <1>1 DEF CutRead
  <2>3. SessionsTyped'
    BY <1>0, <2>1, <2>2, GotoTyped
  <2> QED BY <1>k, <1>s, <2>2, <2>3
<1>2. ASSUME NEW s \in Sessions, CutCommit(s) PROVE TypeOK'
  <2> DEFINE b == session[s].batch
             lines == {p \in session[s].seen \ LockedPayments : ~Refunded(p)}
             total == KoboOf(lines)
             open == [status |-> "open", lines |-> lines, total |-> total, fee |-> Fee(total)]
  <2>1. /\ session[s].pc = "cutting" /\ Goto(s, Idle) /\ UNCHANGED payout
        /\ UNCHANGED <<refund, reserved, screening, transferred, crashes>>
        /\ \/ UNCHANGED batch /\ UNCHANGED books
           \/ batch' = [batch EXCEPT ![b] = open] /\ Credit(total)
    BY <1>2 DEF CutCommit
  <2>2. b \in Batches /\ lines \in SUBSET Payments
    BY <1>0, <2>1, SessionCut
  <2> HIDE DEF b, lines
  <2>3. total \in Nat
    BY <2>2, KoboSums
  <2> HIDE DEF total
  <2>4. Fee(total) \in Nat
    <3>1. FeeSplits(total)
      BY <2>3, FeeBounds
    <3> QED BY <3>1 DEF FeeSplits
  <2>5. open \in BatchRecords
    BY <2>2, <2>3, <2>4 DEF BatchRecords, BatchStatuses
  <2> HIDE DEF open
  <2>6. batch' = [batch EXCEPT ![b] = open] => BatchesTyped'
    BY <1>0, <2>2, <2>5 DEF BatchesTyped
  <2>7. Credit(total) => BooksTyped'
    BY <1>0, <2>3, CreditShape DEF BooksTyped
  <2>8. SessionsTyped'
    BY <1>0, <2>1, GotoTyped
  <2> QED BY <1>k, <1>s, <2>1, <2>6, <2>7, <2>8
<1>3. ASSUME NEW s \in Sessions, NEW p \in Payments, NEW kind \in {"request", "auto"}, RefundRead(s, p, kind)
      PROVE  TypeOK'
  <2>1. PICK from \in BatchOf(p) : Reads(s, p, kind, from)
    BY <1>3 DEF RefundRead, Reads
  <2>2. from \in SUBSET Batches
    BY DEF BatchOf
  <2>3. LinesOf(from) \in SUBSET Payments
    BY <1>0, <2>2 DEF LinesOf, BatchesTyped, BatchRecords
  <2> DEFINE state == [pc |-> "refunding", payment |-> p, kind |-> kind, from |-> from, seen |-> LinesOf(from)]
  <2>4. state \in SessionStates
    BY <2>2, <2>3 DEF SessionStates
  <2>5. Goto(s, state)
    BY <2>1 DEF Reads
  <2> HIDE DEF state
  <2>6. SessionsTyped'
    BY <1>0, <2>4, <2>5, GotoTyped
  <2>7. /\ UNCHANGED batch /\ UNCHANGED payout /\ UNCHANGED books
        /\ UNCHANGED <<refund, reserved, screening, transferred, crashes>>
    BY <1>3 DEF RefundRead
  <2> QED BY <1>k, <1>s, <2>6, <2>7
<1>4. ASSUME NEW s \in Sessions, RefundCommit(s) PROVE TypeOK'
  <2>1. /\ session[s].pc = "refunding" /\ LeavesBatch(s) /\ Goto(s, Idle)
        /\ \/ Requests(s, "pending_approval") /\ UNCHANGED books
           \/ Requests(s, "auto") /\ ReverseLedger(Line(s))
        /\ UNCHANGED payout /\ UNCHANGED <<reserved, screening, transferred, crashes>>
    BY <1>0, <1>4, RefundEffect
  <2>2. Line(s) \in Payments
    BY <1>0, <2>1, SessionRefund DEF Line
  <2>3. BatchesTyped'
    BY <1>0, <2>1, LeavesTyped
  <2>4. ReverseLedger(Line(s)) => BooksTyped'
    BY <1>0, <2>2, ReverseTyped
  <2>5. OthersTyped'
    <3>1. refund' \in [Payments -> RefundStates]
      BY <1>o, <2>1, <2>2 DEF Requests, RefundStates
    <3> QED BY <1>o, <2>1, <3>1 DEF OthersTyped
  <2>6. SessionsTyped'
    BY <1>0, <2>1, GotoTyped
  <2> QED BY <1>k, <1>s, <2>1, <2>3, <2>4, <2>5, <2>6
<1>5. ASSUME NEW p \in Payments, ApproveRefund(p) \/ RejectRefund(p) PROVE TypeOK'
  <2>1. /\ ReverseLedger(p) \/ UNCHANGED books
        /\ \E st \in RefundStates : refund' = [refund EXCEPT ![p] = st]
        /\ UNCHANGED batch /\ UNCHANGED payout /\ UNCHANGED session
        /\ UNCHANGED <<reserved, screening, transferred, crashes>>
    BY <1>5 DEF ApproveRefund, RejectRefund, RefundStates
  <2>2. ReverseLedger(p) => BooksTyped'
    BY <1>0, ReverseTyped
  <2>3. OthersTyped'
    BY <1>o, <2>1 DEF OthersTyped
  <2> QED BY <1>k, <1>s, <2>1, <2>2, <2>3
<1>c. ASSUME NEW s \in Actors, NEW state \in SessionStates, Goto(s, state),
             UNCHANGED batch, UNCHANGED payout, UNCHANGED books,
             screening' \in [Batches -> Decisions],
             UNCHANGED <<refund, reserved, transferred, crashes>>
      PROVE  TypeOK'
  <2>1. SessionsTyped'
    BY <1>0, <1>c, GotoTyped
  <2>2. OthersTyped'
    BY <1>o, <1>c DEF OthersTyped
  <2> QED BY <1>c, <1>k, <1>s, <2>1, <2>2
<1>u. ASSUME NEW s \in Actors, session[s].row \in Rows, NEW from, NEW to, Updates(s, from, to),
             <<from, to>> \in {<<"queued", "held">>, <<"queued", "failed">>, <<"held", "queued">>,
                               <<"held", "failed">>},
             UNCHANGED batch, UNCHANGED payout, UNCHANGED books,
             screening' \in [Batches -> Decisions],
             UNCHANGED <<refund, reserved, transferred, crashes>>
      PROVE  TypeOK'
  <2>1. [pc |-> "updating", row |-> session[s].row, from |-> from, to |-> to] \in SessionStates
    BY <1>u DEF SessionStates
  <2> QED BY <1>c, <1>u, <2>1 DEF Updates
<1>6. ASSUME NEW s \in Sessions, CreatePayout(s) PROVE TypeOK'
  <2> DEFINE b == session[s].batch
             amount == session[s].amount
             net == batch[b].total - batch[b].fee
  <2>0. session[s].pc = "requesting" /\ UNCHANGED batch /\ UNCHANGED books
        /\ UNCHANGED <<refund, reserved, screening, transferred, crashes>>
    BY <1>6 DEF CreatePayout
  <2>1. b \in Batches /\ amount \in Int
    BY <1>0, <2>0, SessionCall
  <2>2. \/ \E r \in Fresh(b) : Payable(net) /\ Fills(r, net) /\ Admit(s, r, amount)
        \/ UNCHANGED payout /\ \E r \in Live(b) : Admit(s, r, amount)
        \/ UNCHANGED payout /\ Goto(s, Idle)
    BY <1>6 DEF CreatePayout, InsertPayout, Fills
  <2>3. Fresh(b) \subseteq Rows /\ Live(b) \subseteq Rows
    BY DEF Fresh, Live, RowsOf
  <2>4. Payable(net) => net \in Nat
    <3>1. net \in Int
      BY <1>0, <2>1 DEF BatchesTyped, BatchRecords
    <3> HIDE DEF net
    <3> QED BY <3>1 DEF Payable
  <2> HIDE DEF amount, net, b
  <2>5. ASSUME NEW r \in Rows, Admit(s, r, amount) PROVE SessionsTyped'
    <3>1. [pc |-> "admitting", row |-> r, amount |-> amount] \in SessionStates
      BY <2>1, <2>5 DEF SessionStates
    <3>2. Goto(s, [pc |-> "admitting", row |-> r, amount |-> amount])
      BY <2>5 DEF Admit
    <3> QED BY <1>0, <3>1, <3>2, GotoTyped
  <2>6. ASSUME NEW r \in Rows, net \in Nat, Fills(r, net) PROVE PayoutsTyped'
    BY <1>0, <2>6, FillTyped
  <2>7. SessionsTyped' /\ PayoutsTyped'
    <3>1. CASE UNCHANGED payout /\ \E r \in Live(b) : Admit(s, r, amount)
      BY <1>k, <2>3, <2>5, <3>1
    <3>2. CASE UNCHANGED payout /\ Goto(s, Idle)
      BY <1>0, <1>k, <3>2, GotoTyped
    <3>3. ASSUME NEW r \in Fresh(b), Payable(net), Fills(r, net), Admit(s, r, amount)
          PROVE  SessionsTyped' /\ PayoutsTyped'
      <4>1. r \in Rows /\ net \in Nat
        BY <2>3, <2>4, <3>3
      <4> QED BY <2>5, <2>6, <3>3, <4>1
    <3> QED BY <2>2, <3>1, <3>2, <3>3
  <2> QED BY <1>k, <1>s, <2>0, <2>7
<1>6a. ASSUME NEW s \in Sessions, NEW b \in Batches, RequestPayout(s, b) PROVE TypeOK'
  <2> DEFINE net == batch[b].total - batch[b].fee
             state == [pc |-> "requesting", batch |-> b, amount |-> net]
  <2>1. net \in Int
    BY <1>0 DEF BatchesTyped, BatchRecords
  <2>2. /\ Goto(s, state) /\ UNCHANGED batch /\ UNCHANGED payout /\ UNCHANGED books
        /\ UNCHANGED <<refund, reserved, screening, transferred, crashes>>
    BY <1>6a DEF RequestPayout
  <2> HIDE DEF net
  <2>3. state \in SessionStates
    BY <2>1 DEF SessionStates
  <2> HIDE DEF state
  <2>4. SessionsTyped'
    BY <1>0, <2>2, <2>3, GotoTyped
  <2> QED BY <1>k, <1>s, <2>2, <2>4
<1>7. ASSUME NEW s \in Sessions, ReserveAllowance(s) PROVE TypeOK'
  <2> DEFINE r == session[s].row
             a == session[s].amount
  <2>1. /\ session[s].pc = "admitting"
        /\ Goto(s, Idle) \/ Goto(s, [pc |-> "screening", row |-> r])
        /\ reserved' = reserved \/ (a > 0 /\ reserved' = [reserved EXCEPT ![r[1]] = a])
        /\ UNCHANGED batch /\ UNCHANGED payout /\ UNCHANGED books
        /\ UNCHANGED <<refund, screening, transferred, crashes>>
    BY <1>7 DEF ReserveAllowance
  <2>2. r \in Rows /\ a \in Int
    <3>1. r \in Rows
      BY <1>0, <2>1, SessionRow DEF HasRow
    <3>2. a \in Int
      BY <1>0, <2>1, SessionCall
    <3> QED BY <3>1, <3>2
  <2> HIDE DEF r, a
  <2>3. SessionsTyped'
    <3>1. [pc |-> "screening", row |-> r] \in SessionStates
      BY <2>2 DEF SessionStates
    <3> QED BY <1>0, <2>1, <3>1, GotoTyped
  <2>4. OthersTyped'
    <3>1. reserved' \in [Batches -> Nat]
      BY <1>o, <2>1, <2>2
    <3> QED BY <1>o, <2>1, <3>1 DEF OthersTyped
  <2> QED BY <1>k, <1>s, <2>1, <2>3, <2>4
<1>8. ASSUME NEW s \in Sessions, ScreenPayout(s) PROVE TypeOK'
  <2>1. /\ session[s].pc = "screening" /\ GoesOn(s)
        /\ screening' = screening \/ \E d \in Decisions : screening' = [screening EXCEPT ![session[s].row[1]] = d]
        /\ UNCHANGED batch /\ UNCHANGED payout /\ UNCHANGED books
        /\ UNCHANGED <<refund, reserved, transferred, crashes>>
    BY <1>0, <1>8, ScreenEffect
  <2>2. session[s].row \in Rows
    BY <1>0, <2>1, SessionRow DEF HasRow
  <2>3. screening' \in [Batches -> Decisions]
    BY <1>o, <2>1, <2>2, RowShape
  <2>4. [pc |-> "dispatching", row |-> session[s].row] \in SessionStates
    BY <2>2 DEF SessionStates
  <2>5. CASE Goto(s, [pc |-> "dispatching", row |-> session[s].row])
    BY <1>0, <1>c, <2>1, <2>3, <2>4, <2>5
  <2>6. CASE Updates(s, "queued", "held") \/ Updates(s, "queued", "failed")
    BY <1>0, <1>u, <2>1, <2>2, <2>3, <2>6
  <2> QED BY <2>1, <2>5, <2>6 DEF GoesOn
<1>9. ASSUME NEW s \in Sessions, NEW r \in Rows, NEW held \in RowsOf(r[1]), Claim(s, held, r) PROVE TypeOK'
  <2>1. held \in Rows
    BY DEF RowsOf
  <2>2. /\ Claims(r) /\ Goto(s, [pc |-> "calling", row |-> held, claimed |-> r]) /\ UNCHANGED books
        /\ UNCHANGED <<refund, reserved, screening, transferred, crashes>>
    BY <1>9 DEF Claim, Claims
  <2>3. SessionsTyped'
    <3>1. [pc |-> "calling", row |-> held, claimed |-> r] \in SessionStates
      BY <2>1 DEF SessionStates
    <3> QED BY <1>0, <2>2, <3>1, GotoTyped
  <2>4. PayoutsTyped' /\ BatchesTyped'
    BY <2>2, ClaimsTyped
  <2> QED BY <1>k, <1>s, <2>2, <2>3, <2>4
<1>10. ASSUME NEW s \in Sessions, NothingToClaim(s) PROVE TypeOK'
  <2>1. /\ Goto(s, Idle) /\ UNCHANGED batch /\ UNCHANGED payout /\ UNCHANGED books
        /\ UNCHANGED <<refund, reserved, screening, transferred, crashes>>
    BY <1>10 DEF NothingToClaim
  <2>2. SessionsTyped'
    BY <1>0, <2>1, GotoTyped
  <2> QED BY <1>k, <1>s, <2>1, <2>2
<1>11. ASSUME NEW s \in Sessions, Answer(s) PROVE TypeOK'
  <2>1. PICK answer \in Answers, moved \in BOOLEAN : RailAnswers(s, answer, moved)
    BY <1>11 DEF Answer
  <2> DEFINE r == session[s].row
             q == session[s].claimed
  <2>2. /\ session[s].pc = "calling" /\ Goto(s, [pc |-> "answered", row |-> r, answer |-> answer])
        /\ transferred' = transferred \/ transferred' = transferred \cup {q}
        /\ UNCHANGED batch /\ UNCHANGED payout /\ UNCHANGED books
        /\ UNCHANGED <<refund, reserved, screening, crashes>>
    BY <2>1 DEF RailAnswers
  <2>3. r \in Rows /\ q \in Rows
    <3>1. r \in Rows
      BY <1>0, <2>2, SessionRow DEF HasRow
    <3>2. q \in Rows
      BY <1>0, <2>2, SessionCall
    <3> QED BY <3>1, <3>2
  <2> HIDE DEF r, q
  <2>4. SessionsTyped'
    <3>1. [pc |-> "answered", row |-> r, answer |-> answer] \in SessionStates
      BY <2>3 DEF SessionStates
    <3> QED BY <1>0, <2>2, <3>1, GotoTyped
  <2>5. OthersTyped'
    BY <1>o, <2>2, <2>3 DEF OthersTyped
  <2> QED BY <1>k, <1>s, <2>2, <2>4, <2>5
<1>12. ASSUME NEW s \in Sessions, Record(s) PROVE TypeOK'
  <2> DEFINE r == session[s].row
  <2>1. /\ session[s].pc = "answered" /\ Goto(s, Idle)
        /\ \/ UNCHANGED payout /\ UNCHANGED batch /\ UNCHANGED books
           \/ SetStatus(r, "failed") /\ UNCHANGED batch /\ UNCHANGED books
           \/ Completes(r)
        /\ UNCHANGED <<refund, reserved, screening, transferred, crashes>>
    BY <1>0, <1>12, RecordEffect
  <2>2. r \in Rows
    BY <1>0, <2>1, SessionRow DEF HasRow
  <2> HIDE DEF r
  <2>3. Completes(r) => PayoutsTyped' /\ BatchesTyped' /\ BooksTyped'
    BY <2>2, CompletesTyped
  <2>4. SetStatus(r, "failed") => PayoutsTyped'
    BY <1>0, <2>2, StatusTyped, StatusNames
  <2>5. SessionsTyped'
    BY <1>0, <2>1, GotoTyped
  <2> QED BY <1>k, <1>s, <2>1, <2>3, <2>4, <2>5
<1>13. ASSUME NEW s \in Actors, Crash(s) PROVE TypeOK'
  <2>1. /\ Goto(s, Idle) /\ UNCHANGED batch /\ UNCHANGED payout /\ UNCHANGED books
        /\ UNCHANGED <<refund, reserved, screening>>
        /\ \/ transferred' = transferred
           \/ session[s].pc = "calling" /\ transferred' = transferred \cup {session[s].claimed}
        /\ crashes < MaxCrashes /\ crashes' = crashes + 1
    BY <1>13 DEF Crash
  <2>2. SessionsTyped'
    BY <1>0, <2>1, GotoTyped
  <2>3. transferred' \subseteq Rows
    BY <1>0, <1>o, <2>1, SessionCall
  <2>4. crashes' \in 0 .. MaxCrashes
    BY <1>o, <2>1 DEF SettlementAssumption
  <2>5. OthersTyped'
    BY <1>o, <2>1, <2>3, <2>4 DEF OthersTyped
  <2> QED BY <1>k, <1>s, <2>1, <2>2, <2>5
<1>14. ASSUME NEW r \in Rows, NEW s, RetryPayout(r) \/ RequeueStale(s, r) PROVE TypeOK'
  <2>1. /\ SetStatus(r, "queued") /\ UNCHANGED batch /\ UNCHANGED books /\ UNCHANGED session
        /\ UNCHANGED <<refund, reserved, screening, transferred, crashes>>
    BY <1>14 DEF RetryPayout, RequeueStale
  <2>2. PayoutsTyped'
    BY <1>0, <2>1, StatusTyped, StatusNames
  <2> QED BY <1>k, <1>s, <2>1, <2>2
<1>15. ASSUME NEW r \in Rows, ReversePayout(r) PROVE TypeOK'
  <2>1. /\ SetStatus(r, "reversed") /\ Reopen(r[1]) /\ Releases(r)
        /\ UNCHANGED books /\ UNCHANGED session /\ UNCHANGED <<refund, screening, transferred, crashes>>
    BY <1>15 DEF ReversePayout, Releases
  <2>2. PayoutsTyped' /\ BatchesTyped' /\ OthersTyped'
    BY <1>0, <2>1, UndoTyped
  <2> QED BY <1>k, <1>s, <2>1, <2>2
<1>17. ASSUME NEW s \in Reviewers, ApproveHeld(s) PROVE TypeOK'
  <2>1. /\ session[s].pc = "reviewing" /\ Decide(session[s].row[1], "clear")
        /\ Goto(s, Idle) \/ Updates(s, "held", "queued")
        /\ UNCHANGED batch /\ UNCHANGED payout /\ UNCHANGED books
        /\ UNCHANGED <<refund, reserved, transferred, crashes>>
    BY <1>0, <1>17, ApproveEffect
  <2>2. session[s].row \in Rows
    BY <1>0, <2>1, SessionRow DEF HasRow
  <2>3. screening' \in [Batches -> Decisions]
    BY <2>1, <2>2, RowShape, DecideTyped DEF Decisions
  <2>4. CASE Goto(s, Idle)
    BY <1>0, <1>c, <2>1, <2>3, <2>4
  <2>5. CASE Updates(s, "held", "queued")
    BY <1>0, <1>u, <2>1, <2>2, <2>3, <2>5
  <2> QED BY <2>1, <2>4, <2>5
<1>18. ASSUME NEW s \in Actors, NEW r \in Rows, ReadHeld(s, r) \/ ListHeld(s, r) PROVE TypeOK'
  <2>1. /\ Goto(s, [pc |-> "reviewing", row |-> r]) \/ Goto(s, [pc |-> "rescreening", row |-> r])
        /\ UNCHANGED batch /\ UNCHANGED payout /\ UNCHANGED books
        /\ UNCHANGED <<refund, reserved, screening, transferred, crashes>>
    BY <1>18 DEF ReadHeld, ListHeld
  <2>2. /\ [pc |-> "reviewing", row |-> r] \in SessionStates
        /\ [pc |-> "rescreening", row |-> r] \in SessionStates
    BY DEF SessionStates
  <2>3. SessionsTyped'
    BY <1>0, <2>1, <2>2, GotoTyped
  <2> QED BY <1>k, <1>s, <2>1, <2>3
<1>19. ASSUME NEW s \in Reviewers, RejectHeld(s) PROVE TypeOK'
  <2>1. /\ session[s].pc = "reviewing" /\ SetStatus(session[s].row, "reversed")
        /\ Goto(s, [pc |-> "releasing", row |-> session[s].row])
        /\ UNCHANGED batch /\ UNCHANGED books
        /\ UNCHANGED <<refund, reserved, screening, transferred, crashes>>
    BY <1>19 DEF RejectHeld
  <2>2. session[s].row \in Rows
    BY <1>0, <2>1, SessionRow DEF HasRow
  <2>3. PayoutsTyped'
    BY <1>0, <2>1, <2>2, StatusTyped, StatusNames
  <2>4. [pc |-> "releasing", row |-> session[s].row] \in SessionStates
    BY <2>2 DEF SessionStates
  <2>5. SessionsTyped'
    BY <1>0, <2>1, <2>4, GotoTyped
  <2> QED BY <1>k, <1>s, <2>1, <2>3, <2>5
<1>19a. ASSUME NEW s \in Reviewers, ReleaseReservation(s) PROVE TypeOK'
  <2>1. /\ session[s].pc = "releasing" /\ Releases(session[s].row)
        /\ Goto(s, [pc |-> "reopening", row |-> session[s].row])
        /\ UNCHANGED batch /\ UNCHANGED payout /\ UNCHANGED books
        /\ UNCHANGED <<refund, screening, transferred, crashes>>
    BY <1>19a DEF ReleaseReservation, Releases
  <2>2. session[s].row \in Rows
    BY <1>0, <2>1, SessionRow DEF HasRow
  <2>3. reserved' \in [Batches -> Nat]
    <3> DEFINE b == session[s].row[1]
    <3>1. reserved' = [reserved EXCEPT ![b] = 0] /\ reserved \in [Batches -> Nat]
      BY <1>o, <2>1 DEF Releases
    <3>2. b \in Batches
      BY <2>2, RowShape
    <3> HIDE DEF b
    <3> QED BY <3>1, <3>2
  <2>4. OthersTyped'
    BY <1>o, <2>1, <2>3 DEF OthersTyped
  <2>5. [pc |-> "reopening", row |-> session[s].row] \in SessionStates
    BY <2>2 DEF SessionStates
  <2>6. SessionsTyped'
    BY <1>0, <2>1, <2>5, GotoTyped
  <2> QED BY <1>k, <1>s, <2>1, <2>4, <2>6
<1>19b. ASSUME NEW s \in Reviewers, ReopenBatch(s) PROVE TypeOK'
  <2>1. /\ session[s].pc = "reopening" /\ Reopen(session[s].row[1]) /\ Goto(s, Idle)
        /\ UNCHANGED payout /\ UNCHANGED books
        /\ UNCHANGED <<refund, reserved, screening, transferred, crashes>>
    BY <1>19b DEF ReopenBatch
  <2>2. session[s].row[1] \in Batches
    BY <1>0, <2>1, SessionRow, RowShape DEF HasRow
  <2>3. BatchesTyped'
    BY <1>0, <2>1, <2>2, ReopenTyped
  <2>4. SessionsTyped'
    BY <1>0, <2>1, GotoTyped
  <2> QED BY <1>k, <1>s, <2>1, <2>3, <2>4
<1>19c. ASSUME NEW s \in Sessions, Reevaluate(s) PROVE TypeOK'
  <2>1. /\ session[s].pc = "rescreening"
        /\ \/ Goto(s, Idle)
           \/ \E d \in {"clear", "blocked"} : Goto(s, [pc |-> "deciding", row |-> session[s].row, decision |-> d])
        /\ UNCHANGED batch /\ UNCHANGED payout /\ UNCHANGED books
        /\ UNCHANGED <<refund, reserved, screening, transferred, crashes>>
    BY <1>0, <1>19c, ReevaluateEffect
  <2>2. session[s].row \in Rows
    BY <1>0, <2>1, SessionRow DEF HasRow
  <2>3. \A d \in {"clear", "blocked"} : [pc |-> "deciding", row |-> session[s].row, decision |-> d] \in SessionStates
    BY <2>2 DEF SessionStates
  <2>4. SessionsTyped'
    BY <1>0, <2>1, <2>3, GotoTyped
  <2> QED BY <1>k, <1>s, <2>1, <2>4
<1>19d. ASSUME NEW s \in Sessions, RecordDecision(s) PROVE TypeOK'
  <2>1. /\ session[s].pc = "deciding" /\ Decide(session[s].row[1], session[s].decision)
        /\ Updates(s, "held", "queued") \/ Updates(s, "held", "failed")
        /\ UNCHANGED batch /\ UNCHANGED payout /\ UNCHANGED books
        /\ UNCHANGED <<refund, reserved, transferred, crashes>>
    BY <1>0, <1>19d, DecisionEffect
  <2>2. session[s].row \in Rows
    BY <1>0, <2>1, SessionRow DEF HasRow
  <2>3. session[s].decision \in Decisions
    BY <1>0, <2>1, SessionCall DEF Decisions
  <2>4. screening' \in [Batches -> Decisions]
    BY <2>1, <2>2, <2>3, RowShape, DecideTyped
  <2> QED BY <1>0, <1>u, <2>1, <2>2, <2>4
<1>19e. ASSUME NEW s \in Actors, UpdateRow(s) PROVE TypeOK'
  <2>1. /\ session[s].pc = "updating" /\ Goto(s, Idle)
        /\ UNCHANGED payout \/ SetStatus(session[s].row, session[s].to)
        /\ UNCHANGED batch /\ UNCHANGED books
        /\ UNCHANGED <<refund, reserved, screening, transferred, crashes>>
    BY <1>19e DEF UpdateRow
  <2>2. session[s].row \in Rows /\ session[s].to \in PayoutStatuses
    BY <1>0, <2>1, SessionRow, SessionCall, StatusNames DEF HasRow
  <2>3. PayoutsTyped'
    BY <1>0, <1>k, <2>1, <2>2, StatusTyped
  <2>4. SessionsTyped'
    BY <1>0, <2>1, GotoTyped
  <2> QED BY <1>k, <1>s, <2>1, <2>3, <2>4
<1>20. CASE UNCHANGED vars
  BY <1>k, <1>s, <1>20 DEF vars
<1> QED
  BY <1>1, <1>2, <1>3, <1>4, <1>5, <1>6, <1>7, <1>8, <1>9, <1>10, <1>11, <1>12, <1>13, <1>14, <1>15,
     <1>6a, <1>17, <1>18, <1>19, <1>19a, <1>19b, <1>19c, <1>19d, <1>19e, <1>20, <1>0 DEF Next, Dispatch, Actors

-----------------------------------------------------------------------------
(* The kinds of step, as the tables see them.                              *)

LiveRow(r) == payout[r].status \notin {"none", "reversed"}
Moves == {<<"queued", "held">>, <<"queued", "failed">>, <<"processing", "failed">>,
          <<"processing", "queued">>, <<"failed", "queued">>, <<"held", "queued">>,
          <<"held", "failed">>}

Quiet        == UNCHANGED <<payout, batch, books>>
Shifts(r, st) == /\ <<payout[r].status, st>> \in Moves
                 /\ SetStatus(r, st) /\ UNCHANGED <<batch, books>>
Net0(b)      == batch[b].total - batch[b].fee
Asked(b)     == \E s \in Sessions : session[s].pc = "requesting" /\ session[s].batch = b
Creates(r)   == /\ payout[r].status = "none" /\ Asked(r[1])
                /\ Live(r[1]) = {} /\ Payable(Net0(r[1])) /\ Fills(r, Net0(r[1]))
                /\ UNCHANGED <<batch, books>>
Takes(r)     == payout[r].status = "queued" /\ Claims(r) /\ UNCHANGED books
Pays(r)      == /\ payout[r].status = "processing" /\ Completes(r)
                /\ \E s \in Sessions : /\ session[s].pc = "answered" /\ session[s].row = r
                                       /\ session[s].answer = "succeeded"
\* A reviewer who read the row held has decided to reject it.
Undoes(r)    == \E s \in Reviewers : Rejecting(s, r)
Cancels(r)   == /\ \/ Reversible(r) /\ Reopen(r[1])
                   \/ Undoes(r) /\ UNCHANGED batch
                /\ SetStatus(r, "reversed") /\ UNCHANGED books
Reopens      == UNCHANGED <<payout, books>> /\ \E b \in Batches : Reopen(b)
Kinds == \/ Quiet
         \/ Reopens
         \/ UNCHANGED payout /\ \E s \in Sessions : CutCommit(s) \/ RefundCommit(s)
         \/ UNCHANGED <<payout, batch>> /\ \E p \in Payments : ReverseLedger(p)
         \/ \E r \in Rows : \/ Creates(r) \/ Takes(r) \/ Pays(r) \/ Cancels(r)
                            \/ \E st \in PayoutStatuses : Shifts(r, st)

LEMMA FreshIsNone ==
  ASSUME NEW b, NEW r \in Fresh(b)
  PROVE  payout[r].status = "none"
BY DEF Fresh, RowsOf, Rows

LEMMA CreateEffect ==
  ASSUME NEW s \in Sessions, CreatePayout(s)
  PROVE  payout' = payout \/ \E r \in Rows : Creates(r)
<1> DEFINE b == session[s].batch
<1>0. Asked(b) /\ UNCHANGED <<batch, books>>
  BY DEF CreatePayout, Asked
<1>1. CASE UNCHANGED payout
  BY <1>1
<1>2. ASSUME NEW r \in Fresh(b), Live(b) = {}, Payable(Net0(b)), Fills(r, Net0(b))
      PROVE  \E q \in Rows : Creates(q)
  <2>1. r \in Rows /\ r[1] = b
    BY DEF Fresh, RowsOf
  <2>2. payout[r].status = "none"
    BY FreshIsNone
  <2>4. Creates(r)
    BY <1>0, <1>2, <2>1, <2>2 DEF Creates
  <2> QED BY <2>1, <2>4
<1>3. \/ UNCHANGED payout
      \/ /\ Live(b) = {} /\ Payable(Net0(b))
         /\ \E r \in Fresh(b) : Fills(r, Net0(b))
  BY DEF CreatePayout, InsertPayout, Net0, Fills
<1> QED BY <1>1, <1>2, <1>3

LEMMA StepKinds ==
  ASSUME TypeOK, [Next]_vars
  PROVE  Kinds
<1>g. Sessions \subseteq Actors /\ Reviewers \subseteq Actors
  BY DEF Actors
<1>m. /\ PayoutStatuses = {"none", "queued", "held", "processing", "completed", "failed", "reversed"}
      /\ \A st \in PayoutStatuses, r \in Rows : Shifts(r, st) => Kinds
  BY DEF PayoutStatuses, Kinds
<1>1. ASSUME NEW s \in Sessions, NEW b \in Batches, CutRead(s, b) \/ RequestPayout(s, b) PROVE Kinds
  BY <1>1 DEF CutRead, RequestPayout, Kinds, Quiet
<1>2. ASSUME NEW s \in Sessions, CutCommit(s) PROVE Kinds
  <2>1. UNCHANGED payout
    BY <1>2 DEF CutCommit
  <2> QED BY <1>2, <2>1 DEF Kinds
<1>3. ASSUME NEW s \in Sessions, NEW p \in Payments, NEW kind \in {"request", "auto"}, RefundRead(s, p, kind)
      PROVE  Kinds
  BY <1>3 DEF RefundRead, Kinds, Quiet
<1>4. ASSUME NEW s \in Sessions, RefundCommit(s) PROVE Kinds
  <2>1. UNCHANGED payout
    BY <1>4 DEF RefundCommit
  <2> QED BY <1>4, <2>1 DEF Kinds
<1>5. ASSUME NEW p \in Payments, ApproveRefund(p) PROVE Kinds
  <2>1. UNCHANGED <<payout, batch>> /\ ReverseLedger(p)
    BY <1>5 DEF ApproveRefund
  <2> QED BY <2>1 DEF Kinds
<1>5a. ASSUME NEW p \in Payments, RejectRefund(p) PROVE Kinds
  BY <1>5a DEF RejectRefund, Kinds, Quiet
<1>6. ASSUME NEW s \in Sessions, CreatePayout(s) PROVE Kinds
  <2>1. UNCHANGED <<batch, books>>
    BY <1>6 DEF CreatePayout
  <2> QED BY <1>6, <2>1, CreateEffect DEF Kinds, Quiet
<1>7. ASSUME NEW s \in Sessions, ReserveAllowance(s) PROVE Kinds
  BY <1>7 DEF ReserveAllowance, Kinds, Quiet
<1>8. ASSUME NEW s \in Sessions, ScreenPayout(s) PROVE Kinds
  BY <1>g, <1>8, ScreenEffect DEF Kinds, Quiet
<1>8a. ASSUME NEW s \in Sessions, Reevaluate(s) \/ RecordDecision(s) PROVE Kinds
  BY <1>g, <1>8a, ReevaluateEffect, DecisionEffect DEF Kinds, Quiet
<1>8b. ASSUME NEW s \in Actors, UpdateRow(s) PROVE Kinds
  <2> DEFINE r == session[s].row
             from == session[s].from
             to == session[s].to
  <2>1. /\ session[s].pc = "updating" /\ UNCHANGED <<batch, books>>
        /\ payout' = payout \/ (payout[r].status = from /\ SetStatus(r, to))
    BY <1>8b DEF UpdateRow, Still
  <2>2. r \in Rows /\ <<from, to>> \in Moves /\ to \in PayoutStatuses
    <3>1. r \in Rows
      BY <2>1, SessionRow DEF HasRow
    <3>2. <<from, to>> \in {<<"queued", "held">>, <<"queued", "failed">>, <<"held", "queued">>, <<"held", "failed">>}
      BY <2>1, SessionCall
    <3>3. to \in PayoutStatuses
      BY <3>2, StatusNames
    <3> HIDE DEF from, to
    <3> QED BY <3>1, <3>2, <3>3 DEF Moves
  <2> HIDE DEF r, from, to
  <2>3. Quiet \/ Shifts(r, to)
    BY <2>1, <2>2 DEF Quiet, Shifts
  <2> QED BY <1>m, <2>2, <2>3 DEF Kinds
<1>9. ASSUME NEW s \in Sessions, NEW r \in Rows, NEW held \in RowsOf(r[1]), Claim(s, held, r) PROVE Kinds
  <2>1. Takes(r)
    BY <1>9 DEF Claim, Claims, Takes
  <2> QED BY <2>1 DEF Kinds
<1>10. ASSUME NEW s, NothingToClaim(s) \/ Answer(s) \/ Crash(s) PROVE Kinds
  BY <1>10 DEF NothingToClaim, Answer, RailAnswers, Crash, Kinds, Quiet
<1>12. ASSUME NEW s \in Sessions, Record(s) PROVE Kinds
  <2> DEFINE r == session[s].row
  <2>1. /\ session[s].pc = "answered"
        /\ \/ UNCHANGED <<payout, batch, books>>
           \/ payout[r].status = "processing" /\ SetStatus(r, "failed") /\ UNCHANGED <<batch, books>>
           \/ payout[r].status = "processing" /\ Completes(r) /\ session[s].answer = "succeeded"
    BY <1>g, <1>12, RecordEffect
  <2>2. r \in Rows
    BY <1>g, <2>1, SessionRow DEF HasRow
  <2>a. session[s].row = r
    OBVIOUS
  <2> HIDE DEF r
  <2>3. Quiet \/ Shifts(r, "failed") \/ Pays(r)
    BY <2>1, <2>a DEF Quiet, Shifts, Moves, Pays
  <2> QED BY <1>m, <2>2, <2>3 DEF Kinds
<1>14. ASSUME NEW r \in Rows, RetryPayout(r) PROVE Kinds
  <2>1. Shifts(r, "queued")
    BY <1>14 DEF RetryPayout, Shifts, Moves
  <2> QED BY <1>m, <2>1
<1>15. ASSUME NEW r \in Rows, ReversePayout(r) PROVE Kinds
  <2>1. Cancels(r)
    BY <1>15 DEF ReversePayout, Cancels
  <2> QED BY <2>1 DEF Kinds
<1>16. ASSUME NEW s, NEW r \in Rows, RequeueStale(s, r) PROVE Kinds
  <2>1. Shifts(r, "queued")
    BY <1>16 DEF RequeueStale, Stale, Shifts, Moves
  <2> QED BY <1>m, <2>1
<1>17. ASSUME NEW s \in Reviewers, ApproveHeld(s) PROVE Kinds
  BY <1>g, <1>17, ApproveEffect DEF Kinds, Quiet
<1>18. ASSUME NEW s, NEW r \in Rows, ReadHeld(s, r) \/ ListHeld(s, r) PROVE Kinds
  BY <1>18 DEF ReadHeld, ListHeld, Kinds, Quiet
<1>19. ASSUME NEW s \in Reviewers, RejectHeld(s) PROVE Kinds
  <2>1. session[s].pc = "reviewing" /\ SetStatus(session[s].row, "reversed") /\ UNCHANGED <<batch, books>>
    BY <1>19 DEF RejectHeld
  <2>2. session[s].row \in Rows
    BY <1>g, <2>1, SessionRow DEF HasRow
  <2>3. Cancels(session[s].row)
    BY <2>1 DEF Cancels, Undoes, Rejecting
  <2> QED BY <2>2, <2>3 DEF Kinds
<1>19a. ASSUME NEW s, ReleaseReservation(s) PROVE Kinds
  BY <1>19a DEF ReleaseReservation, Kinds, Quiet
<1>19b. ASSUME NEW s \in Reviewers, ReopenBatch(s) PROVE Kinds
  <2>1. session[s].pc = "reopening" /\ Reopen(session[s].row[1]) /\ UNCHANGED <<payout, books>>
    BY <1>19b DEF ReopenBatch
  <2>2. session[s].row[1] \in Batches
    BY <1>g, <2>1, SessionRow, RowShape DEF HasRow
  <2> QED BY <2>1, <2>2 DEF Kinds, Reopens
<1>20. CASE UNCHANGED vars
  BY <1>20 DEF vars, Kinds, Quiet
<1> QED
  BY <1>1, <1>2, <1>3, <1>4, <1>5, <1>5a, <1>6, <1>7, <1>8, <1>8a, <1>8b, <1>9, <1>10, <1>12, <1>14,
     <1>15, <1>16, <1>17, <1>18, <1>19, <1>19a, <1>19b, <1>20 DEF Next, Dispatch, Actors

LEMMA CreatesShape ==
  ASSUME TypeOK, NEW r \in Rows, Creates(r)
  PROVE  /\ payout[r].status = "none" /\ payout'[r].status = "queued" /\ payout'[r].amount = Net0(r[1])
         /\ payout'[r].journal = payout[r].journal
         /\ Touches(r) /\ UNCHANGED <<batch, books>> /\ Asked(r[1]) /\ Live(r[1]) = {}
BY FillShape DEF Creates

LEMMA TakesShape ==
  ASSUME SettlementAssumption, TypeOK, NEW r \in Rows, Takes(r)
  PROVE  /\ payout[r].status = "queued" /\ payout'[r].status = "processing"
         /\ payout'[r].amount = payout[r].amount /\ payout'[r].journal = payout[r].journal /\ Touches(r)
         /\ batch'[r[1]].status = "scheduled" /\ OnlyStatus(r[1]) /\ UNCHANGED books
<1>1. payout[r].status = "queued" /\ Claims(r) /\ UNCHANGED books
  BY DEF Takes
<1> QED BY <1>1, ClaimsShape

LEMMA PaysShape ==
  ASSUME TypeOK, NEW r \in Rows, Pays(r)
  PROVE  /\ payout[r].status = "processing" /\ payout'[r].status = "completed"
         /\ payout'[r].amount = payout[r].amount /\ payout'[r].journal /\ Touches(r)
         /\ batch'[r[1]].status = "processed" /\ OnlyStatus(r[1])
         /\ books'.wallet = books.wallet - payout[r].amount
<1>1. payout[r].status = "processing" /\ Completes(r)
  BY DEF Pays
<1> QED BY <1>1, CompletesShape

LEMMA ShiftsShape ==
  ASSUME TypeOK, NEW r \in Rows, NEW st \in PayoutStatuses, Shifts(r, st)
  PROVE  /\ Touches(r) /\ payout'[r].status = st /\ payout'[r].amount = payout[r].amount
         /\ payout'[r].journal = payout[r].journal
         /\ payout[r].status \in {"queued", "held", "processing", "failed"}
         /\ st \in {"held", "failed", "queued"} /\ UNCHANGED <<batch, books>>
<1>1. <<payout[r].status, st>> \in Moves /\ SetStatus(r, st) /\ UNCHANGED <<batch, books>>
  BY DEF Shifts
<1>2. payout[r].status \in {"queued", "held", "processing", "failed"} /\ st \in {"held", "failed", "queued"}
  BY <1>1 DEF Moves
<1>3. /\ Touches(r) /\ payout'[r].status = st /\ payout'[r].amount = payout[r].amount
      /\ payout'[r].journal = payout[r].journal
  BY <1>1, StatusShape DEF Touches
<1> QED BY <1>1, <1>2, <1>3

\* No batch's figures change, and at most one goes back from scheduled to open.
OpenAgain ==
  \A b \in Batches : /\ batch'[b].lines = batch[b].lines /\ batch'[b].total = batch[b].total
                     /\ batch'[b].fee = batch[b].fee
                     /\ \/ batch'[b].status = batch[b].status
                        \/ batch[b].status = "scheduled" /\ batch'[b].status = "open"

LEMMA ReopensShape == ASSUME TypeOK, Reopens PROVE OpenAgain
BY ReopenShape DEF Reopens, OpenAgain

LEMMA CancelsShape ==
  ASSUME TypeOK, NEW r \in Rows, Cancels(r)
  PROVE  /\ Touches(r) /\ payout'[r].status = "reversed" /\ payout'[r].amount = payout[r].amount
         /\ payout'[r].journal = payout[r].journal /\ UNCHANGED books /\ OpenAgain
         /\ Undoes(r) \/ Reversible(r)
<1>1. /\ Touches(r) /\ payout'[r].status = "reversed" /\ payout'[r].amount = payout[r].amount
      /\ payout'[r].journal = payout[r].journal /\ UNCHANGED books
  BY StatusShape DEF Cancels, Touches
<1>2. OpenAgain
  <2>1. CASE Reopen(r[1])
    BY <2>1, RowShape, ReopenShape DEF OpenAgain
  <2>2. CASE UNCHANGED batch
    BY <2>2 DEF OpenAgain
  <2> QED BY <2>1, <2>2 DEF Cancels
<1> QED BY <1>1, <1>2 DEF Cancels

-----------------------------------------------------------------------------
(* The books balance.                                                      *)

Refunding(s) == session[s].pc = "refunding"
Locks == \A s \in Sessions :
           Refunding(s) => /\ refund[session[s].payment] = "none"
                           /\ \A b \in session[s].from : batch[b].status # "none"
LocksApart == \A s, t \in Sessions :
                Refunding(s) /\ Refunding(t) /\ session[s].payment = session[t].payment => s = t
RefundedSet == {p \in Payments : Refunded(p)}
Money == books.payable + books.wallet + books.fees + books.bank
Marks(p, state) == refund' = [refund EXCEPT ![p] = state]

LEMMA BatchStays ==
  ASSUME SettlementAssumption, TypeOK, [Next]_vars, NEW b \in Batches, batch[b].status # "none"
  PROVE  batch'[b].status # "none"
<1>0. /\ \A s \in Sessions : s \in Actors
      /\ batch \in [Batches -> BatchRecords]
  BY DEF Actors, TypeOK, BatchRecords
<1>1. ASSUME NEW s \in Sessions, CutCommit(s) PROVE batch'[b].status # "none"
  <2> DEFINE lines == {p \in session[s].seen \ LockedPayments : ~Refunded(p)}
             open == [status |-> "open", lines |-> lines, total |-> KoboOf(lines), fee |-> Fee(KoboOf(lines))]
  <2>1. batch' = batch \/ batch' = [batch EXCEPT ![session[s].batch] = open]
    BY <1>1 DEF CutCommit
  <2>2. open.status = "open"
    OBVIOUS
  <2> HIDE DEF open
  <2> QED BY <1>0, <2>1, <2>2
<1>2. ASSUME NEW s \in Sessions, RefundCommit(s) PROVE batch'[b].status # "none"
  <2>1. session[s].pc = "refunding" /\ LeavesBatch(s)
    BY <1>0, <1>2, RefundEffect
  <2>2. batch'[b].status = batch[b].status
    BY <1>0, <2>1, LeavesShape
  <2> QED BY <2>2
<1>3. ASSUME NEW r \in Rows, Takes(r) PROVE batch'[b].status # "none"
  BY <1>3, TakesShape DEF OnlyStatus
<1>4. ASSUME NEW r \in Rows, Pays(r) PROVE batch'[b].status # "none"
  <2>1. batch'[r[1]].status = "processed" /\ \A a \in Batches : a # r[1] => batch'[a] = batch[a]
    BY <1>4, PaysShape DEF OnlyStatus
  <2> QED BY <2>1
<1>5. ASSUME NEW r \in Rows, Cancels(r) PROVE batch'[b].status # "none"
  BY <1>5, CancelsShape DEF OpenAgain
<1>5a. ASSUME Reopens PROVE batch'[b].status # "none"
  BY <1>5a, ReopensShape DEF OpenAgain
<1>6. ASSUME NEW r \in Rows, NEW st, Creates(r) \/ Shifts(r, st) PROVE batch'[b].status # "none"
  BY <1>6 DEF Creates, Shifts
<1> QED BY <1>1, <1>2, <1>3, <1>4, <1>5, <1>5a, <1>6, StepKinds DEF Kinds, Quiet

LEMMA LocksKept ==
  ASSUME SettlementAssumption, TypeOK, Locks, LocksApart, [Next]_vars,
         NEW s \in Actors, NEW state, Goto(s, state), state.pc # "refunding", refund' = refund
  PROVE  Locks' /\ LocksApart'
<1>1. session'[s] = state /\ \A t \in Actors : t # s => session'[t] = session[t]
  BY GotoShape
<1>2. \A t \in Sessions : /\ t \in Actors
                          /\ Refunding(t)' => t # s /\ Refunding(t) /\ session'[t] = session[t]
  BY <1>1 DEF Refunding, Actors
<1>3. \A t \in Sessions : Refunding(t) => session[t].from \in SUBSET Batches
  BY <1>2, SessionRefund DEF Refunding
<1>4. Locks'
  BY <1>2, <1>3, BatchStays DEF Locks
<1>5. LocksApart'
  BY <1>2 DEF LocksApart
<1> QED BY <1>4, <1>5

LEMMA LocksIdle ==
  ASSUME SettlementAssumption, TypeOK, Locks, LocksApart, [Next]_vars,
         session' = session, \A p \in Payments : refund[p] = "none" => refund'[p] = "none"
  PROVE  Locks' /\ LocksApart'
<1>1. \A t \in Sessions : Refunding(t) => /\ session[t].from \in SUBSET Batches
                                          /\ session[t].payment \in Payments
  BY SessionRefund DEF Refunding, Actors
<1>2. Locks'
  BY <1>1, BatchStays DEF Locks, Refunding
<1> QED BY <1>2 DEF LocksApart, Refunding

\* A refund takes a payment from payable exactly when it becomes refunded.
LEMMA RefundAdds ==
  ASSUME SettlementAssumption, TypeOK, BooksBalance, NEW p \in Payments, ~Refunded(p),
         NEW st \in {"approved", "auto"}, Marks(p, st), ReverseLedger(p)
  PROVE  BooksBalance'
<1>1. /\ books \in BooksRecords /\ refund \in [Payments -> RefundStates] /\ Amount[p] \in Int
  BY DEF TypeOK, BooksRecords, SettlementAssumption
<1>2. RefundedSet' = RefundedSet \cup {p} /\ p \in Payments \ RefundedSet
  BY <1>1 DEF RefundedSet, Refunded, Marks
<1>3. KoboOf(RefundedSet \cup {p}) = Amount[p] + KoboOf(RefundedSet) /\ KoboOf(RefundedSet) \in Nat
  BY <1>2, KoboSums DEF RefundedSet
<1>4. /\ books'.payable = books.payable - Amount[p] /\ books'.wallet = books.wallet
      /\ books'.fees = books.fees /\ books'.bank = books.bank
  BY <1>1 DEF ReverseLedger, BooksRecords
<1>5. KoboOf(Payments) \in Nat
  BY KoboSums
<1>6. books.payable + books.wallet + books.fees + books.bank + KoboOf(RefundedSet) = KoboOf(Payments)
  BY DEF BooksBalance, RefundedSet
<1>7. /\ books.payable \in Int /\ books.wallet \in Int /\ books.fees \in Int /\ books.bank \in Int
  BY <1>1 DEF BooksRecords
<1>8. books'.payable + books'.wallet + books'.fees + books'.bank + KoboOf(RefundedSet') = KoboOf(Payments)
  BY <1>1, <1>2, <1>3, <1>4, <1>5, <1>6, <1>7
<1> QED BY <1>8 DEF BooksBalance, RefundedSet

LEMMA BooksSame ==
  ASSUME SettlementAssumption, TypeOK, BooksBalance, RefundedSet' = RefundedSet,
         Money' = Money
  PROVE  BooksBalance'
BY DEF BooksBalance, RefundedSet, Money

LEMMA BooksStep ==
  ASSUME SettlementAssumption, TypeOK, Locks, LocksApart, BooksBalance, [Next]_vars
  PROVE  Locks' /\ LocksApart' /\ BooksBalance'
<1>0. /\ books \in BooksRecords /\ refund \in [Payments -> RefundStates]
      /\ \A s \in Sessions : s \in Actors
      /\ \A s \in Reviewers : s \in Actors
      /\ Idle.pc # "refunding"
  BY DEF TypeOK, BooksRecords, Actors, Idle
<1>s. (\A s \in Sessions : s \in Actors) /\ (\A s \in Reviewers : s \in Actors) /\ Idle.pc # "refunding"
  BY <1>0
<1>a. /\ books.payable \in Int /\ books.wallet \in Int /\ books.fees \in Int /\ books.bank \in Int
  BY <1>0 DEF BooksRecords
<1>q. refund' = refund => RefundedSet' = RefundedSet
  BY DEF RefundedSet, Refunded
<1>b. refund' = refund /\ books' = books => BooksBalance'
  BY <1>q, BooksSame DEF Money
<1>1. ASSUME NEW s \in Sessions, NEW b \in Batches, CutRead(s, b) PROVE Locks' /\ LocksApart' /\ BooksBalance'
  <2>1. Goto(s, [pc |-> "cutting", batch |-> b, seen |-> Eligible]) /\ UNCHANGED <<refund, books>>
    BY <1>1 DEF CutRead
  <2> QED BY <1>s, <1>b, <2>1, LocksKept
<1>2. ASSUME NEW s \in Sessions, CutCommit(s) PROVE Locks' /\ LocksApart' /\ BooksBalance'
  <2> DEFINE lines == {p \in session[s].seen \ LockedPayments : ~Refunded(p)}
             total == KoboOf(lines)
  <2>1. Goto(s, Idle) /\ refund' = refund /\ (books' = books \/ Credit(total)) /\ session[s].pc = "cutting"
    BY <1>2 DEF CutCommit
  <2>2. lines \in SUBSET Payments
    BY <1>0, <2>1, SessionCut
  <2> HIDE DEF lines
  <2>3. total \in Nat
    BY <2>2, KoboSums
  <2> HIDE DEF total
  <2>4. ASSUME Credit(total) PROVE BooksBalance'
    <3>1. /\ books'.payable = books.payable - total /\ books'.fees = books.fees + Fee(total)
          /\ books'.wallet = books.wallet + Net(total) /\ books'.bank = books.bank
      BY <1>0, <2>3, <2>4, CreditShape
    <3>2. Fee(total) \in Nat /\ Net(total) \in Nat /\ Net(total) + Fee(total) = total
      <4>1. FeeSplits(total)
        BY <2>3, FeeBounds
      <4> QED BY <4>1 DEF FeeSplits
    <3>3. Money' = Money
      BY <1>a, <2>3, <3>1, <3>2 DEF Money
    <3>4. RefundedSet' = RefundedSet
      BY <1>q, <2>1
    <3> QED BY <3>3, <3>4, BooksSame
  <2>5. BooksBalance'
    BY <1>b, <2>1, <2>4
  <2> QED BY <1>0, <2>1, <2>5, LocksKept
<1>3. ASSUME NEW s \in Sessions, NEW p \in Payments, NEW kind \in {"request", "auto"}, RefundRead(s, p, kind)
      PROVE  Locks' /\ LocksApart' /\ BooksBalance'
  <2>1. PICK from \in BatchOf(p) : Reads(s, p, kind, from) /\ Refundable(p, from)
    BY <1>3 DEF RefundRead, Reads
  <2>2. p \notin LockedPayments /\ UNCHANGED <<refund, batch, books>>
    BY <1>3 DEF RefundRead
  <2>3. /\ session'[s].pc = "refunding" /\ session'[s].payment = p /\ session'[s].from = from
        /\ \A t \in Actors : t # s => session'[t] = session[t]
    BY <1>0, <2>1, GotoShape DEF Reads
  <2>4. \A t \in Sessions : t # s => ~(Refunding(t) /\ session[t].payment = p)
    BY <2>2 DEF LockedPayments, Refunding
  <2>5. Locks'
    BY <1>0, <2>1, <2>2, <2>3 DEF Locks, Refunding, Refundable
  <2>6. LocksApart'
    BY <1>0, <2>3, <2>4 DEF LocksApart, Refunding
  <2> QED BY <1>b, <2>2, <2>5, <2>6
<1>4. ASSUME NEW s \in Sessions, RefundCommit(s) PROVE Locks' /\ LocksApart' /\ BooksBalance'
  <2>1. /\ session[s].pc = "refunding" /\ Goto(s, Idle)
        /\ \/ Requests(s, "pending_approval") /\ books' = books
           \/ Requests(s, "auto") /\ ReverseLedger(Line(s))
    BY <1>0, <1>4, RefundEffect
  <2>2. Line(s) \in Payments /\ refund[Line(s)] = "none"
    <3>1. Line(s) \in Payments
      BY <1>0, <2>1, SessionRefund DEF Line
    <3>2. refund[session[s].payment] = "none"
      BY <2>1 DEF Locks, Refunding
    <3> QED BY <3>1, <3>2 DEF Line
  <2>3. /\ session'[s] = Idle /\ \A t \in Actors : t # s => session'[t] = session[t]
    BY <1>0, <2>1, GotoShape
  <2>4. \A p \in Payments : p # Line(s) => refund'[p] = refund[p]
    BY <1>0, <2>1, <2>2 DEF Requests
  <2>5. \A t \in Sessions : Refunding(t)' =>
          /\ t # s /\ Refunding(t) /\ session'[t] = session[t]
          /\ session[t].payment \in Payments /\ session[t].payment # Line(s)
          /\ session[t].from \in SUBSET Batches
    BY <1>0, <2>1, <2>3, SessionRefund DEF Refunding, LocksApart, Line
  <2>6. Locks'
    BY <2>4, <2>5, BatchStays DEF Locks
  <2>7. LocksApart'
    BY <2>5 DEF LocksApart
  <2>8. CASE Requests(s, "pending_approval") /\ books' = books
    <3>1. \A p \in Payments : Refunded(p)' <=> Refunded(p)
      BY <1>0, <2>2, <2>4, <2>8 DEF Requests, Refunded
    <3>2. RefundedSet' = RefundedSet
      BY <3>1 DEF RefundedSet
    <3>3. BooksBalance'
      BY <2>8, <3>2, BooksSame DEF Money
    <3> QED BY <2>6, <2>7, <3>3
  <2>9. CASE Requests(s, "auto") /\ ReverseLedger(Line(s))
    <3>1. Marks(Line(s), "auto") /\ ~Refunded(Line(s))
      BY <2>2, <2>9 DEF Requests, Marks, Refunded
    <3> QED BY <2>2, <2>6, <2>7, <2>9, <3>1, RefundAdds
  <2> QED BY <2>1, <2>8, <2>9
<1>5. ASSUME NEW p \in Payments, ApproveRefund(p) PROVE Locks' /\ LocksApart' /\ BooksBalance'
  <2>1. /\ refund[p] = "pending_approval" /\ refund' = [refund EXCEPT ![p] = "approved"]
        /\ ReverseLedger(p) /\ session' = session
    BY <1>5 DEF ApproveRefund
  <2>2. BooksBalance'
    <3>1. Marks(p, "approved") /\ ~Refunded(p)
      BY <2>1 DEF Marks, Refunded
    <3> QED BY <2>1, <3>1, RefundAdds
  <2>3. \A q \in Payments : refund[q] = "none" => refund'[q] = "none"
    BY <1>0, <2>1
  <2> QED BY <2>1, <2>2, <2>3, LocksIdle
<1>6. ASSUME NEW p \in Payments, RejectRefund(p) PROVE Locks' /\ LocksApart' /\ BooksBalance'
  <2>1. /\ refund[p] = "pending_approval" /\ refund' = [refund EXCEPT ![p] = "rejected"]
        /\ books' = books /\ session' = session
    BY <1>6 DEF RejectRefund
  <2>2. \A q \in Payments : Refunded(q)' <=> Refunded(q)
    BY <1>0, <2>1 DEF Refunded
  <2>3. RefundedSet' = RefundedSet
    BY <2>2 DEF RefundedSet
  <2>4. \A q \in Payments : refund[q] = "none" => refund'[q] = "none"
    BY <1>0, <2>1
  <2>5. BooksBalance'
    BY <2>1, <2>3, BooksSame DEF Money
  <2> QED BY <2>1, <2>4, <2>5, LocksIdle
<1>c. ASSUME NEW s \in Actors, NEW state, Goto(s, state), state.pc # "refunding", UNCHANGED <<refund, books>>
      PROVE  Locks' /\ LocksApart' /\ BooksBalance'
  BY <1>b, <1>c, LocksKept
<1>7. ASSUME NEW s \in Sessions, CreatePayout(s) PROVE Locks' /\ LocksApart' /\ BooksBalance'
  <2>1. Goto(s, Idle) \/ \E r : Admit(s, r, session[s].amount)
    <3>1. ASSUME InsertPayout(s, session[s].batch) PROVE \E r : Admit(s, r, session[s].amount)
      BY <3>1 DEF InsertPayout
    <3> QED BY <1>7, <3>1 DEF CreatePayout
  <2>2. UNCHANGED <<refund, books>>
    BY <1>7 DEF CreatePayout
  <2>3. CASE Goto(s, Idle)
    BY <1>s, <1>c, <2>2, <2>3
  <2>4. ASSUME NEW r, Admit(s, r, session[s].amount) PROVE Locks' /\ LocksApart' /\ BooksBalance'
    BY <1>s, <1>c, <2>2, <2>4 DEF Admit
  <2> QED BY <2>1, <2>3, <2>4
<1>7a. ASSUME NEW s \in Sessions, NEW b \in Batches, RequestPayout(s, b) PROVE Locks' /\ LocksApart' /\ BooksBalance'
  <2>1. Goto(s, [pc |-> "requesting", batch |-> b, amount |-> Net0(b)]) /\ UNCHANGED <<refund, books>>
    BY <1>7a DEF RequestPayout, Net0
  <2> QED BY <1>s, <1>c, <2>1
<1>8. ASSUME NEW s \in Sessions, ReserveAllowance(s) PROVE Locks' /\ LocksApart' /\ BooksBalance'
  <2>1. /\ Goto(s, Idle) \/ Goto(s, [pc |-> "screening", row |-> session[s].row])
        /\ UNCHANGED <<refund, books>>
    BY <1>8 DEF ReserveAllowance
  <2> QED BY <1>s, <1>b, <2>1, LocksKept
<1>d. ASSUME NEW s \in Actors, NEW from, NEW to, Updates(s, from, to), UNCHANGED <<refund, books>>
      PROVE  Locks' /\ LocksApart' /\ BooksBalance'
  BY <1>c, <1>d DEF Updates
<1>9. ASSUME NEW s \in Sessions, ScreenPayout(s) PROVE Locks' /\ LocksApart' /\ BooksBalance'
  <2>1. GoesOn(s) /\ UNCHANGED <<refund, books>>
    BY <1>s, <1>9, ScreenEffect
  <2>2. CASE Goto(s, [pc |-> "dispatching", row |-> session[s].row])
    BY <1>s, <1>c, <2>1, <2>2
  <2> QED BY <1>s, <1>d, <2>1, <2>2 DEF GoesOn
<1>9a. ASSUME NEW s \in Sessions, RecordDecision(s) PROVE Locks' /\ LocksApart' /\ BooksBalance'
  <2>1. (Updates(s, "held", "queued") \/ Updates(s, "held", "failed")) /\ UNCHANGED <<refund, books>>
    BY <1>s, <1>9a, DecisionEffect
  <2> QED BY <1>s, <1>d, <2>1
<1>9b. ASSUME NEW s \in Sessions, Reevaluate(s) PROVE Locks' /\ LocksApart' /\ BooksBalance'
  <2>1. /\ \/ Goto(s, Idle)
           \/ \E d \in {"clear", "blocked"} : Goto(s, [pc |-> "deciding", row |-> session[s].row, decision |-> d])
        /\ UNCHANGED <<refund, books>>
    BY <1>s, <1>9b, ReevaluateEffect
  <2> QED BY <1>s, <1>c, <2>1
<1>9c. ASSUME NEW s \in Reviewers, ApproveHeld(s) PROVE Locks' /\ LocksApart' /\ BooksBalance'
  <2>1. (Goto(s, Idle) \/ Updates(s, "held", "queued")) /\ UNCHANGED <<refund, books>>
    BY <1>s, <1>9c, ApproveEffect
  <2> QED BY <1>s, <1>c, <1>d, <2>1
<1>10. ASSUME NEW s \in Sessions, NEW r \in Rows, NEW held \in RowsOf(r[1]), Claim(s, held, r)
       PROVE  Locks' /\ LocksApart' /\ BooksBalance'
  <2>1. Goto(s, [pc |-> "calling", row |-> held, claimed |-> r]) /\ UNCHANGED <<refund, books>>
    BY <1>10 DEF Claim
  <2> QED BY <1>s, <1>b, <2>1, LocksKept
<1>11. ASSUME NEW s \in Actors, NothingToClaim(s) \/ Crash(s) \/ UpdateRow(s) \/ ReopenBatch(s)
       PROVE  Locks' /\ LocksApart' /\ BooksBalance'
  <2>1. Goto(s, Idle) /\ UNCHANGED <<refund, books>>
    BY <1>11 DEF NothingToClaim, Crash, UpdateRow, ReopenBatch
  <2> QED BY <1>s, <1>c, <2>1
<1>12. ASSUME NEW s \in Sessions, Answer(s) PROVE Locks' /\ LocksApart' /\ BooksBalance'
  <2>1. PICK answer \in Answers, moved \in BOOLEAN : RailAnswers(s, answer, moved)
    BY <1>12 DEF Answer
  <2>2. UNCHANGED <<refund, books>> /\ Goto(s, [pc |-> "answered", row |-> session[s].row, answer |-> answer])
    BY <2>1 DEF RailAnswers
  <2> QED BY <1>s, <1>b, <2>1, <2>2, LocksKept
<1>13. ASSUME NEW s \in Sessions, Record(s) PROVE Locks' /\ LocksApart' /\ BooksBalance'
  <2>1. /\ session[s].pc = "answered" /\ Goto(s, Idle) /\ refund' = refund
        /\ books' = books \/ Completes(session[s].row)
    BY <1>s, <1>13, RecordEffect
  <2>2. session[s].row \in Rows
    BY <1>0, <2>1, SessionRow DEF HasRow
  <2>3. ASSUME NEW r \in Rows, Completes(r) PROVE BooksBalance'
    <3>1. /\ books'.wallet = books.wallet - payout[r].amount /\ books'.bank = books.bank + payout[r].amount
          /\ books'.payable = books.payable /\ books'.fees = books.fees
      BY <2>3, CompletesShape
    <3>2. payout[r].amount \in Nat
      BY DEF TypeOK
    <3>3. Money' = Money
      BY <1>a, <3>1, <3>2 DEF Money
    <3>4. RefundedSet' = RefundedSet
      BY <1>q, <2>1
    <3> QED BY <3>3, <3>4, BooksSame
  <2>4. BooksBalance'
    BY <1>b, <2>1, <2>2, <2>3
  <2> QED BY <1>0, <2>1, <2>4, LocksKept
<1>14. ASSUME NEW r \in Rows, NEW s, RetryPayout(r) \/ ReversePayout(r) \/ RequeueStale(s, r)
       PROVE  Locks' /\ LocksApart' /\ BooksBalance'
  <2>1. UNCHANGED <<refund, books, session>>
    BY <1>14 DEF RetryPayout, ReversePayout, RequeueStale
  <2> QED BY <1>b, <2>1, LocksIdle
<1>15. ASSUME NEW s \in Actors, NEW r \in Rows, ReadHeld(s, r) \/ ListHeld(s, r)
       PROVE  Locks' /\ LocksApart' /\ BooksBalance'
  <2>1. /\ Goto(s, [pc |-> "reviewing", row |-> r]) \/ Goto(s, [pc |-> "rescreening", row |-> r])
        /\ UNCHANGED <<refund, books>>
    BY <1>15 DEF ReadHeld, ListHeld
  <2> QED BY <1>c, <2>1
<1>16. ASSUME NEW s \in Reviewers, RejectHeld(s) \/ ReleaseReservation(s) PROVE Locks' /\ LocksApart' /\ BooksBalance'
  <2>1. /\ \/ Goto(s, [pc |-> "releasing", row |-> session[s].row])
           \/ Goto(s, [pc |-> "reopening", row |-> session[s].row])
        /\ UNCHANGED <<refund, books>>
    BY <1>16 DEF RejectHeld, ReleaseReservation
  <2> QED BY <1>s, <1>c, <2>1
<1>17. CASE UNCHANGED vars
  <2>1. UNCHANGED <<refund, books, session>>
    BY <1>17 DEF vars
  <2> QED BY <1>b, <2>1, LocksIdle
<1> QED
  BY <1>1, <1>2, <1>3, <1>4, <1>5, <1>6, <1>7, <1>7a, <1>8, <1>9, <1>9a, <1>9b, <1>9c, <1>10, <1>11, <1>12,
     <1>13, <1>14, <1>15, <1>16, <1>17 DEF Next, Dispatch, Actors

-----------------------------------------------------------------------------
(* Rows and their batches.                                                 *)

OneLiveRow == \A q, r \in Rows : LiveRow(q) /\ LiveRow(r) /\ q[1] = r[1] => q = r
Stands(batched, row) == /\ batched = "none" => row = "none"
                        /\ row = "completed" => batched = "processed"
RowsStand == \A r \in Rows : Stands(batch[r[1]].status, payout[r].status)
\* Whatever a session has found out about its row still stands, or the row is
\* reversed by now.
CallOK(s) ==
  /\ session[s].pc = "requesting" => batch[session[s].batch].status # "none"
  /\ session[s].pc \in HasRow => payout[session[s].row].status # "none"
  /\ session[s].pc = "calling" => \/ session[s].row = session[s].claimed
                                  \/ payout[session[s].row].status = "reversed"
  /\ session[s].pc = "answered" => \/ session[s].answer # "succeeded"
                                   \/ session[s].row \in transferred
                                   \/ payout[session[s].row].status = "reversed"
  /\ session[s].pc = "releasing" => payout[session[s].row].status = "reversed"
CallInv == \A s \in Actors : CallOK(s)
\* A ledger journal stands for a completion.
JournalOK(r) == /\ payout[r].status = "completed" => payout[r].journal
                /\ payout[r].journal => payout[r].status \in {"completed", "reversed"}
JournalInv == \A r \in Rows : JournalOK(r)
Opens(b, lines) ==
  batch' = [batch EXCEPT ![b] = [status |-> "open",       lines |-> lines,
                                 total  |-> KoboOf(lines), fee   |-> Fee(KoboOf(lines))]]

LEMMA CutEffect ==
  ASSUME SettlementAssumption, TypeOK, NEW s \in Sessions, CutCommit(s)
  PROVE  /\ session[s].pc = "cutting" /\ Goto(s, Idle) /\ UNCHANGED <<refund, payout, reserved, transferred>>
         /\ \/ UNCHANGED <<batch, books>>
            \/ \E b \in Batches, lines \in SUBSET Payments :
                 batch[b].status = "none" /\ Opens(b, lines) /\ Credit(KoboOf(lines))
<1> DEFINE b == session[s].batch
           lines == {p \in session[s].seen \ LockedPayments : ~Refunded(p)}
<1>1. /\ session[s].pc = "cutting" /\ Goto(s, Idle) /\ UNCHANGED <<refund, payout, reserved, transferred>>
      /\ \/ UNCHANGED <<batch, books>>
         \/ batch[b].status = "none" /\ Opens(b, lines) /\ Credit(KoboOf(lines))
  BY DEF CutCommit, Opens
<1>2. s \in Actors
  BY DEF Actors
<1>3. b \in Batches /\ lines \in SUBSET Payments
  BY <1>1, <1>2, SessionCut
<1> HIDE DEF b, lines
<1> QED BY <1>1, <1>3

LEMMA OpensShape ==
  ASSUME SettlementAssumption, TypeOK, NEW b \in Batches, NEW lines \in SUBSET Payments, Opens(b, lines)
  PROVE  /\ batch'[b].status = "open" /\ batch'[b].lines = lines
         /\ batch'[b].total = KoboOf(lines) /\ batch'[b].fee = Fee(KoboOf(lines))
         /\ \A a \in Batches : a # b => batch'[a] = batch[a]
BY DEF Opens, TypeOK

\* A reversed row stays reversed and no row disappears.
LEMMA RowsOnward ==
  ASSUME SettlementAssumption, TypeOK, [Next]_vars, NEW r \in Rows
  PROVE  /\ payout[r].status # "none" => payout'[r].status # "none"
         /\ payout[r].status = "reversed" => payout'[r].status = "reversed"
<1>1. CASE payout' = payout
  BY <1>1
<1>2. ASSUME NEW q \in Rows, Creates(q)
      PROVE  /\ payout[r].status # "none" => payout'[r].status # "none"
             /\ payout[r].status = "reversed" => payout'[r].status = "reversed"
  BY <1>2, CreatesShape DEF Touches
<1>3. ASSUME NEW q \in Rows, Takes(q)
      PROVE  /\ payout[r].status # "none" => payout'[r].status # "none"
             /\ payout[r].status = "reversed" => payout'[r].status = "reversed"
  BY <1>3, TakesShape DEF Touches
<1>4. ASSUME NEW q \in Rows, Pays(q)
      PROVE  /\ payout[r].status # "none" => payout'[r].status # "none"
             /\ payout[r].status = "reversed" => payout'[r].status = "reversed"
  BY <1>4, PaysShape DEF Touches
<1>5. ASSUME NEW q \in Rows, Cancels(q)
      PROVE  /\ payout[r].status # "none" => payout'[r].status # "none"
             /\ payout[r].status = "reversed" => payout'[r].status = "reversed"
  BY <1>5, CancelsShape DEF Touches
<1>6. ASSUME NEW q \in Rows, NEW st \in PayoutStatuses, Shifts(q, st)
      PROVE  /\ payout[r].status # "none" => payout'[r].status # "none"
             /\ payout[r].status = "reversed" => payout'[r].status = "reversed"
  BY <1>6, ShiftsShape DEF Touches
<1> QED BY <1>1, <1>2, <1>3, <1>4, <1>5, <1>6, StepKinds DEF Kinds, Quiet, Reopens

LEMMA RowsStep ==
  ASSUME SettlementAssumption, TypeOK, OneLiveRow, RowsStand, CallInv, [Next]_vars
  PROVE  OneLiveRow' /\ RowsStand'
<1>0. /\ \A r \in Rows : r[1] \in Batches
      /\ \A s \in Sessions : s \in Actors
  BY RowShape DEF Actors
<1>a. (\A r \in Rows : LiveRow(r)' => LiveRow(r)) => OneLiveRow'
  BY DEF OneLiveRow
<1>p. UNCHANGED payout => OneLiveRow'
  <2> SUFFICES ASSUME UNCHANGED payout PROVE \A r \in Rows : LiveRow(r)' => LiveRow(r)
    BY <1>a
  <2> QED BY DEF LiveRow
<1>k. (\A r \in Rows : Stands(batch[r[1]].status, payout[r].status) => Stands(batch'[r[1]].status, payout'[r].status))
        => RowsStand'
  BY DEF RowsStand
<1>b. UNCHANGED payout /\ (\A b \in Batches : batch'[b].status = batch[b].status) => RowsStand'
  BY <1>0, <1>k
<1>1. ASSUME UNCHANGED <<payout, batch>> PROVE OneLiveRow' /\ RowsStand'
  BY <1>p, <1>b, <1>1
<1>2. ASSUME UNCHANGED payout, NEW s \in Sessions, CutCommit(s) PROVE OneLiveRow' /\ RowsStand'
  <2>1. CASE UNCHANGED batch
    BY <1>p, <1>b, <1>2, <2>1
  <2>2. ASSUME NEW b \in Batches, NEW lines \in SUBSET Payments, batch[b].status = "none", Opens(b, lines)
        PROVE  RowsStand'
    <3>1. batch'[b].status = "open" /\ \A a \in Batches : a # b => batch'[a] = batch[a]
      BY <2>2, OpensShape
    <3>2. \A r \in Rows : Stands(batch[r[1]].status, payout[r].status) => Stands(batch'[r[1]].status, payout[r].status)
      BY <1>0, <2>2, <3>1 DEF Stands
    <3> QED BY <1>2, <1>k, <3>2
  <2> QED BY <1>p, <1>2, <2>1, <2>2, CutEffect
<1>3. ASSUME UNCHANGED payout, NEW s \in Sessions, RefundCommit(s) PROVE OneLiveRow' /\ RowsStand'
  <2>1. session[s].pc = "refunding" /\ LeavesBatch(s)
    BY <1>0, <1>3, RefundEffect
  <2>2. \A b \in Batches : batch'[b].status = batch[b].status
    BY <1>0, <2>1, LeavesShape
  <2> QED BY <1>p, <1>b, <1>3, <2>2
<1>5. ASSUME NEW r \in Rows, Creates(r) PROVE OneLiveRow' /\ RowsStand'
  <2>1. /\ Touches(r) /\ payout'[r].status = "queued" /\ batch' = batch
        /\ Asked(r[1]) /\ Live(r[1]) = {}
    BY <1>5, CreatesShape
  <2>2. \A q \in Rows : q[1] = r[1] => ~LiveRow(q)
    BY <2>1 DEF Live, RowsOf, LiveRow
  <2>3. \A q \in Rows : LiveRow(q)' => q = r \/ LiveRow(q)
    BY <2>1 DEF LiveRow, Touches
  <2>4. OneLiveRow'
    BY <2>2, <2>3 DEF OneLiveRow
  <2>5. RowsStand'
    <3>0. batch[r[1]].status # "none"
      <4>1. PICK s \in Sessions : session[s].pc = "requesting" /\ session[s].batch = r[1]
        BY <2>1 DEF Asked
      <4>2. CallOK(s)
        BY <1>0 DEF CallInv
      <4> QED BY <4>1, <4>2 DEF CallOK
    <3>1. Stands(batch'[r[1]].status, payout'[r].status)
      BY <2>1, <3>0 DEF Stands
    <3>2. \A q \in Rows : q # r => payout'[q] = payout[q] /\ batch'[q[1]] = batch[q[1]]
      BY <2>1 DEF Touches
    <3> QED BY <1>k, <3>1, <3>2
  <2> QED BY <2>4, <2>5
<1>6. ASSUME NEW r \in Rows, Takes(r) PROVE OneLiveRow' /\ RowsStand'
  <2>1. /\ payout[r].status = "queued" /\ payout'[r].status = "processing" /\ Touches(r)
        /\ batch'[r[1]].status = "scheduled" /\ OnlyStatus(r[1])
    BY <1>6, TakesShape
  <2>2. OneLiveRow'
    BY <1>a, <2>1 DEF LiveRow, Touches
  <2>b. \A q \in Rows : q # r /\ q[1] = r[1] => payout[q].status # "completed"
    BY <2>1 DEF OneLiveRow, LiveRow
  <2>3. ASSUME NEW q \in Rows, Stands(batch[q[1]].status, payout[q].status)
        PROVE  Stands(batch'[q[1]].status, payout'[q].status)
    <3>1. CASE q[1] = r[1]
      BY <2>1, <2>b, <3>1 DEF Stands, Touches
    <3>2. CASE q[1] # r[1]
      BY <1>0, <2>1, <2>3, <3>2 DEF OnlyStatus, Touches
    <3> QED BY <3>1, <3>2
  <2> QED BY <1>k, <2>2, <2>3
<1>7. ASSUME NEW r \in Rows, Pays(r) PROVE OneLiveRow' /\ RowsStand'
  <2>1. /\ payout[r].status = "processing" /\ payout'[r].status = "completed" /\ Touches(r)
        /\ batch'[r[1]].status = "processed" /\ OnlyStatus(r[1])
    BY <1>7, PaysShape
  <2>2. OneLiveRow'
    BY <1>a, <2>1 DEF LiveRow, Touches
  <2>3. \A q \in Rows : q # r /\ q[1] = r[1] => payout[q].status \in {"none", "reversed"}
    BY <2>1 DEF OneLiveRow, LiveRow
  <2>4. ASSUME NEW q \in Rows, Stands(batch[q[1]].status, payout[q].status)
        PROVE  Stands(batch'[q[1]].status, payout'[q].status)
    <3>1. CASE q = r
      BY <2>1, <3>1 DEF Stands
    <3>2. CASE q # r /\ q[1] = r[1]
      BY <2>1, <2>3, <3>2 DEF Stands, Touches
    <3>3. CASE q[1] # r[1]
      BY <1>0, <2>1, <2>4, <3>3 DEF OnlyStatus, Touches
    <3> QED BY <3>1, <3>2, <3>3
  <2> QED BY <1>k, <2>2, <2>4
<1>8. ASSUME NEW r \in Rows, Cancels(r) PROVE OneLiveRow' /\ RowsStand'
  <2>1. payout'[r].status = "reversed" /\ Touches(r) /\ OpenAgain /\ (Undoes(r) \/ Reversible(r))
    BY <1>8, CancelsShape
  <2>2. OneLiveRow'
    BY <1>a, <2>1 DEF LiveRow, Touches
  <2>3. payout[r].status # "none"
    <3>1. CASE Reversible(r)
      BY <3>1 DEF Reversible
    <3>2. ASSUME NEW s \in Reviewers, Rejecting(s, r) PROVE payout[r].status # "none"
      <4>1. CallOK(s)
        BY DEF CallInv, Actors
      <4> QED BY <3>2, <4>1 DEF CallOK, HasRow, Rejecting
    <3> QED BY <2>1, <3>1, <3>2 DEF Undoes
  <2>4. ASSUME NEW q \in Rows, Stands(batch[q[1]].status, payout[q].status)
        PROVE  Stands(batch'[q[1]].status, payout'[q].status)
    <3>1. \/ batch'[q[1]].status = batch[q[1]].status
          \/ batch[q[1]].status = "scheduled" /\ batch'[q[1]].status = "open"
      BY <1>0, <2>1 DEF OpenAgain
    <3>2. CASE q = r
      BY <2>1, <2>3, <2>4, <3>1, <3>2 DEF Stands
    <3>3. CASE q # r
      <4>1. payout'[q] = payout[q]
        BY <2>1, <3>3 DEF Touches
      <4> QED BY <2>4, <3>1, <4>1 DEF Stands
    <3> QED BY <3>2, <3>3
  <2> QED BY <1>k, <2>2, <2>4
<1>8a. ASSUME Reopens PROVE OneLiveRow' /\ RowsStand'
  <2>1. OpenAgain /\ UNCHANGED payout
    BY <1>8a, ReopensShape DEF Reopens
  <2>2. ASSUME NEW q \in Rows, Stands(batch[q[1]].status, payout[q].status)
        PROVE  Stands(batch'[q[1]].status, payout'[q].status)
    BY <1>0, <2>1, <2>2 DEF OpenAgain, Stands
  <2> QED BY <1>k, <1>p, <2>1, <2>2
<1>9. ASSUME NEW r \in Rows, NEW st \in PayoutStatuses, Shifts(r, st) PROVE OneLiveRow' /\ RowsStand'
  <2>1. /\ payout'[r].status = st /\ Touches(r) /\ batch' = batch
        /\ payout[r].status \in {"queued", "held", "processing", "failed"} /\ st # "completed"
    BY <1>9, ShiftsShape
  <2>2. OneLiveRow'
    BY <1>a, <2>1 DEF LiveRow, Touches
  <2>3. ASSUME NEW q \in Rows, Stands(batch[q[1]].status, payout[q].status)
        PROVE  Stands(batch'[q[1]].status, payout'[q].status)
    <3>1. CASE q = r
      BY <2>1, <2>3, <3>1 DEF Stands
    <3>2. CASE q # r
      BY <2>1, <2>3, <3>2 DEF Touches
    <3> QED BY <3>1, <3>2
  <2> QED BY <1>k, <2>2, <2>3
<1> QED BY <1>1, <1>2, <1>3, <1>5, <1>6, <1>7, <1>8, <1>8a, <1>9, StepKinds DEF Kinds, Quiet

LEMMA JournalStep ==
  ASSUME SettlementAssumption, TypeOK, JournalInv, [Next]_vars
  PROVE  JournalInv' /\ \A r \in Rows : payout[r].journal => payout'[r].journal
<1> DEFINE Onward(r) == JournalOK(r)' /\ (payout[r].journal => payout'[r].journal)
<1> SUFFICES ASSUME NEW r \in Rows PROVE Onward(r)
  BY DEF JournalInv
<1>0. JournalOK(r)
  BY DEF JournalInv
<1>k. payout'[r] = payout[r] => Onward(r)
  BY <1>0 DEF JournalOK
<1>1. ASSUME NEW q \in Rows, Creates(q) PROVE Onward(r)
  <2>1. CASE q = r
    BY <1>0, <1>1, <2>1, CreatesShape DEF JournalOK
  <2> QED BY <1>k, <1>1, <2>1, CreatesShape DEF Touches
<1>2. ASSUME NEW q \in Rows, Takes(q) PROVE Onward(r)
  <2>1. CASE q = r
    BY <1>0, <1>2, <2>1, TakesShape DEF JournalOK
  <2> QED BY <1>k, <1>2, <2>1, TakesShape DEF Touches
<1>3. ASSUME NEW q \in Rows, Pays(q) PROVE Onward(r)
  <2>1. CASE q = r
    BY <1>3, <2>1, PaysShape DEF JournalOK
  <2> QED BY <1>k, <1>3, <2>1, PaysShape DEF Touches
<1>4. ASSUME NEW q \in Rows, Cancels(q) PROVE Onward(r)
  <2>1. CASE q = r
    BY <1>4, <2>1, CancelsShape DEF JournalOK
  <2> QED BY <1>k, <1>4, <2>1, CancelsShape DEF Touches
<1>5. ASSUME NEW q \in Rows, NEW st \in PayoutStatuses, Shifts(q, st) PROVE Onward(r)
  <2>1. CASE q = r
    BY <1>0, <1>5, <2>1, ShiftsShape DEF JournalOK
  <2> QED BY <1>k, <1>5, <2>1, ShiftsShape DEF Touches
<1> QED BY <1>k, <1>1, <1>2, <1>3, <1>4, <1>5, StepKinds DEF Kinds, Quiet, Reopens

-----------------------------------------------------------------------------
(* What a session knows of its row.                                        *)

LEMMA TransfersStay ==
  ASSUME [Next]_vars
  PROVE  transferred \subseteq transferred'
<1>1. ASSUME NEW s, NEW b, CutRead(s, b) \/ RequestPayout(s, b) PROVE transferred' = transferred
  BY <1>1 DEF CutRead, RequestPayout
<1>2. ASSUME NEW s, NEW p, NEW kind, RefundRead(s, p, kind) PROVE transferred' = transferred
  BY <1>2 DEF RefundRead
<1>3. ASSUME NEW s, CutCommit(s) \/ RefundCommit(s) \/ CreatePayout(s) PROVE transferred' = transferred
  BY <1>3 DEF CutCommit, RefundCommit, CreatePayout
<1>3a. ASSUME NEW s, ReserveAllowance(s) \/ ScreenPayout(s) \/ NothingToClaim(s) PROVE transferred' = transferred
  BY <1>3a DEF ReserveAllowance, ScreenPayout, NothingToClaim
<1>4. ASSUME NEW s, Record(s) \/ UpdateRow(s) \/ Reevaluate(s) \/ RecordDecision(s) PROVE transferred' = transferred
  BY <1>4 DEF Record, UpdateRow, Reevaluate, RecordDecision
<1>4a. ASSUME NEW s, ApproveHeld(s) \/ RejectHeld(s) \/ ReleaseReservation(s) \/ ReopenBatch(s)
       PROVE  transferred' = transferred
  BY <1>4a DEF ApproveHeld, RejectHeld, ReleaseReservation, ReopenBatch
<1>5. ASSUME NEW s, NEW r, NEW held, Claim(s, held, r) PROVE transferred' = transferred
  BY <1>5 DEF Claim
<1>6. ASSUME NEW s, Answer(s) \/ Crash(s) PROVE transferred \subseteq transferred'
  BY <1>6 DEF Answer, RailAnswers, Crash
<1>7. ASSUME NEW p, ApproveRefund(p) \/ RejectRefund(p) PROVE transferred' = transferred
  BY <1>7 DEF ApproveRefund, RejectRefund
<1>8. ASSUME NEW s, NEW r, \/ RetryPayout(r) \/ ReversePayout(r) \/ RequeueStale(s, r)
                           \/ ListHeld(s, r) \/ ReadHeld(s, r)
      PROVE  transferred' = transferred
  BY <1>8 DEF RetryPayout, ReversePayout, RequeueStale, ListHeld, ReadHeld
<1>9. CASE UNCHANGED vars
  BY <1>9 DEF vars
<1> QED BY <1>1, <1>2, <1>3, <1>3a, <1>4, <1>4a, <1>5, <1>6, <1>7, <1>8, <1>9 DEF Next, Dispatch

LEMMA CallKept ==
  ASSUME SettlementAssumption, TypeOK, [Next]_vars, NEW t \in Actors, CallOK(t), session'[t] = session[t]
  PROVE  CallOK(t)'
<1>1. session[t].pc \in HasRow => session[t].row \in Rows
  BY SessionRow DEF HasRow
<1>2. "calling" \in HasRow /\ "answered" \in HasRow /\ "releasing" \in HasRow
  BY DEF HasRow
<1>a. session[t].pc = "requesting" /\ batch[session[t].batch].status # "none"
        => batch'[session[t].batch].status # "none"
  BY SessionCall, BatchStays
<1>3. session[t].pc \in HasRow =>
        /\ payout[session[t].row].status # "none" => payout'[session[t].row].status # "none"
        /\ payout[session[t].row].status = "reversed" => payout'[session[t].row].status = "reversed"
  BY <1>1, RowsOnward
<1> QED BY <1>2, <1>3, <1>a, TransfersStay DEF CallOK

LEMMA CallGoto ==
  ASSUME SettlementAssumption, TypeOK, CallInv, [Next]_vars, NEW s \in Actors,
         \A t \in Actors : t # s => session'[t] = session[t], CallOK(s)'
  PROVE  CallInv'
<1>1. ASSUME NEW t \in Actors PROVE CallOK(t)'
  <2>1. CASE t = s
    BY <2>1
  <2>2. CASE t # s
    BY <2>2, CallKept DEF CallInv
  <2> QED BY <2>1, <2>2
<1> QED BY <1>1 DEF CallInv

\* A session that holds no row knows nothing of any.
LEMMA CallFree ==
  ASSUME SettlementAssumption, TypeOK, CallInv, [Next]_vars, NEW s \in Actors, NEW state,
         Goto(s, state), state.pc \notin HasRow, state.pc # "requesting"
  PROVE  CallInv'
<1>1. session'[s] = state /\ \A t \in Actors : t # s => session'[t] = session[t]
  BY GotoShape
<1>2. CallOK(s)'
  BY <1>1 DEF CallOK, HasRow
<1> QED BY <1>1, <1>2, CallGoto

LEMMA CallStep ==
  ASSUME SettlementAssumption, TypeOK, OneLiveRow, CallInv, [Next]_vars
  PROVE  CallInv'
<1>0. /\ \A s \in Sessions : s \in Actors
      /\ \A s \in Reviewers : s \in Actors
      /\ Idle.pc \notin HasRow /\ Idle.pc # "requesting"
  BY DEF Actors, Idle, HasRow
<1>s. session' = session => CallInv'
  BY CallKept DEF CallInv
<1>1. ASSUME NEW s \in Sessions, NEW b \in Batches, CutRead(s, b) PROVE CallInv'
  <2>1. Goto(s, [pc |-> "cutting", batch |-> b, seen |-> Eligible])
    BY <1>1 DEF CutRead
  <2> QED BY <1>0, <2>1, CallFree DEF HasRow
<1>2. ASSUME NEW s \in Sessions, CutCommit(s) PROVE CallInv'
  BY <1>0, <1>2, CallFree DEF CutCommit
<1>3. ASSUME NEW s \in Sessions, NEW p \in Payments, NEW kind \in {"request", "auto"}, RefundRead(s, p, kind)
      PROVE  CallInv'
  <2>1. PICK from : Reads(s, p, kind, from)
    BY <1>3 DEF RefundRead, Reads
  <2> QED BY <1>0, <2>1, CallFree DEF Reads, HasRow
<1>3a. ASSUME NEW s \in Sessions, RefundCommit(s) PROVE CallInv'
  <2>1. Goto(s, Idle)
    BY <1>0, <1>3a, RefundEffect
  <2> QED BY <1>0, <2>1, CallFree
<1>h. ASSUME NEW s \in Actors, session[s].pc \in HasRow, NEW state, Goto(s, state), state.row = session[s].row,
             state.pc \in HasRow \ {"calling", "answered", "releasing"}
      PROVE  CallInv'
  <2>1. session[s].row \in Rows /\ CallOK(s)
    BY <1>h, SessionRow DEF CallInv
  <2>2. payout'[session[s].row].status # "none"
    BY <1>h, <2>1, RowsOnward DEF CallOK
  <2>3. session'[s] = state /\ \A t \in Actors : t # s => session'[t] = session[t]
    BY <1>h, GotoShape
  <2>4. CallOK(s)'
    BY <1>h, <2>2, <2>3 DEF CallOK, HasRow
  <2> QED BY <2>3, <2>4, CallGoto
<1>i. ASSUME NEW s \in Actors, NEW state, Goto(s, state), state = Idle PROVE CallInv'
  BY <1>0, <1>i, CallFree
<1>u. ASSUME NEW s \in Actors, session[s].pc \in HasRow, NEW from, NEW to, Updates(s, from, to) PROVE CallInv'
  <2> DEFINE state == [pc |-> "updating", row |-> session[s].row, from |-> from, to |-> to]
  <2>1. Goto(s, state) /\ state.row = session[s].row /\ state.pc \in HasRow \ {"calling", "answered", "releasing"}
    BY <1>u DEF Updates, HasRow
  <2> HIDE DEF state
  <2> QED BY <1>h, <1>u, <2>1
<1>4. ASSUME NEW s \in Sessions, CreatePayout(s) PROVE CallInv'
  <2> DEFINE b == session[s].batch
             n == session[s].amount
  <2>1. \/ Goto(s, Idle)
        \/ \E r \in Live(b) : Admit(s, r, n) /\ UNCHANGED payout
        \/ \E r \in Fresh(b) : Admit(s, r, n) /\ Fills(r, Net0(b))
    BY <1>4 DEF CreatePayout, InsertPayout, Net0, Fills
  <2>2. ASSUME NEW r \in Live(b), UNCHANGED payout PROVE r \in Rows /\ payout'[r].status # "none"
    BY <2>2 DEF Live, RowsOf
  <2>3. ASSUME NEW r \in Fresh(b), Fills(r, Net0(b)) PROVE r \in Rows /\ payout'[r].status # "none"
    <3>1. r \in Rows
      BY DEF Fresh, RowsOf
    <3> QED BY <2>3, <3>1, FillShape
  <2> HIDE DEF b, n
  <2>4. Goto(s, Idle) \/ \E r \in Rows : Admit(s, r, n) /\ payout'[r].status # "none"
    BY <2>1, <2>2, <2>3
  <2>5. ASSUME NEW r \in Rows, Admit(s, r, n), payout'[r].status # "none" PROVE CallInv'
    <3>1. /\ session'[s] = [pc |-> "admitting", row |-> r, amount |-> n]
          /\ \A t \in Actors : t # s => session'[t] = session[t]
      BY <1>0, <2>5, GotoShape DEF Admit
    <3>2. CallOK(s)'
      BY <2>5, <3>1 DEF CallOK
    <3> QED BY <1>0, <3>1, <3>2, CallGoto
  <2> QED BY <1>0, <1>i, <2>4, <2>5
<1>4a. ASSUME NEW s \in Sessions, NEW b \in Batches, RequestPayout(s, b) PROVE CallInv'
  <2> DEFINE state == [pc |-> "requesting", batch |-> b, amount |-> Net0(b)]
  <2>1. Goto(s, state) /\ batch[b].status # "none" /\ batch' = batch
    BY <1>4a DEF RequestPayout, Net0
  <2>2. state.pc = "requesting" /\ state.batch = b
    OBVIOUS
  <2> HIDE DEF state
  <2>3. session'[s] = state /\ \A t \in Actors : t # s => session'[t] = session[t]
    BY <1>0, <2>1, GotoShape
  <2>4. CallOK(s)'
    BY <2>1, <2>2, <2>3 DEF CallOK, HasRow
  <2> QED BY <1>0, <2>3, <2>4, CallGoto
<1>r. \A s, pc : [pc |-> pc, row |-> session[s].row].row = session[s].row /\ [pc |-> pc, row |-> session[s].row].pc = pc
  OBVIOUS
<1>5. ASSUME NEW s \in Sessions, ReserveAllowance(s) PROVE CallInv'
  <2>1. /\ Goto(s, Idle) \/ Goto(s, [pc |-> "screening", row |-> session[s].row])
        /\ session[s].pc = "admitting"
    BY <1>5 DEF ReserveAllowance
  <2>2. session[s].pc \in HasRow /\ "screening" \in HasRow \ {"calling", "answered", "releasing"}
    BY <2>1 DEF HasRow
  <2> QED BY <1>0, <1>h, <1>i, <1>r, <2>1, <2>2
<1>6. ASSUME NEW s \in Sessions, ScreenPayout(s) PROVE CallInv'
  <2>1. session[s].pc = "screening" /\ GoesOn(s)
    BY <1>0, <1>6, ScreenEffect
  <2>2. session[s].pc \in HasRow /\ "dispatching" \in HasRow \ {"calling", "answered", "releasing"}
    BY <2>1 DEF HasRow
  <2>3. CASE Goto(s, [pc |-> "dispatching", row |-> session[s].row])
    BY <1>0, <1>h, <1>r, <2>2, <2>3
  <2> QED BY <1>0, <1>u, <2>1, <2>2, <2>3 DEF GoesOn
<1>6a. ASSUME NEW s \in Sessions, RecordDecision(s) PROVE CallInv'
  <2>1. session[s].pc \in HasRow /\ (Updates(s, "held", "queued") \/ Updates(s, "held", "failed"))
    BY <1>0, <1>6a, DecisionEffect DEF HasRow
  <2> QED BY <1>0, <1>u, <2>1
<1>6b. ASSUME NEW s \in Reviewers, ApproveHeld(s) PROVE CallInv'
  <2>1. session[s].pc \in HasRow /\ (Goto(s, Idle) \/ Updates(s, "held", "queued"))
    BY <1>0, <1>6b, ApproveEffect DEF HasRow
  <2> QED BY <1>0, <1>i, <1>u, <2>1
<1>6c. ASSUME NEW s \in Sessions, Reevaluate(s) PROVE CallInv'
  <2>1. /\ session[s].pc = "rescreening"
        /\ \/ Goto(s, Idle)
           \/ \E d \in {"clear", "blocked"} : Goto(s, [pc |-> "deciding", row |-> session[s].row, decision |-> d])
    BY <1>0, <1>6c, ReevaluateEffect
  <2>2. session[s].pc \in HasRow /\ "deciding" \in HasRow \ {"calling", "answered", "releasing"}
    BY <2>1 DEF HasRow
  <2>3. ASSUME NEW d, Goto(s, [pc |-> "deciding", row |-> session[s].row, decision |-> d]) PROVE CallInv'
    <3> DEFINE state == [pc |-> "deciding", row |-> session[s].row, decision |-> d]
    <3>1. Goto(s, state) /\ state.row = session[s].row /\ state.pc = "deciding"
      BY <2>3
    <3> HIDE DEF state
    <3> QED BY <1>0, <1>h, <2>2, <3>1
  <2> QED BY <1>0, <1>i, <2>1, <2>3
<1>7. ASSUME NEW s \in Sessions, NEW r \in Rows, NEW held \in RowsOf(r[1]), Claim(s, held, r) PROVE CallInv'
  <2>1. /\ held = r \/ session[s] = [pc |-> "dispatching", row |-> held]
        /\ payout[r].status = "queued" /\ Goto(s, [pc |-> "calling", row |-> held, claimed |-> r])
    BY <1>7 DEF Claim
  <2>2. held \in Rows /\ held[1] = r[1]
    BY DEF RowsOf
  <2>3. ASSUME held # r PROVE payout[held].status = "reversed"
    <3>1. session[s].pc = "dispatching" /\ session[s].row = held
      BY <2>1, <2>3
    <3>2. payout[held].status # "none"
      <4>1. CallOK(s)
        BY <1>0 DEF CallInv
      <4> QED BY <3>1, <4>1 DEF CallOK, HasRow
    <3>3. LiveRow(r)
      BY <2>1 DEF LiveRow
    <3>4. ~LiveRow(held)
      BY <2>2, <2>3, <3>3 DEF OneLiveRow
    <3> QED BY <3>2, <3>4 DEF LiveRow
  <2>4. payout'[held].status # "none" /\ (held # r => payout'[held].status = "reversed")
    BY <2>1, <2>2, <2>3, RowsOnward
  <2>5. /\ session'[s] = [pc |-> "calling", row |-> held, claimed |-> r]
        /\ \A t \in Actors : t # s => session'[t] = session[t]
    BY <1>0, <2>1, GotoShape
  <2>6. CallOK(s)'
    BY <2>4, <2>5 DEF CallOK
  <2> QED BY <1>0, <2>5, <2>6, CallGoto
<1>8. ASSUME NEW s \in Sessions, Answer(s) PROVE CallInv'
  <2>1. PICK answer \in Answers, moved \in BOOLEAN : RailAnswers(s, answer, moved)
    BY <1>8 DEF Answer
  <2>2. /\ session[s].pc = "calling" /\ payout' = payout
        /\ Goto(s, [pc |-> "answered", row |-> session[s].row, answer |-> answer])
    BY <2>1 DEF RailAnswers
  <2>3. answer = "succeeded" => session[s].claimed \in transferred'
    BY <2>1 DEF RailAnswers
  <2>4. /\ payout[session[s].row].status # "none"
        /\ session[s].row = session[s].claimed \/ payout[session[s].row].status = "reversed"
    <3>1. CallOK(s)
      BY <1>0 DEF CallInv
    <3> QED BY <2>2, <3>1 DEF CallOK, HasRow
  <2>5. /\ session'[s] = [pc |-> "answered", row |-> session[s].row, answer |-> answer]
        /\ \A t \in Actors : t # s => session'[t] = session[t]
    BY <1>0, <2>2, GotoShape
  <2>6. CallOK(s)'
    BY <2>2, <2>3, <2>4, <2>5 DEF CallOK
  <2> QED BY <1>0, <2>5, <2>6, CallGoto
<1>8a. ASSUME NEW s \in Sessions, Record(s) PROVE CallInv'
  <2>1. Goto(s, Idle)
    BY <1>0, <1>8a, RecordEffect
  <2> QED BY <1>0, <2>1, CallFree
<1>8b. ASSUME NEW s \in Actors, NothingToClaim(s) \/ Crash(s) \/ UpdateRow(s) \/ ReopenBatch(s) PROVE CallInv'
  <2>1. Goto(s, Idle)
    BY <1>8b DEF NothingToClaim, Crash, UpdateRow, ReopenBatch
  <2> QED BY <1>0, <2>1, CallFree
<1>9. ASSUME NEW p \in Payments, ApproveRefund(p) \/ RejectRefund(p) PROVE CallInv'
  BY <1>9, <1>s DEF ApproveRefund, RejectRefund
<1>10. ASSUME NEW r \in Rows, NEW s, RetryPayout(r) \/ ReversePayout(r) \/ RequeueStale(s, r) PROVE CallInv'
  <2>1. session' = session
    BY <1>10 DEF RetryPayout, ReversePayout, RequeueStale
  <2> QED BY <1>s, <2>1
<1>11. ASSUME NEW s \in Actors, NEW r \in Rows, ReadHeld(s, r) \/ ListHeld(s, r) PROVE CallInv'
  <2>1. PICK pc \in {"reviewing", "rescreening"} : Goto(s, [pc |-> pc, row |-> r])
    BY <1>11 DEF ReadHeld, ListHeld
  <2>2. payout' = payout /\ payout[r].status = "held"
    BY <1>11 DEF ReadHeld, ListHeld
  <2>3. /\ session'[s] = [pc |-> pc, row |-> r]
        /\ \A t \in Actors : t # s => session'[t] = session[t]
    BY <2>1, GotoShape
  <2>4. CallOK(s)'
    BY <2>1, <2>2, <2>3 DEF CallOK
  <2> QED BY <2>3, <2>4, CallGoto
<1>12. ASSUME NEW s \in Reviewers, ReleaseReservation(s) PROVE CallInv'
  <2>1. /\ Goto(s, [pc |-> "reopening", row |-> session[s].row]) /\ session[s].pc \in HasRow
        /\ "reopening" \in HasRow \ {"calling", "answered", "releasing"}
    BY <1>12 DEF ReleaseReservation, HasRow
  <2> QED BY <1>0, <1>h, <1>r, <2>1
<1>12a. ASSUME NEW s \in Reviewers, RejectHeld(s) PROVE CallInv'
  <2> DEFINE r == session[s].row
  <2>1. /\ session[s].pc \in HasRow /\ SetStatus(r, "reversed")
        /\ Goto(s, [pc |-> "releasing", row |-> r])
    BY <1>12a DEF RejectHeld, HasRow
  <2>2. payout'[r].status = "reversed"
    BY <1>0, <2>1, SessionRow, StatusShape
  <2> HIDE DEF r
  <2>3. /\ session'[s] = [pc |-> "releasing", row |-> r]
        /\ \A t \in Actors : t # s => session'[t] = session[t]
    BY <1>0, <2>1, GotoShape
  <2>4. CallOK(s)'
    BY <2>2, <2>3 DEF CallOK
  <2> QED BY <1>0, <2>3, <2>4, CallGoto
<1>13. CASE UNCHANGED vars
  BY <1>13, <1>s DEF vars
<1> QED
  BY <1>1, <1>2, <1>3, <1>3a, <1>4, <1>4a, <1>5, <1>6, <1>6a, <1>6b, <1>6c, <1>7, <1>8, <1>8a, <1>8b, <1>9,
     <1>10, <1>11, <1>12, <1>12a, <1>13 DEF Next, Dispatch, Actors

LEMMA CompletedStep ==
  ASSUME SettlementAssumption, TypeOK, CallInv, CompletedWasTransferred, [Next]_vars
  PROVE  CompletedWasTransferred'
<1> SUFFICES ASSUME NEW r \in Rows, payout'[r].status = "completed" PROVE r \in transferred
  BY TransfersStay DEF CompletedWasTransferred
<1>0. payout[r].status = "completed" => r \in transferred
  BY DEF CompletedWasTransferred
<1>1. CASE payout' = payout
  BY <1>0, <1>1
<1>2. ASSUME NEW q \in Rows, Creates(q) PROVE r \in transferred
  BY <1>0, <1>2, CreatesShape DEF Touches
<1>3. ASSUME NEW q \in Rows, Takes(q) PROVE r \in transferred
  BY <1>0, <1>3, TakesShape DEF Touches
<1>4. ASSUME NEW q \in Rows, Pays(q) PROVE r \in transferred
  <2>1. q # r => payout'[r] = payout[r]
    BY <1>4, PaysShape DEF Touches
  <2>2. PICK s \in Sessions : session[s].pc = "answered" /\ session[s].row = q /\ session[s].answer = "succeeded"
    BY <1>4 DEF Pays
  <2>3. q \in transferred \/ payout[q].status = "reversed"
    <3>1. CallOK(s)
      BY DEF CallInv, Actors
    <3> QED BY <2>2, <3>1 DEF CallOK
  <2>4. payout[q].status = "processing"
    BY <1>4, PaysShape
  <2> QED BY <1>0, <2>1, <2>3, <2>4
<1>5. ASSUME NEW q \in Rows, Cancels(q) PROVE r \in transferred
  BY <1>0, <1>5, CancelsShape DEF Touches
<1>6. ASSUME NEW q \in Rows, NEW st \in PayoutStatuses, Shifts(q, st) PROVE r \in transferred
  BY <1>0, <1>6, ShiftsShape DEF Touches
<1> QED BY <1>1, <1>2, <1>3, <1>4, <1>5, <1>6, StepKinds DEF Kinds, Quiet, Reopens

-----------------------------------------------------------------------------
(* The inductive invariant and the theorems.                               *)

Inv == /\ TypeOK /\ Locks /\ LocksApart /\ BooksBalance
       /\ OneLiveRow /\ RowsStand /\ CallInv /\ JournalInv /\ CompletedWasTransferred

LEMMA InitType == ASSUME SettlementAssumption, Init PROVE TypeOK
<1>1. KoboOf(Payments) \in Int
  BY KoboSums
<1>2. books \in [payable : Int, wallet : Int, fees : Int, bank : Int]
  BY <1>1 DEF Init
<1>3. session \in [Sessions \cup Reviewers -> SessionStates]
  BY DEF Init, SessionStates
<1>4. batch \in [Batches -> [status : BatchStatuses, lines : SUBSET Payments, total : Nat, fee : Nat]]
  BY DEF Init, BatchStatuses
<1>5. payout \in [Rows -> [status : PayoutStatuses, amount : Nat, attempts : 0 .. PayoutMaxAttempts,
                           journal : BOOLEAN]]
  BY DEF Init, PayoutStatuses, SettlementAssumption
<1>6. /\ refund \in [Payments -> RefundStates] /\ reserved \in [Batches -> Nat]
      /\ screening \in [Batches -> Decisions] /\ transferred \subseteq Rows /\ crashes \in 0 .. MaxCrashes
  BY DEF Init, RefundStates, Decisions, SettlementAssumption
<1> QED BY <1>2, <1>3, <1>4, <1>5, <1>6 DEF TypeOK

LEMMA InitBooks == ASSUME SettlementAssumption, Init PROVE BooksBalance
<1>1. RefundedSet = {}
  BY DEF Init, RefundedSet, Refunded
<1>2. KoboOf(RefundedSet) = 0 /\ KoboOf(Payments) \in Nat
  BY <1>1, KoboSums, SumEmpty DEF KoboOf
<1>3. books.payable = KoboOf(Payments) /\ books.wallet = 0 /\ books.fees = 0 /\ books.bank = 0
  BY DEF Init
<1> QED BY <1>2, <1>3 DEF BooksBalance, RefundedSet

LEMMA InitInv == ASSUME SettlementAssumption, Init PROVE Inv
<1>0. \A r \in Rows : payout[r].status = "none" /\ ~payout[r].journal
  BY DEF Init
<1>1. \A s \in Actors : session[s].pc = "idle"
  BY DEF Init, Actors, Idle
<1>2. Locks /\ LocksApart /\ CallInv
  <2>1. \A s \in Sessions : ~Refunding(s)
    BY <1>1 DEF Refunding, Actors
  <2>2. Locks /\ LocksApart
    BY <2>1 DEF Locks, LocksApart
  <2>3. CallInv
    BY <1>1 DEF CallInv, CallOK, HasRow, Actors
  <2> QED BY <2>2, <2>3
<1>3. OneLiveRow /\ CompletedWasTransferred
  BY <1>0 DEF OneLiveRow, LiveRow, CompletedWasTransferred
<1>4. RowsStand /\ JournalInv
  BY <1>0 DEF RowsStand, Stands, JournalInv, JournalOK
<1> QED BY <1>2, <1>3, <1>4, InitType, InitBooks DEF Inv

LEMMA NextInv == ASSUME SettlementAssumption, Inv, [Next]_vars PROVE Inv'
<1> USE DEF Inv
<1>1. TypeOK'
  BY TypeStep
<1>2. Locks' /\ LocksApart' /\ BooksBalance'
  BY BooksStep
<1>3. OneLiveRow' /\ RowsStand'
  BY RowsStep
<1>4. CallInv'
  BY CallStep
<1>5. CompletedWasTransferred'
  BY CompletedStep
<1>6. JournalInv'
  BY JournalStep
<1> QED BY <1>1, <1>2, <1>3, <1>4, <1>5, <1>6

LEMMA Invariance == SettlementAssumption => (Spec => []Inv)
<1> SUFFICES ASSUME SettlementAssumption PROVE Spec => []Inv
  OBVIOUS
<1>1. Init => Inv
  BY InitInv
<1>2. Inv /\ [Next]_vars => Inv'
  BY NextInv
<1> QED BY <1>1, <1>2, PTL DEF Spec

\* Every variable of the settlement has its type in every behaviour.
THEOREM SettlementTypeCorrect == SettlementAssumption => (Spec => []TypeOK)
<1>1. Inv => TypeOK
  BY DEF Inv
<1> QED BY <1>1, Invariance, PTL

\* However cuts, refunds, payouts, rejections and crashes interleave, the
\* ledger accounts for every payment once: payable, wallet, fee, bank or
\* refunded.
THEOREM BooksAlwaysBalance == SettlementAssumption => (Spec => []BooksBalance)
<1>1. Inv => BooksBalance
  BY DEF Inv
<1> QED BY <1>1, Invariance, PTL

\* A payout recorded as completed was executed by the bank rail, however late
\* the answer and however often the row was requeued or claimed for another.
THEOREM CompletedPayoutsWereTransferred == SettlementAssumption => (Spec => []CompletedWasTransferred)
<1>1. Inv => CompletedWasTransferred
  BY DEF Inv
<1> QED BY <1>1, Invariance, PTL

\* The claims, cancellations and reopenings of a batch leave it at most one
\* payout row that is not reversed.
THEOREM OneLivePayoutPerBatch == SettlementAssumption => (Spec => []OneLiveRow)
<1>1. Inv => OneLiveRow
  BY DEF Inv
<1> QED BY <1>1, Invariance, PTL

-----------------------------------------------------------------------------
(* Who moves in a step.                                                    *)

Alone(s) == \A t \in Actors : t # s => session'[t] = session[t]

LEMMA GotoAlone ==
  ASSUME TypeOK, NEW s \in Actors, NEW state, Goto(s, state)
  PROVE  Alone(s) /\ session'[s] = state
BY GotoShape DEF Alone

\* In a step one session at most moves; it does not start a refund, or it is the
\* step in which it reads what it refunds.
SessionMoves ==
  \/ session' = session
  \/ \E s \in Sessions, p \in Payments, kind \in {"request", "auto"} : RefundRead(s, p, kind)
  \/ \E s \in Actors : Alone(s) /\ session'[s].pc # "refunding"

LEMMA SessionKinds ==
  ASSUME TypeOK, [Next]_vars
  PROVE  SessionMoves
<1>0. /\ \A s \in Sessions : s \in Actors
      /\ \A s \in Reviewers : s \in Actors
      /\ Idle.pc # "refunding"
  BY DEF Actors, Idle
<1>1. ASSUME NEW s \in Actors, NEW state, Goto(s, state), state.pc # "refunding" PROVE SessionMoves
  BY <1>1, GotoAlone DEF SessionMoves
<1>i. ASSUME NEW s \in Actors, Goto(s, Idle) PROVE SessionMoves
  BY <1>0, <1>1, <1>i
<1>p. ASSUME NEW s \in Actors, NEW pc, pc # "refunding", NEW r, Goto(s, [pc |-> pc, row |-> r]) PROVE SessionMoves
  <2>1. [pc |-> pc, row |-> r].pc # "refunding"
    BY <1>p
  <2> QED BY <1>1, <1>p, <2>1
<1>u. ASSUME NEW s \in Actors, NEW from, NEW to, Updates(s, from, to) PROVE SessionMoves
  <2>1. [pc |-> "updating", row |-> session[s].row, from |-> from, to |-> to].pc # "refunding"
    OBVIOUS
  <2> QED BY <1>1, <1>u, <2>1 DEF Updates
<1>2. ASSUME NEW s \in Sessions, NEW b \in Batches, CutRead(s, b) PROVE SessionMoves
  <2>1. Goto(s, [pc |-> "cutting", batch |-> b, seen |-> Eligible])
    BY <1>2 DEF CutRead
  <2> QED BY <1>0, <1>1, <2>1
<1>2a. ASSUME NEW s \in Sessions, NEW b \in Batches, RequestPayout(s, b) PROVE SessionMoves
  <2>1. Goto(s, [pc |-> "requesting", batch |-> b, amount |-> batch[b].total - batch[b].fee])
    BY <1>2a DEF RequestPayout
  <2> QED BY <1>0, <1>1, <2>1
<1>3. ASSUME NEW s \in Sessions, CreatePayout(s) PROVE SessionMoves
  <2>1. Goto(s, Idle) \/ \E r : Goto(s, [pc |-> "admitting", row |-> r, amount |-> session[s].amount])
    BY <1>3 DEF CreatePayout, InsertPayout, Admit
  <2> QED BY <1>0, <1>1, <1>i, <2>1
<1>4. ASSUME NEW s \in Sessions, CutCommit(s) PROVE SessionMoves
  BY <1>0, <1>i, <1>4 DEF CutCommit
<1>5. ASSUME NEW s \in Sessions, RefundCommit(s) \/ Record(s) PROVE SessionMoves
  <2>1. Goto(s, Idle)
    BY <1>0, <1>5, RefundEffect, RecordEffect
  <2> QED BY <1>0, <1>i, <2>1
<1>6. ASSUME NEW s \in Actors, NothingToClaim(s) \/ Crash(s) \/ UpdateRow(s) \/ ReopenBatch(s) PROVE SessionMoves
  <2>1. Goto(s, Idle)
    BY <1>6 DEF NothingToClaim, Crash, UpdateRow, ReopenBatch
  <2> QED BY <1>i, <2>1
<1>7. ASSUME NEW s \in Sessions, ReserveAllowance(s) PROVE SessionMoves
  <2>1. Goto(s, Idle) \/ Goto(s, [pc |-> "screening", row |-> session[s].row])
    BY <1>7 DEF ReserveAllowance
  <2> QED BY <1>0, <1>i, <1>p, <2>1
<1>8. ASSUME NEW s \in Sessions, ScreenPayout(s) PROVE SessionMoves
  <2>1. GoesOn(s)
    BY <1>0, <1>8, ScreenEffect
  <2>2. CASE Goto(s, [pc |-> "dispatching", row |-> session[s].row])
    BY <1>0, <1>p, <2>2
  <2> QED BY <1>0, <1>u, <2>1, <2>2 DEF GoesOn
<1>8a. ASSUME NEW s \in Sessions, RecordDecision(s) PROVE SessionMoves
  <2>1. Updates(s, "held", "queued") \/ Updates(s, "held", "failed")
    BY <1>0, <1>8a, DecisionEffect
  <2> QED BY <1>0, <1>u, <2>1
<1>8b. ASSUME NEW s \in Reviewers, ApproveHeld(s) PROVE SessionMoves
  <2>1. Goto(s, Idle) \/ Updates(s, "held", "queued")
    BY <1>0, <1>8b, ApproveEffect
  <2> QED BY <1>0, <1>i, <1>u, <2>1
<1>8c. ASSUME NEW s \in Sessions, Reevaluate(s) PROVE SessionMoves
  <2>1. \/ Goto(s, Idle)
        \/ \E d \in {"clear", "blocked"} : Goto(s, [pc |-> "deciding", row |-> session[s].row, decision |-> d])
    BY <1>0, <1>8c, ReevaluateEffect
  <2> QED BY <1>0, <1>1, <1>i, <2>1
<1>9. ASSUME NEW s \in Sessions, NEW r \in Rows, NEW held \in RowsOf(r[1]), Claim(s, held, r) PROVE SessionMoves
  <2>1. Goto(s, [pc |-> "calling", row |-> held, claimed |-> r])
    BY <1>9 DEF Claim
  <2> QED BY <1>0, <1>1, <2>1
<1>10. ASSUME NEW s \in Sessions, Answer(s) PROVE SessionMoves
  <2>1. PICK answer \in Answers, moved \in BOOLEAN : RailAnswers(s, answer, moved)
    BY <1>10 DEF Answer
  <2>2. Goto(s, [pc |-> "answered", row |-> session[s].row, answer |-> answer])
    BY <2>1 DEF RailAnswers
  <2> QED BY <1>0, <1>1, <2>2
<1>11. ASSUME NEW s \in Actors, NEW r \in Rows, ReadHeld(s, r) \/ ListHeld(s, r) PROVE SessionMoves
  <2>1. Goto(s, [pc |-> "reviewing", row |-> r]) \/ Goto(s, [pc |-> "rescreening", row |-> r])
    BY <1>11 DEF ReadHeld, ListHeld
  <2> QED BY <1>p, <2>1
<1>12. ASSUME NEW s \in Reviewers, RejectHeld(s) \/ ReleaseReservation(s) PROVE SessionMoves
  <2>1. \/ Goto(s, [pc |-> "releasing", row |-> session[s].row])
        \/ Goto(s, [pc |-> "reopening", row |-> session[s].row])
    BY <1>12 DEF RejectHeld, ReleaseReservation
  <2> QED BY <1>0, <1>p, <2>1
<1>13. ASSUME NEW p \in Payments, ApproveRefund(p) \/ RejectRefund(p) PROVE SessionMoves
  BY <1>13 DEF ApproveRefund, RejectRefund, SessionMoves
<1>14. ASSUME NEW r \in Rows, NEW s, RetryPayout(r) \/ ReversePayout(r) \/ RequeueStale(s, r) PROVE SessionMoves
  BY <1>14 DEF RetryPayout, ReversePayout, RequeueStale, SessionMoves
<1>16. ASSUME NEW s \in Sessions, NEW p \in Payments, NEW kind \in {"request", "auto"}, RefundRead(s, p, kind)
       PROVE  SessionMoves
  BY <1>16 DEF SessionMoves
<1>17. CASE UNCHANGED vars
  BY <1>17 DEF vars, SessionMoves
<1> QED
  BY <1>2, <1>2a, <1>3, <1>4, <1>5, <1>6, <1>7, <1>8, <1>8a, <1>8b, <1>8c, <1>9, <1>10, <1>11, <1>12, <1>13,
     <1>14, <1>16, <1>17 DEF Next, Dispatch, Actors

-----------------------------------------------------------------------------
(* The wallet.  A credit is what the cut of a batch brought to the wallet; *)
(* the wallet holds the credits less the payouts with a ledger journal.    *)

Paid  == {r \in Rows : payout[r].journal}
Spent == SumFunctionOnSet(AmountOfRow, Paid)
WalletIs(credit) == books.wallet + Spent = SumFunctionOnSet(credit, Batches)
LinesFit(n, b) == /\ batch[b].total <= n + batch[b].fee
                  /\ KoboOf(batch[b].lines) <= n + batch[b].fee
LinesCovered(credit) == \A b \in Batches : batch[b].status # "none" => LinesFit(credit[b], b)
UncutIsFree(credit)  == \A b \in Batches : batch[b].status = "none" => credit[b] = 0
RowsCovered(credit)  == \A r \in Rows : LiveRow(r) => payout[r].amount <= credit[r[1]]
SeenCovered(credit) ==
  \A s \in Sessions : Refunding(s) =>
    \A b \in session[s].from : KoboOf(session[s].seen) <= credit[b] + batch[b].fee
Covers(credit) == /\ WalletIs(credit) /\ UncutIsFree(credit)
                  /\ LinesCovered(credit) /\ RowsCovered(credit) /\ SeenCovered(credit)
CreditInv == \E credit \in [Batches -> Nat] : Covers(credit)

LEMMA RowsFinite ==
  ASSUME SettlementAssumption PROVE IsFiniteSet(Rows)
<1>1. IsFiniteSet(Batches) /\ 1 \in Int /\ MaxPayouts \in Int
  BY DEF SettlementAssumption
<1>2. IsFiniteSet(1 .. MaxPayouts)
  BY <1>1, FS_Interval
<1>3. IsFiniteSet(Batches \X (1 .. MaxPayouts))
  BY <1>1, <1>2, FS_Product
<1> QED BY <1>3 DEF Rows

LEMMA SpentSums ==
  ASSUME SettlementAssumption, TypeOK
  PROVE  /\ Spent \in Nat /\ IsFiniteSet(Paid)
         /\ \A r \in Rows : AmountOfRow[r] = payout[r].amount /\ payout[r].amount \in Nat
<1>1. IsFiniteSet(Paid)
  BY RowsFinite, FS_Subset DEF Paid
<1>2. \A r \in Rows : AmountOfRow[r] = payout[r].amount /\ payout[r].amount \in Nat
  BY DEF AmountOfRow, TypeOK
<1>3. \A r \in Paid : AmountOfRow[r] \in Nat
  BY <1>2 DEF Paid
<1> QED BY <1>1, <1>2, <1>3, SumNat DEF Spent

\* What is paid keeps its journal and its amount.
PaidStays ==
  \A r \in Rows : /\ payout'[r].journal = payout[r].journal
                  /\ payout[r].journal => payout'[r].amount = payout[r].amount

LEMMA SpentStays ==
  ASSUME SettlementAssumption, TypeOK, PaidStays
  PROVE  Spent' = Spent
<1>1. Paid' = Paid /\ Paid \subseteq Rows
  BY DEF Paid, PaidStays
<1>2. \A r \in Paid : AmountOfRow[r] \in Int /\ AmountOfRow'[r] = AmountOfRow[r]
  BY SpentSums DEF Paid, PaidStays, AmountOfRow
<1>3. SumFunctionOnSet(AmountOfRow, Paid) = SumFunctionOnSet(AmountOfRow', Paid)
  BY <1>2, SpentSums, SumAgree
<1> QED BY <1>1, <1>3 DEF Spent

LEMMA SpentGrows ==
  ASSUME SettlementAssumption, TypeOK, NEW q \in Rows, Touches(q), ~payout[q].journal, payout'[q].journal,
         payout'[q].amount = payout[q].amount
  PROVE  Spent' = payout[q].amount + Spent
<1>1. Paid' = Paid \cup {q} /\ q \notin Paid /\ Paid \subseteq Rows
  BY DEF Paid, Touches
<1>2. \A r \in Rows : AmountOfRow'[r] = AmountOfRow[r] /\ AmountOfRow[r] \in Int
  BY SpentSums DEF Touches, AmountOfRow
<1>3. SumFunctionOnSet(AmountOfRow', Paid \cup {q}) = AmountOfRow'[q] + SumFunctionOnSet(AmountOfRow', Paid)
  <2> DEFINE after == AmountOfRow'
             more  == Paid \cup {q}
  <2>1. IsFiniteSet(more) /\ q \in more /\ more \ {q} = Paid
    BY <1>1, SpentSums, FS_AddElement
  <2>2. \A e \in more : after[e] \in Int
    BY <1>1, <1>2
  <2> HIDE DEF after, more
  <2>3. SumFunctionOnSet(after, more) = after[q] + SumFunctionOnSet(after, more \ {q})
    BY <2>1, <2>2, SumRemove
  <2>4. SumFunctionOnSet(after, more) = after[q] + SumFunctionOnSet(after, Paid)
    BY <2>1, <2>3
  <2> QED BY <2>4 DEF after, more
<1>4. SumFunctionOnSet(AmountOfRow, Paid) = SumFunctionOnSet(AmountOfRow', Paid)
  BY <1>1, <1>2, SpentSums, SumAgree
<1>5. AmountOfRow'[q] = payout[q].amount
  BY <1>2, SpentSums
<1> QED BY <1>1, <1>3, <1>4, <1>5 DEF Spent

\* No batch's figures change, and no batch is new.
FiguresStay ==
  \A b \in Batches : batch'[b].status # "none" =>
    /\ batch[b].status # "none" /\ batch'[b].fee = batch[b].fee
    /\ batch'[b].total = batch[b].total /\ batch'[b].lines = batch[b].lines

LEMMA LinesKept ==
  ASSUME NEW c, LinesCovered(c), FiguresStay
  PROVE  LinesCovered(c)'
<1> SUFFICES ASSUME NEW b \in Batches, batch'[b].status # "none"
             PROVE  /\ batch'[b].total <= c[b] + batch'[b].fee
                    /\ KoboOf(batch'[b].lines) <= c[b] + batch'[b].fee
  BY DEF LinesCovered, LinesFit
<1>0. /\ batch[b].status # "none" /\ batch'[b].fee = batch[b].fee
      /\ batch'[b].total = batch[b].total /\ batch'[b].lines = batch[b].lines
  BY DEF FiguresStay
<1>1. batch[b].total <= c[b] + batch[b].fee /\ KoboOf(batch[b].lines) <= c[b] + batch[b].fee
  BY <1>0 DEF LinesCovered, LinesFit
<1> QED BY <1>0, <1>1

\* A refund's journals leave the merchant's wallet alone.
LEMMA WalletApart ==
  ASSUME NEW p \in Payments, books \in BooksRecords, ReverseLedger(p)
  PROVE  books'.wallet = books.wallet
BY DEF ReverseLedger, BooksRecords

\* What a refund in progress has read of its batch stays covered.
LEMMA SeenStep ==
  ASSUME SettlementAssumption, TypeOK, Locks, [Next]_vars, NEW c \in [Batches -> Nat], NEW d \in [Batches -> Nat],
         LinesCovered(c), SeenCovered(c),
         \A b \in Batches : batch[b].status # "none" => d[b] = c[b] /\ batch'[b].fee = batch[b].fee
  PROVE  SeenCovered(d)'
<1>1. ASSUME NEW s \in Sessions, Refunding(s), session'[s] = session[s], NEW b \in session[s].from
      PROVE  KoboOf(session[s].seen) <= d[b] + batch'[b].fee
  <2>1. b \in Batches /\ batch[b].status # "none"
    <3>1. session[s].from \in SUBSET Batches
      BY <1>1, SessionRefund DEF Refunding, Actors
    <3>2. \A a \in session[s].from : batch[a].status # "none"
      BY <1>1 DEF Locks
    <3> QED BY <3>1, <3>2
  <2> QED BY <1>1, <2>1 DEF SeenCovered
<1>2. ASSUME NEW s \in Sessions, NEW p \in Payments, NEW kind \in {"request", "auto"}, RefundRead(s, p, kind),
             NEW b \in session'[s].from
      PROVE  KoboOf(session'[s].seen) <= d[b] + batch'[b].fee
  <2>1. PICK from \in BatchOf(p) : Reads(s, p, kind, from) /\ Refundable(p, from)
    BY <1>2 DEF RefundRead, Reads
  <2>2. session'[s].from = from /\ session'[s].seen = LinesOf(from)
    BY <2>1, GotoShape DEF Reads, Actors
  <2>3. from = {b} /\ b \in Batches
    BY <1>2, <2>1, <2>2 DEF BatchOf
  <2>4. LinesOf(from) = batch[b].lines /\ batch[b].status # "none"
    BY <2>1, <2>3 DEF LinesOf, Refundable
  <2> QED BY <2>2, <2>3, <2>4 DEF LinesCovered, LinesFit
<1>3. ASSUME NEW s \in Sessions, Refunding(s)'
      PROVE  \/ Refunding(s) /\ session'[s] = session[s]
             \/ \E p \in Payments, kind \in {"request", "auto"} : RefundRead(s, p, kind)
  <2>1. s \in Actors /\ s \notin Reviewers
    BY DEF Actors, SettlementAssumption
  <2>2. ASSUME NEW t \in Sessions, NEW p \in Payments, NEW kind \in {"request", "auto"}, RefundRead(t, p, kind)
        PROVE  t = s \/ session'[s] = session[s]
    <3>1. PICK from : Reads(t, p, kind, from)
      BY <2>2 DEF RefundRead, Reads
    <3> QED BY <2>1, <3>1, GotoShape DEF Reads, Actors
  <2>3. \/ session'[s] = session[s]
        \/ \E p \in Payments, kind \in {"request", "auto"} : RefundRead(s, p, kind)
    <3>1. ASSUME NEW t \in Actors, Alone(t), session'[t].pc # "refunding" PROVE session'[s] = session[s]
      BY <1>3, <2>1, <3>1 DEF Alone, Refunding
    <3> QED BY <2>2, <3>1, SessionKinds DEF SessionMoves
  <2> QED BY <1>3, <2>3 DEF Refunding
<1>4. ASSUME NEW s \in Sessions, Refunding(s)', NEW b \in session'[s].from
      PROVE  KoboOf(session'[s].seen) <= d[b] + batch'[b].fee
  <2>1. CASE Refunding(s) /\ session'[s] = session[s]
    BY <1>1, <1>4, <2>1
  <2>2. ASSUME NEW p \in Payments, NEW kind \in {"request", "auto"}, RefundRead(s, p, kind)
        PROVE  KoboOf(session'[s].seen) <= d[b] + batch'[b].fee
    BY <1>2, <1>4, <2>2
  <2> QED BY <1>3, <1>4, <2>1, <2>2
<1> QED BY <1>4 DEF SeenCovered

LEMMA RestShape ==
  ASSUME NEW s, NEW b
  PROVE  Rest(s, b) \subseteq batch[b].lines \/ Rest(s, b) \subseteq session[s].seen
<1>1. CASE session[s].kind = "auto"
  <2>1. Rest(s, b) = batch[b].lines \ {Line(s)}
    BY <1>1 DEF Rest
  <2> QED BY <2>1
<1>2. CASE session[s].kind # "auto"
  <2>1. Rest(s, b) = session[s].seen \ {Line(s)}
    BY <1>2 DEF Rest
  <2> QED BY <2>1
<1> QED BY <1>1, <1>2

Shrinks(s, b) ==
  /\ batch'[b].status = batch[b].status /\ batch'[b].fee = batch[b].fee
  /\ batch'[b].lines \subseteq batch[b].lines
  /\ b \notin session[s].from => batch'[b] = batch[b]
  /\ b \in session[s].from => batch'[b].total = KoboOf(Rest(s, b))

LEMMA LeavesShrink ==
  ASSUME SettlementAssumption, TypeOK, NEW s \in Actors, session[s].pc = "refunding", LeavesBatch(s),
         NEW b \in Batches
  PROVE  Shrinks(s, b)
BY LeavesEach DEF Shrinks

\* A refund's new total and lines stay covered, by the lines or by what it read.
LEMMA LeavesFit ==
  ASSUME SettlementAssumption, TypeOK, NEW s \in Actors, session[s].pc = "refunding", LeavesBatch(s),
         NEW b \in Batches, NEW n \in Nat, LinesFit(n, b),
         b \in session[s].from => KoboOf(session[s].seen) <= n + batch[b].fee
  PROVE  LinesFit(n, b)'
<1>a. Shrinks(s, b)
  BY LeavesShrink
<1>1. /\ batch'[b].status = batch[b].status /\ batch'[b].fee = batch[b].fee
      /\ batch'[b].lines \subseteq batch[b].lines
      /\ b \notin session[s].from => batch'[b] = batch[b]
      /\ b \in session[s].from => batch'[b].total = KoboOf(Rest(s, b))
  BY <1>a DEF Shrinks
<1> DEFINE old == KoboOf(batch[b].lines)
           new == KoboOf(batch'[b].lines)
           rest == KoboOf(Rest(s, b))
           seen == KoboOf(session[s].seen)
           bound == n + batch[b].fee
<1>2. bound \in Nat
  BY DEF TypeOK
<1>3. batch[b].lines \in SUBSET Payments /\ session[s].seen \in SUBSET Payments
  <2>1. batch[b].lines \in SUBSET Payments
    BY DEF TypeOK
  <2> QED BY <2>1, SessionRefund
<1>4. old \in Nat /\ new \in Nat /\ new <= old
  BY <1>1, <1>3, KoboSums
<1>5. rest \in Nat /\ seen \in Nat /\ (rest <= old \/ rest <= seen)
  <2>1. Rest(s, b) \subseteq batch[b].lines \/ Rest(s, b) \subseteq session[s].seen
    BY RestShape
  <2> QED BY <1>3, <2>1, KoboSums
<1>6. old <= bound /\ batch[b].total <= bound
  BY DEF LinesFit
<1>7. b \in session[s].from => seen <= bound
  OBVIOUS
<1> HIDE DEF old, new, rest, seen, bound
<1>8. new <= bound
  BY <1>2, <1>4, <1>6
<1>9. b \in session[s].from => rest <= bound
  <2>1. ASSUME seen <= bound PROVE rest <= bound
    <3>1. old \in Nat /\ rest \in Nat /\ seen \in Nat /\ bound \in Nat
      BY <1>2, <1>4, <1>5
    <3> QED BY <1>5, <1>6, <2>1, <3>1
  <2> QED BY <1>7, <2>1
<1>10. batch'[b].total <= bound
  <2>1. CASE b \in session[s].from
    BY <1>1, <1>9, <2>1 DEF rest
  <2>2. CASE b \notin session[s].from
    BY <1>1, <1>6, <2>2
  <2> QED BY <2>1, <2>2
<1>11. batch'[b].total <= bound /\ new <= bound /\ bound = n + batch'[b].fee
  BY <1>1, <1>8, <1>10 DEF bound
<1> QED BY <1>11 DEF new, LinesFit

LEMMA CreditStep ==
  ASSUME SettlementAssumption, TypeOK, Locks, OneLiveRow, RowsStand, JournalInv, CallInv, CreditInv, [Next]_vars
  PROVE  CreditInv'
<1>1. PICK c \in [Batches -> Nat] : Covers(c)
  BY DEF CreditInv
<1>0. /\ \A r \in Rows : r[1] \in Batches /\ payout[r].amount \in Nat
      /\ \A s \in Sessions : s \in Actors
      /\ \A b \in Batches : batch[b].total \in Nat /\ batch[b].fee \in Nat /\ batch[b].lines \in SUBSET Payments
      /\ books \in BooksRecords
  BY RowShape DEF Actors, TypeOK, BooksRecords
<1>a. /\ LinesCovered(c) /\ RowsCovered(c) /\ SeenCovered(c) /\ UncutIsFree(c)
      /\ books.wallet \in Int
  BY <1>0, <1>1 DEF Covers, BooksRecords
<1>b. ASSUME NEW d \in [Batches -> Nat], Covers(d)' PROVE CreditInv'
  BY <1>b DEF CreditInv
<1>v. books.wallet + Spent = SumFunctionOnSet(c, Batches) /\ Spent \in Nat
  BY <1>1, SpentSums DEF Covers, WalletIs
<1>x. ASSUME books'.wallet = books.wallet, Spent' = Spent PROVE WalletIs(c)'
  BY <1>v, <1>x DEF WalletIs
\* The batches keep their figures and the rows what they paid.
<1>m. ASSUME WalletIs(c)', FiguresStay, RowsCovered(c)' PROVE CreditInv'
  <2>1. SeenCovered(c)'
    <3>1. \A b \in Batches : batch[b].status # "none" => c[b] = c[b] /\ batch'[b].fee = batch[b].fee
      BY <1>m, BatchStays DEF FiguresStay
    <3> QED BY <1>a, <3>1, SeenStep
  <2>2. LinesCovered(c)'
    BY <1>a, <1>m, LinesKept
  <2>3. UncutIsFree(c)'
    BY <1>a, BatchStays DEF UncutIsFree
  <2>4. Covers(c)'
    BY <1>m, <2>1, <2>2, <2>3 DEF Covers
  <2> QED BY <1>b, <2>4
<1>k. ASSUME books'.wallet = books.wallet, FiguresStay, PaidStays, RowsCovered(c)' PROVE CreditInv'
  BY <1>k, <1>m, <1>x, SpentStays
<1>r. UNCHANGED payout => PaidStays /\ \A d \in [Batches -> Nat] : RowsCovered(d) => RowsCovered(d)'
  BY DEF RowsCovered, LiveRow, PaidStays
<1>f. (\A b \in Batches : /\ batch'[b].lines = batch[b].lines /\ batch'[b].total = batch[b].total
                          /\ batch'[b].fee = batch[b].fee
                          /\ batch'[b].status # "none" => batch[b].status # "none") => FiguresStay
  BY DEF FiguresStay
<1>2. CASE UNCHANGED <<payout, batch>> /\ books'.wallet = books.wallet
  BY <1>2, <1>a, <1>f, <1>k, <1>r
<1>3. ASSUME UNCHANGED payout, NEW s \in Sessions, CutCommit(s) PROVE CreditInv'
  <2>1. CASE UNCHANGED <<batch, books>>
    BY <1>2, <1>3, <2>1
  <2>2. ASSUME NEW b \in Batches, NEW lines \in SUBSET Payments, batch[b].status = "none",
               Opens(b, lines), Credit(KoboOf(lines))
        PROVE  CreditInv'
    <3> DEFINE n == KoboOf(lines)
               d == [c EXCEPT ![b] = Net(n)]
    <3>1. n \in Nat
      BY KoboSums
    <3> HIDE DEF n
    <3>2. Net(n) \in Nat /\ Fee(n) \in Nat /\ Net(n) + Fee(n) = n
      <4>1. FeeSplits(n)
        BY <3>1, FeeBounds
      <4> QED BY <4>1 DEF FeeSplits
    <3>3. d \in [Batches -> Nat] /\ d[b] = Net(n) /\ \A a \in Batches : a # b => d[a] = c[a]
      BY <3>2
    <3> HIDE DEF d
    <3>4. /\ batch'[b].status = "open" /\ batch'[b].lines = lines
          /\ batch'[b].total = n /\ batch'[b].fee = Fee(n)
          /\ \A a \in Batches : a # b => batch'[a] = batch[a]
      BY <2>2, OpensShape DEF n
    <3>5. books'.wallet = books.wallet + Net(n)
      BY <1>0, <2>2, <3>1, CreditShape DEF n
    <3>6. WalletIs(d)'
      <4> DEFINE rest == Batches \ {b}
      <4>1. IsFiniteSet(Batches) /\ IsFiniteSet(rest)
        BY FS_Subset DEF SettlementAssumption
      <4>2. SumFunctionOnSet(c, Batches) = c[b] + SumFunctionOnSet(c, rest)
        BY <4>1, SumRemove
      <4>3. SumFunctionOnSet(d, Batches) = d[b] + SumFunctionOnSet(d, rest)
        BY <3>3, <4>1, SumRemove
      <4>4. SumFunctionOnSet(c, rest) = SumFunctionOnSet(d, rest) /\ SumFunctionOnSet(c, rest) \in Nat
        BY <3>3, <4>1, SumAgree, SumNat
      <4>5. c[b] = 0
        BY <1>a, <2>2 DEF UncutIsFree
      <4>6. Spent' = Spent
        BY <1>3, <1>r, SpentStays
      <4> HIDE DEF rest
      <4>7. books'.wallet + Spent' = SumFunctionOnSet(d, Batches)
        BY <1>a, <1>v, <3>2, <3>3, <3>5, <4>2, <4>3, <4>4, <4>5, <4>6
      <4> QED BY <4>7 DEF WalletIs
    <3>7. UncutIsFree(d)'
      BY <1>a, <3>3, <3>4 DEF UncutIsFree
    <3>9. LinesCovered(d)'
      BY <1>a, <1>0, <3>1, <3>2, <3>3, <3>4 DEF LinesCovered, LinesFit, n
    <3>10. SeenCovered(d)'
      BY <1>a, <2>2, <3>3, <3>4, SeenStep
    <3>11. RowsCovered(d)'
      <4>1. \A r \in Rows : LiveRow(r) => r[1] # b
        BY <2>2 DEF RowsStand, Stands, LiveRow
      <4>2. \A r \in Rows : LiveRow(r) => payout[r].amount <= d[r[1]]
        BY <1>0, <1>a, <3>3, <4>1 DEF RowsCovered
      <4> QED BY <1>3, <1>r, <3>3, <4>2 DEF RowsCovered
    <3>12. Covers(d)'
      BY <3>6, <3>7, <3>9, <3>10, <3>11 DEF Covers
    <3> QED BY <1>b, <3>3, <3>12
  <2> QED BY <1>3, <2>1, <2>2, CutEffect
<1>4. ASSUME UNCHANGED payout, NEW s \in Sessions, RefundCommit(s) PROVE CreditInv'
  <2>0. s \in Actors
    BY <1>0
  <2>1. /\ session[s].pc = "refunding" /\ LeavesBatch(s)
        /\ books' = books \/ ReverseLedger(Line(s))
    BY <1>4, <2>0, RefundEffect
  <2>2. books'.wallet = books.wallet
    <3>1. Line(s) \in Payments
      BY <2>0, <2>1, SessionRefund DEF Line
    <3>2. ASSUME ReverseLedger(Line(s)) PROVE books'.wallet = books.wallet
      BY <1>0, <3>1, <3>2, WalletApart
    <3> QED BY <2>1, <3>2
  <2>3. \A b \in Batches : batch'[b].status = batch[b].status /\ batch'[b].fee = batch[b].fee
    BY <2>0, <2>1, LeavesEach
  <2>4. LinesCovered(c)'
    <3>1. ASSUME NEW b \in Batches, batch'[b].status # "none" PROVE LinesFit(c[b], b)'
      <4>1. batch[b].status # "none" /\ c[b] \in Nat
        BY <2>3, <3>1
      <4>2. LinesFit(c[b], b)
        BY <1>a, <4>1 DEF LinesCovered
      <4>3. b \in session[s].from => KoboOf(session[s].seen) <= c[b] + batch[b].fee
        BY <1>a, <2>1 DEF SeenCovered, Refunding
      <4> QED BY <2>0, <2>1, <4>1, <4>2, <4>3, LeavesFit
    <3> QED BY <3>1 DEF LinesCovered
  <2>5. SeenCovered(c)'
    <3>1. \A b \in Batches : batch[b].status # "none" => c[b] = c[b] /\ batch'[b].fee = batch[b].fee
      BY <2>3
    <3> QED BY <1>a, <3>1, SeenStep
  <2>6. WalletIs(c)'
    BY <1>4, <1>r, <1>x, <2>2, SpentStays
  <2>7. Covers(c)'
    <3>1. RowsCovered(c)'
      BY <1>4, <1>a, <1>r
    <3>2. UncutIsFree(c)'
      BY <1>a, <2>3 DEF UncutIsFree
    <3> QED BY <2>4, <2>5, <2>6, <3>1, <3>2 DEF Covers
  <2> QED BY <1>b, <2>7
<1>5. ASSUME UNCHANGED <<payout, batch>>, NEW p \in Payments, ReverseLedger(p) PROVE CreditInv'
  <2>1. books'.wallet = books.wallet
    BY <1>0, <1>5, WalletApart
  <2> QED BY <1>2, <1>5, <2>1
<1>6. ASSUME NEW r \in Rows, Creates(r) PROVE CreditInv'
  <2>1. /\ Touches(r) /\ payout'[r].amount = Net0(r[1]) /\ payout[r].status = "none"
        /\ payout'[r].journal = payout[r].journal /\ UNCHANGED <<batch, books>> /\ Asked(r[1])
    BY <1>6, CreatesShape
  <2>2. batch[r[1]].status # "none"
    <3>1. PICK s \in Sessions : session[s].pc = "requesting" /\ session[s].batch = r[1]
      BY <2>1 DEF Asked
    <3>2. CallOK(s)
      BY <1>0 DEF CallInv
    <3> QED BY <3>1, <3>2 DEF CallOK
  <2>3. Net0(r[1]) <= c[r[1]]
    <3>1. batch[r[1]].total <= c[r[1]] + batch[r[1]].fee
      BY <1>0, <1>a, <2>2 DEF LinesCovered, LinesFit
    <3> QED BY <1>0, <3>1 DEF Net0
  <2>4. RowsCovered(c)'
    BY <1>a, <2>1, <2>3 DEF RowsCovered, LiveRow, Touches
  <2>5. PaidStays
    <3>1. ~payout[r].journal
      BY <2>1 DEF JournalInv, JournalOK
    <3> QED BY <2>1, <3>1 DEF PaidStays, Touches
  <2> QED BY <1>f, <1>k, <2>1, <2>4, <2>5
<1>7. ASSUME NEW r \in Rows, Takes(r) PROVE CreditInv'
  <2>1. /\ payout[r].status = "queued" /\ Touches(r) /\ payout'[r].amount = payout[r].amount
        /\ payout'[r].journal = payout[r].journal
        /\ books' = books /\ batch'[r[1]].status = "scheduled" /\ OnlyStatus(r[1])
    BY <1>7, TakesShape
  <2>2. batch[r[1]].status # "none"
    BY <2>1 DEF RowsStand, Stands
  <2>3. RowsCovered(c)' /\ PaidStays
    BY <1>a, <2>1 DEF RowsCovered, LiveRow, Touches, PaidStays
  <2>4. FiguresStay
    BY <2>1, <2>2 DEF OnlyStatus, FiguresStay
  <2> QED BY <1>k, <2>1, <2>3, <2>4
<1>8. ASSUME NEW r \in Rows, Pays(r) PROVE CreditInv'
  <2>1. /\ payout[r].status = "processing" /\ payout'[r].status = "completed"
        /\ payout'[r].amount = payout[r].amount /\ Touches(r) /\ payout'[r].journal
        /\ batch'[r[1]].status = "processed" /\ OnlyStatus(r[1])
        /\ books'.wallet = books.wallet - payout[r].amount
    BY <1>8, PaysShape
  <2>2. batch[r[1]].status # "none" /\ ~payout[r].journal
    BY <2>1 DEF RowsStand, Stands, JournalInv, JournalOK
  <2>3. WalletIs(c)'
    <3>1. Spent' = payout[r].amount + Spent
      BY <2>1, <2>2, SpentGrows
    <3>2. books'.wallet + Spent' = SumFunctionOnSet(c, Batches)
      BY <1>0, <1>a, <1>v, <2>1, <3>1
    <3> QED BY <3>2 DEF WalletIs
  <2>4. RowsCovered(c)'
    BY <1>a, <2>1 DEF RowsCovered, LiveRow, Touches
  <2>5. FiguresStay
    BY <2>1, <2>2 DEF OnlyStatus, FiguresStay
  <2> QED BY <1>m, <2>3, <2>4, <2>5
<1>o. OpenAgain => FiguresStay
  BY <1>f DEF OpenAgain
<1>9. ASSUME NEW r \in Rows, Cancels(r) PROVE CreditInv'
  <2>1. /\ payout'[r].status = "reversed" /\ payout'[r].amount = payout[r].amount
        /\ payout'[r].journal = payout[r].journal /\ Touches(r) /\ books' = books /\ OpenAgain
    BY <1>9, CancelsShape
  <2>2. RowsCovered(c)' /\ PaidStays
    BY <1>a, <2>1 DEF RowsCovered, LiveRow, Touches, PaidStays
  <2> QED BY <1>k, <1>o, <2>1, <2>2
<1>9a. ASSUME Reopens PROVE CreditInv'
  <2>1. OpenAgain /\ UNCHANGED <<payout, books>>
    BY <1>9a, ReopensShape DEF Reopens
  <2> QED BY <1>a, <1>k, <1>o, <1>r, <2>1
<1>10. ASSUME NEW r \in Rows, NEW st \in PayoutStatuses, Shifts(r, st) PROVE CreditInv'
  <2>1. /\ payout[r].status \in {"queued", "held", "processing", "failed"}
        /\ payout'[r].journal = payout[r].journal
        /\ Touches(r) /\ payout'[r].amount = payout[r].amount /\ UNCHANGED <<batch, books>>
    BY <1>10, ShiftsShape
  <2>2. RowsCovered(c)' /\ PaidStays
    BY <1>a, <2>1 DEF RowsCovered, LiveRow, Touches, PaidStays
  <2> QED BY <1>f, <1>k, <2>1, <2>2
<1>11. CASE Quiet
  BY <1>2, <1>11 DEF Quiet
<1> QED BY <1>3, <1>4, <1>5, <1>6, <1>7, <1>8, <1>9, <1>9a, <1>10, <1>11, StepKinds DEF Kinds

-----------------------------------------------------------------------------
(* What is final.                                                          *)

Final(r) == payout[r].status \in {"completed", "reversed"}
WrittenOver(r) == Undoes(r) /\ payout'[r] = [payout[r] EXCEPT !.status = "reversed"]

LEMMA FinalStep ==
  ASSUME SettlementAssumption, TypeOK, [Next]_vars, NEW r \in Rows, Final(r)
  PROVE  payout'[r] = payout[r] \/ WrittenOver(r)
<1>3. ASSUME NEW q \in Rows, Creates(q) PROVE payout'[r] = payout[r]
  BY <1>3, CreatesShape DEF Touches, Final
<1>4. ASSUME NEW q \in Rows, Takes(q) PROVE payout'[r] = payout[r]
  BY <1>4, TakesShape DEF Touches, Final
<1>5. ASSUME NEW q \in Rows, Pays(q) PROVE payout'[r] = payout[r]
  BY <1>5, PaysShape DEF Touches, Final
<1>6. ASSUME NEW q \in Rows, Cancels(q) PROVE payout'[r] = payout[r] \/ WrittenOver(r)
  <2>1. q # r => payout'[r] = payout[r]
    BY <1>6, CancelsShape DEF Touches
  <2>2. q = r => Undoes(r) /\ SetStatus(r, "reversed")
    BY <1>6 DEF Cancels, Reversible, Final
  <2>3. SetStatus(r, "reversed") => payout'[r] = [payout[r] EXCEPT !.status = "reversed"]
    BY DEF SetStatus, TypeOK
  <2> QED BY <2>1, <2>2, <2>3 DEF WrittenOver
<1>7. ASSUME NEW q \in Rows, NEW st \in PayoutStatuses, Shifts(q, st) PROVE payout'[r] = payout[r]
  <2>1. q # r
    BY <1>7, ShiftsShape DEF Final
  <2> QED BY <1>7, <2>1, ShiftsShape DEF Touches
<1> QED BY <1>3, <1>4, <1>5, <1>6, <1>7, StepKinds DEF Kinds, Quiet, Reopens

-----------------------------------------------------------------------------
(* Processed batches and reservations.                                     *)

Discharged(b) == \E r \in RowsOf(b) : payout[r].journal
ProcessedInv  == \A b \in Batches : batch[b].status = "processed" => Discharged(b)

\* A batch becomes processed with the completion of one of its rows.
LEMMA ProcessedKinds ==
  ASSUME SettlementAssumption, TypeOK, [Next]_vars, NEW b \in Batches
  PROVE  \/ batch'[b].status = batch[b].status
         \/ batch'[b].status # "processed"
         \/ \E r \in RowsOf(b) : payout'[r].journal
<1> DEFINE Goal == \/ batch'[b].status = batch[b].status
                   \/ batch'[b].status # "processed"
                   \/ \E r \in RowsOf(b) : payout'[r].journal
<1>0. \A s \in Sessions : s \in Actors
  BY DEF Actors
<1>1. batch' = batch => Goal
  OBVIOUS
<1>2. ASSUME NEW s \in Sessions, CutCommit(s) PROVE Goal
  <2>1. ASSUME NEW a \in Batches, NEW lines \in SUBSET Payments, Opens(a, lines) PROVE Goal
    BY <2>1, OpensShape
  <2> QED BY <1>1, <1>2, <2>1, CutEffect
<1>3. ASSUME NEW s \in Sessions, RefundCommit(s) PROVE Goal
  BY <1>0, <1>3, RefundEffect, LeavesShape
<1>4. ASSUME NEW r \in Rows, Takes(r) PROVE Goal
  <2>1. batch'[r[1]].status = "scheduled" /\ OnlyStatus(r[1])
    BY <1>4, TakesShape
  <2> QED BY <2>1 DEF OnlyStatus
<1>5. ASSUME NEW r \in Rows, Pays(r) PROVE Goal
  <2>1. payout'[r].journal /\ OnlyStatus(r[1])
    BY <1>5, PaysShape
  <2>2. b # r[1] => batch'[b] = batch[b]
    BY <2>1 DEF OnlyStatus
  <2>3. b = r[1] => r \in RowsOf(b)
    BY DEF RowsOf
  <2> QED BY <2>1, <2>2, <2>3
<1>6. OpenAgain => Goal
  BY DEF OpenAgain
<1>7. ASSUME NEW r \in Rows, Cancels(r) PROVE Goal
  BY <1>6, <1>7, CancelsShape
<1>8. Reopens => Goal
  BY <1>6, ReopensShape
<1>9. ASSUME NEW r \in Rows, NEW st \in PayoutStatuses, Creates(r) \/ Shifts(r, st) PROVE batch' = batch
  BY <1>9 DEF Creates, Shifts
<1> HIDE DEF Goal
<1>10. Goal
  <2>1. Quiet => batch' = batch
    BY DEF Quiet
  <2>2. "none" \in PayoutStatuses
    BY DEF PayoutStatuses
  <2> QED BY <1>1, <1>2, <1>3, <1>4, <1>5, <1>7, <1>8, <1>9, <2>1, <2>2, StepKinds DEF Kinds
<1> QED BY <1>10 DEF Goal

LEMMA ProcessedStep ==
  ASSUME SettlementAssumption, TypeOK, JournalInv, ProcessedInv, [Next]_vars
  PROVE  ProcessedInv'
<1> SUFFICES ASSUME NEW b \in Batches, batch'[b].status = "processed"
             PROVE  \E r \in RowsOf(b) : payout'[r].journal
  BY DEF ProcessedInv, Discharged, RowsOf
<1>1. CASE batch'[b].status = batch[b].status
  <2>1. PICK r \in RowsOf(b) : payout[r].journal
    BY <1>1 DEF ProcessedInv, Discharged
  <2>2. r \in Rows
    BY DEF RowsOf
  <2> QED BY <2>1, <2>2, JournalStep
<1> QED BY <1>1, ProcessedKinds

\* A reservation is written by its request, and taken back with the reversal of a
\* live payout or under a rejection that has reversed its own.
Reserves == \E b \in Batches : reserved[b] = 0 /\ \A a \in Batches : a # b => reserved'[a] = reserved[a]
TakesBack(r) ==
  /\ payout'[r].status = "reversed"
  /\ LiveRow(r) \/ \E s \in Reviewers : session[s] = [pc |-> "releasing", row |-> r]
  /\ \A a \in Batches : a # r[1] => reserved'[a] = reserved[a]

LEMMA Releasing ==
  ASSUME TypeOK, CallInv, NEW s \in Reviewers, session[s].pc = "releasing"
  PROVE  /\ session[s].row \in Rows /\ payout[session[s].row].status = "reversed"
         /\ session[s] = [pc |-> "releasing", row |-> session[s].row]
<1>1. session[s] \in SessionStates /\ s \in Actors
  BY DEF TypeOK, Actors
<1>2. session[s] \in [pc : {"screening", "dispatching", "reviewing", "releasing", "reopening", "rescreening"},
                      row : Rows]
  BY <1>1 DEF SessionStates, Idle
<1>3. CallOK(s)
  BY <1>1 DEF CallInv
<1> QED BY <1>2, <1>3 DEF CallOK

LEMMA ReservedKinds ==
  ASSUME SettlementAssumption, TypeOK, CallInv, [Next]_vars
  PROVE  reserved' = reserved \/ Reserves \/ \E r \in Rows : TakesBack(r)
<1> DEFINE Goal == reserved' = reserved \/ Reserves \/ \E r \in Rows : TakesBack(r)
<1>0. /\ \A s \in Sessions : s \in Actors
      /\ \A r \in Rows : r[1] \in Batches
  BY RowShape DEF Actors
<1>e. \A b \in Batches : \A n : reserved' = [reserved EXCEPT ![b] = n]
                              => \A a \in Batches : a # b => reserved'[a] = reserved[a]
  BY DEF TypeOK
<1>1. ASSUME NEW s \in Sessions, ReserveAllowance(s) PROVE Goal
  <2> DEFINE b == session[s].row[1]
  <2>0. session[s].pc = "admitting"
    BY <1>1 DEF ReserveAllowance
  <2>a. session[s].row \in Rows
    BY <1>0, <2>0, SessionRow DEF HasRow
  <2>1. b \in Batches
    BY <1>0, <2>a
  <2>2. \/ UNCHANGED reserved
        \/ reserved[b] = 0 /\ reserved' = [reserved EXCEPT ![b] = session[s].amount]
    BY <1>1 DEF ReserveAllowance
  <2> HIDE DEF b
  <2>3. reserved[b] = 0 /\ reserved' = [reserved EXCEPT ![b] = session[s].amount] => Reserves
    BY <1>e, <2>1 DEF Reserves
  <2> QED BY <2>2, <2>3
<1>2. ASSUME NEW r \in Rows, ReversePayout(r) PROVE Goal
  <2>1. Reversible(r) /\ SetStatus(r, "reversed") /\ reserved' = [reserved EXCEPT ![r[1]] = 0]
    BY <1>2 DEF ReversePayout
  <2>2. LiveRow(r) /\ payout'[r].status = "reversed"
    BY <2>1, StatusShape DEF Reversible, LiveRow
  <2>3. TakesBack(r)
    BY <1>0, <1>e, <2>1, <2>2 DEF TakesBack
  <2> QED BY <2>3
<1>3. ASSUME NEW s \in Reviewers, ReleaseReservation(s) PROVE Goal
  <2> DEFINE r == session[s].row
  <2>1. /\ session[s].pc = "releasing" /\ payout' = payout
        /\ reserved' = [reserved EXCEPT ![r[1]] = 0]
    BY <1>3 DEF ReleaseReservation
  <2>2. r \in Rows /\ payout'[r].status = "reversed" /\ session[s] = [pc |-> "releasing", row |-> r]
    BY <2>1, Releasing
  <2> HIDE DEF r
  <2>3. TakesBack(r)
    BY <1>0, <1>e, <2>1, <2>2 DEF TakesBack
  <2> QED BY <2>2, <2>3
<1>4. ASSUME NEW s, NEW b, CutRead(s, b) \/ RequestPayout(s, b) PROVE reserved' = reserved
  BY <1>4 DEF CutRead, RequestPayout
<1>5. ASSUME NEW s, NEW p, NEW kind, RefundRead(s, p, kind) PROVE reserved' = reserved
  BY <1>5 DEF RefundRead
<1>6. ASSUME NEW s \in Sessions, CutCommit(s) \/ RefundCommit(s) PROVE reserved' = reserved
  <2>1. ASSUME CutCommit(s) PROVE reserved' = reserved
    BY <2>1 DEF CutCommit
  <2>2. ASSUME RefundCommit(s) PROVE reserved' = reserved
    BY <1>0, <2>2, RefundEffect
  <2> QED BY <1>6, <2>1, <2>2
<1>6a. ASSUME NEW s, ScreenPayout(s) \/ CreatePayout(s) PROVE reserved' = reserved
  BY <1>6a DEF ScreenPayout, CreatePayout
<1>7. ASSUME NEW s, NothingToClaim(s) \/ Crash(s) \/ UpdateRow(s) PROVE reserved' = reserved
  BY <1>7 DEF NothingToClaim, Crash, UpdateRow
<1>7b. ASSUME NEW s, Answer(s) PROVE reserved' = reserved
  BY <1>7b DEF Answer, RailAnswers
<1>7a. ASSUME NEW s, Record(s) \/ Reevaluate(s) \/ RecordDecision(s) PROVE reserved' = reserved
  BY <1>7a DEF Record, Reevaluate, RecordDecision
<1>7c. ASSUME NEW s, ApproveHeld(s) \/ RejectHeld(s) \/ ReopenBatch(s) PROVE reserved' = reserved
  BY <1>7c DEF ApproveHeld, RejectHeld, ReopenBatch
<1>8. ASSUME NEW s, NEW r, NEW held, Claim(s, held, r) PROVE reserved' = reserved
  BY <1>8 DEF Claim
<1>9. ASSUME NEW p, ApproveRefund(p) \/ RejectRefund(p) PROVE reserved' = reserved
  BY <1>9 DEF ApproveRefund, RejectRefund
<1>10. ASSUME NEW s, NEW r, RetryPayout(r) \/ RequeueStale(s, r) \/ ReadHeld(s, r) \/ ListHeld(s, r)
       PROVE  reserved' = reserved
  BY <1>10 DEF RetryPayout, RequeueStale, ReadHeld, ListHeld
<1>11. ASSUME UNCHANGED vars PROVE reserved' = reserved
  BY <1>11 DEF vars
<1>r. reserved' = reserved => Goal
  OBVIOUS
<1> HIDE DEF Goal
<1>12. Goal
  BY <1>r, <1>1, <1>2, <1>3, <1>4, <1>5, <1>6, <1>6a, <1>7, <1>7a, <1>7b, <1>7c, <1>8, <1>9, <1>10, <1>11
     DEF Next, Dispatch
<1> QED BY <1>12 DEF Goal

LEMMA ReservationStep ==
  ASSUME SettlementAssumption, TypeOK, CallInv, [Next]_vars, NEW b \in Batches, reserved[b] > 0, reserved'[b] = 0
  PROVE  \E r \in RowsOf(b) :
           /\ payout'[r].status = "reversed"
           /\ \/ r \in Live(b)
              \/ \E s \in Reviewers : session[s] = [pc |-> "releasing", row |-> r]
<1>0. reserved[b] \in Nat /\ reserved'[b] # reserved[b]
  BY DEF TypeOK
<1>1. PICK r \in Rows : TakesBack(r)
  BY <1>0, ReservedKinds DEF Reserves
<1>2. r[1] = b
  BY <1>0, <1>1 DEF TakesBack
<1>3. r \in RowsOf(b) /\ (LiveRow(r) => r \in Live(b))
  BY <1>2 DEF Live, RowsOf, LiveRow
<1> QED BY <1>1, <1>3 DEF TakesBack

-----------------------------------------------------------------------------
(* The inductive invariant of the wallet and of processed batches.         *)

WalletInv == Inv /\ CreditInv /\ ProcessedInv

LEMMA InitCredit == ASSUME SettlementAssumption, Init PROVE CreditInv
<1> DEFINE c == [b \in Batches |-> 0]
<1>1. c \in [Batches -> Nat]
  OBVIOUS
<1>2. /\ \A b \in Batches : batch[b].status = "none"
      /\ \A r \in Rows : ~LiveRow(r) /\ ~payout[r].journal
      /\ \A s \in Sessions : ~Refunding(s)
      /\ books.wallet = 0
  BY DEF Init, LiveRow, Refunding, Idle
<1>3. SumFunctionOnSet(c, Batches) = 0
  BY SumZero DEF SettlementAssumption
<1>4. Paid = {}
  BY <1>2 DEF Paid
<1>5. Spent = 0
  BY <1>4, SumEmpty DEF Spent
<1>6. WalletIs(c)
  BY <1>2, <1>3, <1>5 DEF WalletIs
<1>7. UncutIsFree(c)
  BY DEF UncutIsFree
<1> HIDE DEF c
<1>8. Covers(c)
  BY <1>2, <1>6, <1>7 DEF Covers, LinesCovered, RowsCovered, SeenCovered
<1> QED BY <1>1, <1>8 DEF CreditInv

LEMMA WalletInvariance == SettlementAssumption => (Spec => []WalletInv)
<1> SUFFICES ASSUME SettlementAssumption PROVE Spec => []WalletInv
  OBVIOUS
<1>1. Init => WalletInv
  <2> SUFFICES ASSUME Init PROVE WalletInv
    OBVIOUS
  <2>1. ProcessedInv
    BY DEF Init, ProcessedInv
  <2> QED BY <2>1, InitInv, InitCredit DEF WalletInv
<1>2. WalletInv /\ [Next]_vars => WalletInv'
  BY NextInv, CreditStep, ProcessedStep DEF WalletInv, Inv
<1> QED BY <1>1, <1>2, PTL DEF Spec

\* The amount of a completed row is within the credit of its batch, and no batch
\* has two of them.
LEMMA CreditCovers == ASSUME SettlementAssumption, WalletInv PROVE WalletNeverOverdrawn
<1> DEFINE Completed == {r \in Rows : payout[r].status = "completed"}
           over == SumFunctionOnSet(AmountOfRow, Overwritten)
           done == SumFunctionOnSet(AmountOfRow, Completed)
<1>0. TypeOK /\ JournalInv /\ OneLiveRow /\ IsFiniteSet(Batches) /\ books.wallet \in Int
  BY DEF WalletInv, Inv, TypeOK, SettlementAssumption
<1>1. PICK c \in [Batches -> Nat] : WalletIs(c) /\ RowsCovered(c)
  BY DEF WalletInv, CreditInv, Covers
<1>2. /\ Paid = Overwritten \cup Completed /\ Overwritten \cap Completed = {}
      /\ Overwritten \subseteq Rows /\ Completed \subseteq Rows
  BY <1>0 DEF Paid, Overwritten, JournalInv, JournalOK
<1>3. IsFiniteSet(Overwritten) /\ IsFiniteSet(Completed)
  BY <1>2, RowsFinite, FS_Subset
<1>4. \A r \in Rows : AmountOfRow[r] = payout[r].amount /\ AmountOfRow[r] \in Nat
  BY <1>0, SpentSums
<1>5. Spent = over + done /\ over \in Nat /\ done \in Nat
  <2>1. \A r \in Overwritten \cup Completed : AmountOfRow[r] \in Int
    BY <1>2, <1>4
  <2> HIDE DEF Completed
  <2>2. SumFunctionOnSet(AmountOfRow, Overwritten \cup Completed) = over + done
    BY <1>2, <1>3, <2>1, SumUnion
  <2>3. over \in Nat /\ done \in Nat
    BY <1>2, <1>3, <1>4, SumNat
  <2> QED BY <1>2, <2>2, <2>3 DEF Spent
<1>6. done <= SumFunctionOnSet(c, Batches)
  <2> DEFINE p == [r \in Completed |-> r[1]]
             f == [r \in Completed |-> c[r[1]]]
  <2>1. \A r \in Completed : r \in Rows /\ LiveRow(r) /\ r[1] \in Batches
    BY RowShape DEF LiveRow
  <2>a. DOMAIN p = Completed /\ \A r \in Completed : p[r] = r[1] /\ c[p[r]] = f[r]
    OBVIOUS
  <2>b. \A q, r \in Completed : q[1] = r[1] => q = r
    BY <1>0, <2>1 DEF OneLiveRow
  <2>3. \A r \in Completed : f[r] \in Nat /\ AmountOfRow[r] \in Nat /\ AmountOfRow[r] <= f[r]
    BY <1>1, <1>4, <2>1 DEF RowsCovered
  <2> HIDE DEF Completed, p, f
  <2>2. IsInjective(p) /\ Range(p) \subseteq Batches
    BY <2>1, <2>a, <2>b DEF IsInjective, Range
  <2>4. \A r \in Completed : f[r] \in Int /\ c[p[r]] = f[r]
    BY <2>3, <2>a
  <2>5. done <= SumFunctionOnSet(f, Completed)
    BY <1>3, <2>3, SumBelow
  <2>6. SumFunctionOnSet(f, Completed) = SumFunctionOnSet(c, Range(p))
    BY <1>3, <2>2, <2>4, <2>a, SumImage
  <2>7. SumFunctionOnSet(c, Range(p)) <= SumFunctionOnSet(c, Batches)
    BY <1>0, <2>2, SumSubset
  <2>8. SumFunctionOnSet(f, Completed) \in Nat /\ SumFunctionOnSet(c, Batches) \in Nat
    BY <1>0, <1>3, <2>3, SumNat
  <2> HIDE DEF done
  <2> QED BY <1>5, <2>5, <2>6, <2>7, <2>8
<1>7. SumFunctionOnSet(c, Batches) \in Nat
  BY <1>0, SumNat
<1> HIDE DEF over, done
<1>8. books.wallet + over >= 0
  BY <1>0, <1>1, <1>5, <1>6, <1>7 DEF WalletIs
<1> QED BY <1>8 DEF over, WalletNeverOverdrawn

\* Payouts never take more out of the merchant's wallet than cuts put in, even
\* when a batch shrinks between the cut and the payout, but for the completed
\* payouts that a rejection has written over.
THEOREM WalletIsNeverOverdrawn == SettlementAssumption => (Spec => []WalletNeverOverdrawn)
<1> SUFFICES ASSUME SettlementAssumption PROVE Spec => []WalletNeverOverdrawn
  OBVIOUS
<1>1. WalletInv => WalletNeverOverdrawn
  BY CreditCovers
<1> QED BY <1>1, WalletInvariance, PTL

\* However many reviewers, workers and requests there are, a completed or
\* reversed payout changes only when a reviewer who read it held reverses it, as
\* ReleaseHeldPayout's rejection has no status guard.
THEOREM OutcomesAreFinal == SettlementAssumption => (Spec => OutcomeIsFinal)
<1> SUFFICES ASSUME SettlementAssumption PROVE Spec => OutcomeIsFinal
  OBVIOUS
<1>1. Inv /\ [Next]_vars
        => [\A r \in Rows : payout[r].status \in {"completed", "reversed"} =>
              \/ payout'[r] = payout[r]
              \/ /\ \E s \in Reviewers : Rejecting(s, r)
                 /\ payout'[r] = [payout[r] EXCEPT !.status = "reversed"]]_vars
  BY FinalStep DEF Inv, Final, WrittenOver, Undoes
<1> QED BY <1>1, Invariance, PTL DEF Spec, OutcomeIsFinal

\* A processed batch has a payout that discharged the merchant's wallet, and the
\* batch of a completed payout is processed, whatever reviewers, re-evaluations
\* and late answers do.
THEOREM ProcessedBatchesHavePayout == SettlementAssumption => (Spec => []ProcessedHasPayout)
<1> SUFFICES ASSUME SettlementAssumption PROVE Spec => []ProcessedHasPayout
  OBVIOUS
<1>1. WalletInv => ProcessedHasPayout
  BY DEF WalletInv, Inv, ProcessedInv, Discharged, RowsStand, Stands, ProcessedHasPayout, RowsOf
<1> QED BY <1>1, WalletInvariance, PTL

\* The money-out reservation of a batch goes only in the step that reverses its
\* live payout, or under a rejection that has reversed its payout before.
THEOREM ReservationsAreKept == SettlementAssumption => (Spec => ReservationKept)
<1> SUFFICES ASSUME SettlementAssumption PROVE Spec => ReservationKept
  OBVIOUS
<1>1. Inv /\ [Next]_vars
        => [\A b \in Batches : reserved[b] > 0 /\ reserved'[b] = 0 =>
              \E r \in RowsOf(b) :
                /\ payout'[r].status = "reversed"
                /\ \/ r \in Live(b)
                   \/ \E s \in Reviewers : session[s] = [pc |-> "releasing", row |-> r]]_vars
  BY ReservationStep DEF Inv
<1> QED BY <1>1, Invariance, PTL DEF Spec, ReservationKept
=============================================================================
