-------------------------------- MODULE BulkPay --------------------------------
(***************************************************************************)
(* Bulk payments (service/bulk_payments.go, bulk_approval.go and the       *)
(* store_bulk_*.go they call).  A batch is drafted from verified           *)
(* recipients, approved and paid directly, or asks every recipient for a   *)
(* location first and pays those who answered in range when the window is  *)
(* over.  Its jobs are claimed once and run by one worker at a time; a run *)
(* that met a transient error is queued again.  Location replies write     *)
(* over whatever the item has become since they read it.                   *)
(***************************************************************************)
EXTENDS Integers, FiniteSets, FiniteSetsExt

CONSTANTS Batches,    \* of one merchant, who pays them from one business wallet
          Lines,      \* the items of every batch
          Replies,    \* location replies being processed
          LinePay,    \* the amount of every item
          Opening,    \* the business wallet
          JobTries,   \* max_attempts of a job
          PageLimit,  \* the items one run lists
          MaxRunFaults \* bound: runs that die or fail for the database

Items == Batches \X Lines
ItemsOf(b) == {i \in Items : i[1] = b}

ASSUME BulkAssumption ==
  /\ {LinePay, Opening, JobTries, PageLimit, MaxRunFaults} \subseteq Nat
  /\ LinePay > 0 /\ PageLimit > 0

VARIABLES batch,    \* [Batches -> status, payout rail, whether it asks for locations, window over]
          approver, \* [Batches -> where the approval under way is]
          job,      \* [Batches -> [kind -> its bulk_jobs row]]
          work,     \* [Batches -> the run of its job: kind, step, what it listed]
          item,     \* [Items -> bulk_batch_items.status]
          reply,    \* [Replies -> the item it found open and what it will write]
          paid,     \* what moved: credits to wallets, charges, transfers at the rail
          runFaults

bulkVars == <<batch, approver, job, work, item, reply, paid, runFaults>>

Kinds == {"stage1", "stage2", "pay"}
NoJob == [status |-> "none", tries |-> 0]
NoRun == [kind |-> "none", pc |-> "idle", todo |-> {}, now |-> {}, failed |-> FALSE]
NoReply == [item |-> {}, outcome |-> "none"]

BulkInit ==
  /\ batch = [b \in Batches |-> [status |-> "none", mode |-> "wallet", ask |-> FALSE, over |-> FALSE]]
  /\ approver = [b \in Batches |-> "idle"]
  /\ job = [b \in Batches |-> [k \in Kinds |-> NoJob]]
  /\ work = [b \in Batches |-> NoRun]
  /\ item = [i \in Items |-> "none"]
  /\ reply = [x \in Replies |-> NoReply]
  /\ paid = [credits |-> [i \in Items |-> 0], charges |-> [i \in Items |-> 0], rail |-> {}]
  /\ runFaults = 0

Funds == Opening - LinePay * FoldSet(LAMBDA i, s : s + paid.charges[i], 0, Items)
Written(S, status) == [i \in Items |-> IF i \in S THEN status ELSE item[i]]
Queue(b, k) == job' = [job EXCEPT ![b][k] = [@ EXCEPT !.status = "queued"]]

-----------------------------------------------------------------------------
(* Drafting and approval.                                                  *)

\* DraftFromFilter: nothing is checked against the wallet.
DraftFromFilter(b) ==
  /\ batch[b].status = "none"
  /\ \E mode \in {"wallet", "bank"}, ask \in BOOLEAN :
       batch' = [batch EXCEPT ![b] = [status |-> "draft", mode |-> mode, ask |-> ask, over |-> FALSE]]
  /\ item' = Written(ItemsOf(b), "pending")
  /\ UNCHANGED <<approver, job, work, reply, paid, runFaults>>

\* CreateBatch, from a center: no approval, and the stage 1 job at once.
CreateBulkBatch(b) ==
  /\ batch[b].status = "none"
  /\ Funds >= LinePay * Cardinality(ItemsOf(b))
  /\ batch' = [batch EXCEPT ![b] = [status |-> "pending", mode |-> "wallet", ask |-> TRUE, over |-> FALSE]]
  /\ item' = Written(ItemsOf(b), "pending")
  /\ Queue(b, "stage1")
  /\ UNCHANGED <<approver, work, reply, paid, runFaults>>

\* The guard of the three decisions.
Decidable(b) == batch[b].status \in {"draft", "submitted"}

SubmitBulkBatch(b) ==
  /\ Decidable(b)
  /\ batch' = [batch EXCEPT ![b].status = "submitted"]
  /\ UNCHANGED <<approver, job, work, item, reply, paid, runFaults>>

RejectBulkBatch(b) ==
  /\ Decidable(b)
  /\ batch' = [batch EXCEPT ![b].status = "rejected"]
  /\ UNCHANGED <<approver, job, work, item, reply, paid, runFaults>>

\* ApproveDraft reads the status and the balance, decides, and queues the job,
\* each on its own.
CheckApproval(b) ==
  /\ approver[b] = "idle" /\ Decidable(b)
  /\ Funds >= LinePay * Cardinality(ItemsOf(b))
  /\ approver' = [approver EXCEPT ![b] = "checked"]
  /\ UNCHANGED <<batch, job, work, item, reply, paid, runFaults>>

ApproveBulkBatch(b) ==
  /\ approver[b] = "checked"
  /\ IF Decidable(b)
     THEN /\ batch' = [batch EXCEPT ![b].status = "approved"]
          /\ approver' = [approver EXCEPT ![b] = "approved"]
     ELSE approver' = [approver EXCEPT ![b] = "idle"] /\ UNCHANGED batch
  /\ UNCHANGED <<job, work, item, reply, paid, runFaults>>

EnqueueBulkJob(b) ==
  /\ approver[b] = "approved"
  /\ approver' = [approver EXCEPT ![b] = "done"]
  /\ Queue(b, IF batch[b].ask THEN "stage1" ELSE "pay")
  /\ UNCHANGED <<batch, work, item, reply, paid, runFaults>>

-----------------------------------------------------------------------------
(* The jobs.                                                               *)

\* ClaimBulkJobs: a due, queued job; nothing claims a running one again.
ClaimBulkJobs(b, k) ==
  /\ job[b][k].status = "queued" /\ (k = "stage2" => batch[b].over)
  /\ job' = [job EXCEPT ![b][k] = [status |-> "running", tries |-> @.tries + 1]]
  /\ work' = [work EXCEPT ![b] = [NoRun EXCEPT !.kind = k,
                                             !.pc = IF k = "stage1" THEN "asking" ELSE "start"]]
  /\ UNCHANGED <<batch, approver, item, reply, paid, runFaults>>

Closed(b, good) ==
  LET k == work[b].kind
  IN  [job EXCEPT ![b][k].status = IF good THEN "done"
                                   ELSE IF job[b][k].tries < JobTries THEN "queued" ELSE "failed"]

\* RunStage1, one recipient: invited when unknown, asked otherwise; a send that
\* keeps failing fails the item.
AskForLocation(b, i) ==
  /\ work[b].pc = "asking" /\ item[i] = "pending"
  /\ \E status \in {"not_registered", "location_requested", "failed"} :
       item' = [item EXCEPT ![i] = status]
  /\ UNCHANGED <<batch, approver, job, work, reply, paid, runFaults>>

\* MarkBulkBatchStage1 and ScheduleBulkStage2, which leaves an existing job alone.
FinishStage1(b) ==
  /\ work[b].pc = "asking" /\ \A i \in ItemsOf(b) : item[i] # "pending"
  /\ batch' = [batch EXCEPT ![b].status = "stage1"]
  /\ job' = [Closed(b, TRUE) EXCEPT ![b]["stage2"].status = IF @ = "none" THEN "queued" ELSE @]
  /\ work' = [work EXCEPT ![b] = NoRun]
  /\ UNCHANGED <<approver, item, reply, paid, runFaults>>

LocationTTLEnds(b) ==
  /\ batch[b].status = "stage1" /\ ~batch[b].over
  /\ batch' = [batch EXCEPT ![b].over = TRUE]
  /\ UNCHANGED <<approver, job, work, item, reply, paid, runFaults>>

\* FindOpenBulkItemByPhone and the score, from what the item is now.
RecordLocation(x, i) ==
  /\ reply[x] = NoReply
  /\ item[i] = "location_requested" /\ batch[i[1]].status \in {"stage1", "stage2"}
  /\ \E outcome \in IF batch[i[1]].over THEN {"expired"} ELSE {"location_received", "out_of_range"} :
       reply' = [reply EXCEPT ![x] = [item |-> {i}, outcome |-> outcome]]
  /\ UNCHANGED <<batch, approver, job, work, item, paid, runFaults>>

Locked == UNION {work[b].now : b \in {c \in Batches : work[c].pc = "posting"}}

\* SetBulkItemLocation and SetBulkItemStatus, once no payment holds the row: the
\* item's status is not looked at again.
SetBulkItemLocation(x) ==
  /\ reply[x] # NoReply /\ reply[x].item \cap Locked = {}
  /\ item' = Written(reply[x].item, reply[x].outcome)
  /\ reply' = [reply EXCEPT ![x] = NoReply]
  /\ UNCHANGED <<batch, approver, job, work, paid, runFaults>>

-----------------------------------------------------------------------------
(* Paying.                                                                 *)

Unanswered(b) == {i \in ItemsOf(b) : item[i] \in {"pending", "location_requested"}}
Unasked(b)    == {i \in ItemsOf(b) : item[i] = "pending"}

\* RunStage2 expires those who did not answer, RunDirectPayment makes every
\* pending item payable; either lists one page of what is payable.
StartPayment(b) ==
  /\ work[b].pc = "start"
  /\ batch' = [batch EXCEPT ![b].status = "stage2"]
  /\ item' = IF work[b].kind = "stage2" THEN Written(Unanswered(b), "expired")
             ELSE Written(Unasked(b), "location_received")
  /\ LET payable == {i \in ItemsOf(b) : item'[i] = "location_received"}
     IN  \E page \in SUBSET payable :
           /\ Cardinality(page) = IF Cardinality(payable) < PageLimit
                                  THEN Cardinality(payable) ELSE PageLimit
           /\ work' = [work EXCEPT ![b].pc = "paying", ![b].todo = page]
  /\ UNCHANGED <<approver, job, reply, paid, runFaults>>

TheItem(b) == CHOOSE i \in ItemsOf(b) : i \in work[b].now
Turn(b, pc, i) == [work EXCEPT ![b].pc = pc, ![b].todo = @ \ {i},
                               ![b].now = IF pc = "paying" THEN {} ELSE {i}]
Bad(w, b) == [w EXCEPT ![b].failed = TRUE]

\* The recipient has no account or too low a tier; or cannot be looked up, and
\* the item is passed over.
PassOver(b, i) ==
  /\ work[b].pc = "paying" /\ i \in work[b].todo
  /\ \E status \in {"not_registered", "kyc_ineligible", item[i]} : item' = [item EXCEPT ![i] = status]
  /\ work' = Turn(b, "paying", i)
  /\ UNCHANGED <<batch, approver, job, reply, paid, runFaults>>

\* PostBulkPaymentItem locks the item and reads the balance, which no lock keeps.
LockItem(b, i) ==
  /\ work[b].pc = "paying" /\ i \in work[b].todo /\ batch[b].mode = "wallet"
  /\ CASE item[i] = "paid" -> work' = Turn(b, "paying", i) /\ UNCHANGED item
       [] item[i] \notin {"paid", "location_received"} ->
            work' = Bad(Turn(b, "paying", i), b) /\ UNCHANGED item
       [] item[i] = "location_received" /\ Funds < LinePay ->
            work' = Turn(b, "paying", i) /\ item' = Written({i}, "failed")
       [] OTHER -> work' = Turn(b, "posting", i) /\ UNCHANGED item
  /\ UNCHANGED <<batch, approver, job, reply, paid, runFaults>>

\* Mutant: the journal is written without looking for its reference.
PostedMutant(i) == FALSE

\* A journal with the reference of the item exists.
Posted(i) == paid.charges[i] > 0

\* The pair of entries, unless it is there already, and the item is paid.
PostBulkPaymentItem(b) ==
  LET i == TheItem(b)
  IN  /\ work[b].pc = "posting" /\ batch[b].mode = "wallet"
      /\ paid' = IF Posted(i) THEN paid
                 ELSE [paid EXCEPT !.credits[i] = @ + 1, !.charges[i] = @ + 1]
      /\ item' = Written({i}, "paid")
      /\ work' = Turn(b, "paying", i)
      /\ UNCHANGED <<batch, approver, job, reply, runFaults>>

\* payBulkItemBank: an unfunded merchant does not reach the rail.
CheckFunding(b, i) ==
  /\ work[b].pc = "paying" /\ i \in work[b].todo /\ batch[b].mode = "bank"
  /\ IF Funds >= LinePay THEN work' = Turn(b, "sending", i) /\ UNCHANGED item
     ELSE work' = Turn(b, "paying", i) /\ item' = Written({i}, "failed")
  /\ UNCHANGED <<batch, approver, job, reply, paid, runFaults>>

\* The rail, which takes a reference once: the money leaves; or it says the
\* transfer is pending and the item stays payable; or it refuses.
Payout(b) ==
  LET i == TheItem(b)
  IN  /\ work[b].pc = "sending"
      /\ \/ /\ paid' = [paid EXCEPT !.rail = @ \union {i}]
            /\ work' = Turn(b, "sent", i) /\ UNCHANGED item
         \/ /\ \E landed \in SUBSET {i} : paid' = [paid EXCEPT !.rail = @ \union landed]
            /\ work' = Turn(b, "paying", i) /\ UNCHANGED item
         \/ /\ i \notin paid.rail
            /\ item' = Written({i}, "failed")
            /\ work' = Bad(Turn(b, "paying", i), b) /\ UNCHANGED paid
      /\ UNCHANGED <<batch, approver, job, reply, runFaults>>

\* PostBulkPaymentItemBank: the merchant is charged once; refused when the item
\* is no longer payable or the wallet was emptied meanwhile.
PostBulkPaymentItemBank(b) ==
  LET i == TheItem(b)
      refused == item[i] \notin {"paid", "location_received"}
      short == item[i] = "location_received" /\ ~Posted(i) /\ Funds < LinePay
  IN  /\ work[b].pc = "sent"
      /\ work' = IF refused THEN Bad(Turn(b, "paying", i), b) ELSE Turn(b, "paying", i)
      /\ item' = IF refused THEN item ELSE Written({i}, IF short THEN "failed" ELSE "paid")
      /\ paid' = IF refused \/ short \/ Posted(i) THEN paid ELSE [paid EXCEPT !.charges[i] = 1]
      /\ UNCHANGED <<batch, approver, job, reply, runFaults>>

\* FinalizeBulkBatch counts the items and closes the batch, whatever is left in
\* it; a run that met a transient error is retried.
FinalizeBulkBatch(b) ==
  LET In(S) == {i \in ItemsOf(b) : item[i] \in S}
      lost == In({"failed", "not_registered", "kyc_ineligible", "out_of_range", "expired"})
  IN  /\ work[b].pc = "paying" /\ work[b].todo = {}
      /\ batch' = [batch EXCEPT ![b].status = IF In({"paid"}) = {} THEN "failed"
                                             ELSE IF lost # {} THEN "partial" ELSE "completed"]
      /\ job' = Closed(b, ~work[b].failed)
      /\ work' = [work EXCEPT ![b] = NoRun]
      /\ UNCHANGED <<approver, item, reply, paid, runFaults>>

\* The database fails a run between two items: RetryBulkJob.
RunFails(b) ==
  /\ work[b].pc \in {"asking", "start", "paying"} /\ runFaults < MaxRunFaults
  /\ job' = Closed(b, FALSE)
  /\ work' = [work EXCEPT ![b] = NoRun]
  /\ runFaults' = runFaults + 1
  /\ UNCHANGED <<batch, approver, item, reply, paid>>

\* The process dies: the job stays 'running'; an approval stays without a job.
BulkDies(b) ==
  /\ runFaults < MaxRunFaults
  /\ \/ work[b] # NoRun /\ work' = [work EXCEPT ![b] = NoRun] /\ UNCHANGED approver
     \/ approver[b] \in {"checked", "approved"} /\ approver' = [approver EXCEPT ![b] = "idle"] /\ UNCHANGED work
  /\ runFaults' = runFaults + 1
  /\ UNCHANGED <<batch, job, item, reply, paid>>

\* RunStage2 and RunDirectPayment: list, pay each item over the batch's rail, count.
RunStage2(b) ==
  \/ StartPayment(b) \/ FinalizeBulkBatch(b)
  \/ PostBulkPaymentItem(b) \/ Payout(b) \/ PostBulkPaymentItemBank(b)
  \/ \E i \in ItemsOf(b) : PassOver(b, i) \/ LockItem(b, i) \/ CheckFunding(b, i)

BulkNext ==
  \/ \E b \in Batches : \/ DraftFromFilter(b) \/ CreateBulkBatch(b)
                        \/ SubmitBulkBatch(b) \/ RejectBulkBatch(b)
                        \/ CheckApproval(b) \/ ApproveBulkBatch(b) \/ EnqueueBulkJob(b)
                        \/ FinishStage1(b) \/ LocationTTLEnds(b)
                        \/ RunStage2(b) \/ RunFails(b) \/ BulkDies(b)
                        \/ \E k \in Kinds : ClaimBulkJobs(b, k)
                        \/ \E i \in ItemsOf(b) : AskForLocation(b, i)
  \/ \E x \in Replies : \/ SetBulkItemLocation(x)
                        \/ \E i \in Items : RecordLocation(x, i)

BulkSpec == BulkInit /\ [][BulkNext]_bulkVars

-----------------------------------------------------------------------------
\* However often a job is retried and whatever a late reply writes over a paid
\* item, its recipient is credited at most once, for exactly what the merchant
\* is charged; a charged bank item is one the rail paid.
BulkPaidOnce ==
  \A i \in Items :
    /\ paid.credits[i] <= 1 /\ paid.charges[i] <= 1
    /\ IF batch[i[1]].mode = "wallet" THEN paid.credits[i] = paid.charges[i]
       ELSE paid.charges[i] = 1 => i \in paid.rail

\* An item that says paid was; and a batch that was refused, or still waits for
\* its approval, has moved nothing.
PaidMeansMoved ==
  \A i \in Items :
    /\ item[i] = "paid" => paid.charges[i] = 1
    /\ (batch[i[1]].status \in {"draft", "submitted", "approved", "rejected"}) =>
         (paid.charges[i] = 0 /\ i \notin paid.rail)

BulkSafe == BulkPaidOnce /\ PaidMeansMoved

BulkTypeOK ==
  /\ \A b \in Batches, k \in Kinds : job[b][k].tries \in 0 .. JobTries
  /\ \A b \in Batches : Cardinality(work[b].now) <= 1 /\ work[b].todo \subseteq ItemsOf(b)

-----------------------------------------------------------------------------
(* What a reader might expect and the code does not do.                    *)

\* Two batches read the balance at the same time, and both pay from it.
WalletCovers == Funds >= 0

\* The wallet is emptied between the transfer and the charge.
TransfersAreCharged == \A b \in Batches : work[b] = NoRun =>
  \A i \in ItemsOf(b) : i \in paid.rail => paid.charges[i] = 1

\* One run lists one page and closes the batch.
NobodyIsCutOff == \A b \in Batches : batch[b].status \in {"completed", "partial"} =>
  \A i \in ItemsOf(b) : item[i] # "location_received"

\* A reply that read the item before it was paid is written after.
PaidStays == [][\A i \in Items : item[i] = "paid" => item'[i] = "paid"]_bulkVars
=============================================================================
