------------------------------- MODULE Outbox -------------------------------
(***************************************************************************)
(* Messages to customers.  A replica claims a batch under a lease, sends   *)
(* the messages of one recipient one after the other, records the          *)
(* reference the provider returned, and completes the row or schedules a   *)
(* retry.  The SMS provider reports the outcome of a send by its           *)
(* reference, at any time after the send and any number of times.          *)
(***************************************************************************)
EXTENDS LeaseQueue, FiniteSets

CONSTANTS Texts,            \* messages
          Senders,          \* replicas
          MaxOutboxFaults   \* bound: failed sends, dropped updates, deaths

ASSUME OutboxAssumption ==
  MaxOutboxFaults \in Nat /\ IsFiniteSet(Senders) /\ "none" \notin Texts

VARIABLES text,     \* [Texts -> its message_outbox row; a report sets "reported"]
          ref,      \* [Texts -> the send its provider_ref names, 0 for none]
          job,      \* [Senders -> the message in its hands]
          sends,    \* [Texts -> sends the provider accepted]
          outboxFaults

outboxVars == <<text, ref, job, sends, outboxFaults>>

NoJob == [pc |-> "idle", id |-> "none", attempts |-> 0]
TextStatus == RowStatus \cup {"delivered"}

OutboxInit ==
  /\ text = [m \in Texts |-> NoRow]
  /\ ref = [m \in Texts |-> 0]
  /\ job = [s \in Senders |-> NoJob]
  /\ sends = [m \in Texts |-> 0]
  /\ outboxFaults = 0

OutboxFault == outboxFaults < MaxOutboxFaults /\ outboxFaults' = outboxFaults + 1
InHands(m) == \E s \in Senders : job[s].pc # "idle" /\ job[s].id = m

\* EnqueueText and its siblings.
EnqueueText(m) ==
  /\ text[m].status = "none"
  /\ text' = [text EXCEPT ![m] = Queued]
  /\ UNCHANGED <<ref, job, sends, outboxFaults>>

\* ClaimOutbox and the worker that takes the message up.
ClaimOutbox(s, m) ==
  /\ job[s].pc = "idle"
  /\ Claimable(text[m])
  /\ text' = [text EXCEPT ![m] = Claimed(@)]
  /\ job' = [job EXCEPT ![s] = [pc |-> "send", id |-> m, attempts |-> text[m].attempts]]
  /\ UNCHANGED <<ref, sends, outboxFaults>>

\* sendOutboxText: the provider accepts, or the send fails.
Send(s) ==
  /\ job[s].pc = "send"
  /\ \/ /\ sends' = [sends EXCEPT ![job[s].id] = @ + 1]
        /\ job' = [job EXCEPT ![s].pc = "ref"]
        /\ UNCHANGED outboxFaults
     \/ /\ OutboxFault
        /\ job' = [job EXCEPT ![s].pc = "retry"]
        /\ UNCHANGED sends
  /\ UNCHANGED <<text, ref>>

\* SetOutboxProviderRef; its error is only logged.
SetOutboxProviderRef(s) ==
  /\ job[s].pc = "ref"
  /\ \/ ref' = [ref EXCEPT ![job[s].id] = sends[job[s].id]] /\ UNCHANGED outboxFaults
     \/ OutboxFault /\ UNCHANGED ref
  /\ job' = [job EXCEPT ![s].pc = "complete"]
  /\ UNCHANGED <<text, sends>>

\* CompleteOutbox or RetryOutbox, whose errors are dropped.
FinishText(s) ==
  LET m == job[s].id
  IN  /\ job[s].pc \in {"complete", "retry"}
      /\ \/ /\ text' = [text EXCEPT ![m] = IF job[s].pc = "complete" THEN Completed(@)
                                           ELSE Retried(@, job[s].attempts)]
            /\ UNCHANGED outboxFaults
         \/ OutboxFault /\ UNCHANGED text
      /\ job' = [job EXCEPT ![s] = NoJob]
      /\ UNCHANGED <<ref, sends>>

\* The row as a report leaves it, whatever it said.
Reported(row, status) == [row EXCEPT !.status = status, !.due = FALSE]

\* MarkOutboxDelivery: a report of the send the row's reference names.  A report
\* of any other send matches nothing.
MarkOutboxDelivery(m, status) ==
  /\ ref[m] > 0
  /\ text' = [text EXCEPT ![m] = Reported(@, status)]
  /\ UNCHANGED <<ref, job, sends, outboxFaults>>

\* The replica dies with the message in its hands.
SenderCrash(s) ==
  /\ job[s].pc # "idle"
  /\ OutboxFault
  /\ job' = [job EXCEPT ![s] = NoJob]
  /\ UNCHANGED <<text, ref, sends>>

\* A backoff is over; a lease ends, sometimes under a slow send.
TextElapse(m) ==
  /\ Elapsing(text[m])
  /\ IF InHands(m) THEN OutboxFault ELSE UNCHANGED outboxFaults
  /\ text' = [text EXCEPT ![m] = Elapsed(@)]
  /\ UNCHANGED <<ref, job, sends>>

DeliverOutbox(s) ==
  \/ \E m \in Texts : ClaimOutbox(s, m)
  \/ Send(s) \/ SetOutboxProviderRef(s) \/ FinishText(s)

OutboxNext ==
  \/ \E m \in Texts : EnqueueText(m) \/ TextElapse(m)
  \/ \E m \in Texts, status \in {"delivered", "failed"} : MarkOutboxDelivery(m, status)
  \/ \E s \in Senders : DeliverOutbox(s) \/ SenderCrash(s)

OutboxSpec == OutboxInit /\ [][OutboxNext]_outboxVars

-----------------------------------------------------------------------------
(* Properties.                                                             *)

\* Rows and jobs have the shape the code gives them.
OutboxTypeOK ==
  /\ text \in [Texts -> [status : TextStatus, attempts : Nat, due : BOOLEAN]]
  /\ job \in [Senders -> {NoJob} \cup
       [pc : {"send", "ref", "complete", "retry"}, id : Texts, attempts : Nat]]
  /\ sends \in [Texts -> Nat] /\ ref \in [Texts -> Nat]
  /\ \A m \in Texts : ref[m] <= sends[m]
  /\ outboxFaults \in 0 .. MaxOutboxFaults

\* A customer gets a message again only for a failure: a death, a dropped
\* update or a lease that ended under the send.  No report asks for another
\* send, and no finished row is taken up again.
RepeatsAreFaults ==
  LET extra(m) == IF sends[m] > 1 THEN sends[m] - 1 ELSE 0
  IN  \A m \in Texts : extra(m) <= outboxFaults

-----------------------------------------------------------------------------
(* What a reader might expect and the code does not do.                    *)

\* The provider's verdict stays on the row: no worker writes over it.
ReportStays ==
  [][\A m \in Texts : text[m].status = "delivered" => text'[m].status \in {"delivered", "failed"}]_outboxVars
=============================================================================
