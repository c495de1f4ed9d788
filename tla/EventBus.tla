------------------------------ MODULE EventBus ------------------------------
(***************************************************************************)
(* Facts about payments on their way to the merchant.  A payment's final   *)
(* transition inserts a row of the business-event outbox in its own        *)
(* transaction; a publisher claims due rows and appends each to the bus of *)
(* its process, an in-memory log that dies with the process; consumer      *)
(* groups read the log in order: the notification of the merchant, which   *)
(* first claims the payment's slot, and the signed webhook, which closes   *)
(* the request link the payment was made for and queues a delivery that a  *)
(* second worker posts.                                                    *)
(*                                                                         *)
(* The payments are the attempts minted from one request link by visitors  *)
(* who saw it open.                                                        *)
(***************************************************************************)
EXTENDS LeaseQueue, Sequences, FiniteSets

CONSTANTS Attempts,      \* payments minted from the link
          Processes,     \* replicas, each with its publisher, bus and consumers
          MaxBusFaults   \* bound: process deaths, dropped updates, failing handlers

Nobody == "nobody"

ASSUME BusAssumption == MaxBusFaults \in Nat /\ Nobody \notin Attempts

VARIABLES fact,      \* [Attempts -> the payment's status]
          link,      \* the checkouts row: its status and the payment attached last
          event,     \* [Attempts -> its business_event_outbox row]
          batch,     \* [Processes -> the event its publisher has claimed]
          log,       \* [Processes -> records of its bus]
          offset,    \* [Processes -> [Groups -> the committed offset]]
          slot,      \* [Processes -> the payment whose slot was claimed, before the send]
          notified,  \* payments with merchant_notified_at
          notices,   \* [Attempts -> notifications enqueued]
          delivery,  \* [Attempts -> its merchant_webhook_deliveries row]
          sending,   \* [Processes -> the delivery its worker has claimed]
          handled,   \* [Processes -> [Groups -> records handled or given up]]
          busFaults

eventVars == <<fact, link, event, batch, log, offset, slot, notified, notices,
               delivery, sending, handled, busFaults>>

Groups == {"notifications", "webhooks"}
NoEvent == [id |-> Nobody, attempts |-> 0, out |-> FALSE]
NoDelivery == [id |-> Nobody, attempts |-> 0]

BusInit ==
  /\ fact = [p \in Attempts |-> "none"]
  /\ link = [status |-> "open", payment |-> Nobody]
  /\ event = [p \in Attempts |-> NoRow]
  /\ batch = [w \in Processes |-> NoEvent]
  /\ log = [w \in Processes |-> <<>>]
  /\ offset = [w \in Processes |-> [g \in Groups |-> 0]]
  /\ slot = [w \in Processes |-> Nobody]
  /\ notified = {}
  /\ notices = [p \in Attempts |-> 0]
  /\ delivery = [p \in Attempts |-> NoRow]
  /\ sending = [w \in Processes |-> NoDelivery]
  /\ handled = [w \in Processes |-> [g \in Groups |-> {}]]
  /\ busFaults = 0

busRest == <<log, offset, slot, handled>>
noticeRest == <<notified, notices>>
Fault == busFaults < MaxBusFaults /\ busFaults' = busFaults + 1

-----------------------------------------------------------------------------
(* The link and the payments made from it.                                 *)

\* ResolveCheckout, first transaction: a visitor of an open link gets a draft.
ResolveCheckout(p) ==
  /\ fact[p] = "none" /\ link.status = "open"
  /\ fact' = [fact EXCEPT ![p] = "draft"]
  /\ UNCHANGED <<link, event, batch, busRest, noticeRest, delivery, sending, busFaults>>

\* LinkCheckoutPayment, second: whatever the link says or names by now.
LinkCheckoutPayment(p) ==
  /\ fact[p] = "draft"
  /\ fact' = [fact EXCEPT ![p] = "linked"]
  /\ link' = [link EXCEPT !.payment = p]
  /\ UNCHANGED <<event, batch, busRest, noticeRest, delivery, sending, busFaults>>

\* TransitionPayment with insertPaymentEvent: the outcome and its event commit
\* together.
ResolvePayment(p, to) ==
  /\ fact[p] = "linked"
  /\ fact' = [fact EXCEPT ![p] = to]
  /\ event' = [event EXCEPT ![p] = Queued]
  /\ UNCHANGED <<link, batch, busRest, noticeRest, delivery, sending, busFaults>>

\* ExpireCheckouts.
ExpireCheckouts ==
  /\ link.status = "open"
  /\ link' = [link EXCEPT !.status = "expired"]
  /\ UNCHANGED <<fact, event, batch, busRest, noticeRest, delivery, sending, busFaults>>

-----------------------------------------------------------------------------
(* The publisher.                                                          *)

\* ClaimBusinessEvents: the gate of the handler lets one batch run at a time.
ClaimBusinessEvents(w, p) ==
  /\ batch[w] = NoEvent
  /\ Claimable(event[p])
  /\ event' = [event EXCEPT ![p] = Claimed(@)]
  /\ batch' = [batch EXCEPT ![w] = [id |-> p, attempts |-> event[p].attempts, out |-> FALSE]]
  /\ UNCHANGED <<fact, link, busRest, noticeRest, delivery, sending, busFaults>>

\* Publish appends the record to the log of this process.
Publish(w) ==
  /\ batch[w] # NoEvent /\ ~batch[w].out
  /\ log' = [log EXCEPT ![w] = Append(@, batch[w].id)]
  /\ batch' = [batch EXCEPT ![w].out = TRUE]
  /\ UNCHANGED <<fact, link, event, offset, slot, handled, noticeRest, delivery, sending, busFaults>>

\* CompleteBusinessEvent; when the update fails the lease will end.
CompleteBusinessEvent(w) ==
  /\ batch[w] # NoEvent /\ batch[w].out
  /\ \/ event' = [event EXCEPT ![batch[w].id] = Completed(@)] /\ UNCHANGED busFaults
     \/ Fault /\ UNCHANGED event
  /\ batch' = [batch EXCEPT ![w] = NoEvent]
  /\ UNCHANGED <<fact, link, busRest, noticeRest, delivery, sending>>

\* RetryBusinessEvent, when the bus refused the record.
RetryBusinessEvent(w) ==
  /\ batch[w] # NoEvent /\ ~batch[w].out
  /\ Fault
  /\ event' = [event EXCEPT ![batch[w].id] = Retried(@, batch[w].attempts)]
  /\ batch' = [batch EXCEPT ![w] = NoEvent]
  /\ UNCHANGED <<fact, link, busRest, noticeRest, delivery, sending>>

\* ReplayBusinessEvent.
ReplayBusinessEvent(p) ==
  /\ event[p].status = "failed"
  /\ event' = [event EXCEPT ![p] = Replayed(@)]
  /\ UNCHANGED <<fact, link, batch, busRest, noticeRest, delivery, sending, busFaults>>

-----------------------------------------------------------------------------
(* The consumers.                                                          *)

\* The record the group reads next.
HasNext(w, g) == offset[w][g] < Len(log[w])
NextRecord(w, g) == log[w][offset[w][g] + 1]

\* drain commits the offset after the record was delivered or given up.
Commit(w, g) ==
  /\ offset' = [offset EXCEPT ![w][g] = @ + 1]
  /\ handled' = [handled EXCEPT ![w][g] = @ \cup {offset[w][g] + 1}]

\* retryAttempts deliveries of the record failed: it is skipped with a warning.
SkipRecord(w, g) ==
  /\ HasNext(w, g) /\ (g = "notifications" => slot[w] = Nobody)
  /\ Fault
  /\ Commit(w, g)
  /\ UNCHANGED <<fact, link, event, batch, log, slot, noticeRest, delivery, sending>>

\* Mutant: the slot is not looked at.
SlotFreeMutant(p) == TRUE

\* merchant_notified_at IS NULL.
SlotFree(p) == p \notin notified

\* HandlePaymentSucceeded of the notifications: a claimed slot ends the handler,
\* a failed payment is a topic this group does not read.
ClaimMerchantNotification(w) ==
  LET g == "notifications"
      p == NextRecord(w, g)
  IN  /\ HasNext(w, g) /\ slot[w] = Nobody
      /\ IF fact[p] = "succeeded" /\ SlotFree(p)
         THEN /\ notified' = notified \cup {p}
              /\ slot' = [slot EXCEPT ![w] = p]
              /\ UNCHANGED <<offset, handled>>
         ELSE Commit(w, g) /\ UNCHANGED <<notified, slot>>
      /\ UNCHANGED <<fact, link, event, batch, log, notices, delivery, sending, busFaults>>

\* NotifyMerchantPayment enqueues the message; when the payment cannot be read
\* the handler fails, and its redelivery finds the slot claimed.
NotifyMerchantPayment(w) ==
  /\ slot[w] # Nobody
  /\ \/ notices' = [notices EXCEPT ![slot[w]] = @ + 1] /\ UNCHANGED busFaults
     \/ Fault /\ UNCHANGED notices
  /\ slot' = [slot EXCEPT ![w] = Nobody]
  /\ Commit(w, "notifications")
  /\ UNCHANGED <<fact, link, event, batch, log, notified, delivery, sending>>

\* payment_id = $1 AND status <> 'paid'.
Attached(p) == link.payment = p /\ link.status # "paid"

\* HandlePaymentSucceeded and HandlePaymentFailed of the webhooks: a success
\* closes the link, then the delivery is queued once per payment and topic.
EnqueueMerchantWebhook(w) ==
  LET g == "webhooks"
      p == NextRecord(w, g)
  IN  /\ HasNext(w, g)
      /\ link' = IF fact[p] = "succeeded" /\ Attached(p)
                 THEN [link EXCEPT !.status = "paid"] ELSE link
      /\ delivery' = IF delivery[p].status = "none"
                     THEN [delivery EXCEPT ![p] = Queued] ELSE delivery
      /\ Commit(w, g)
      /\ UNCHANGED <<fact, event, batch, log, slot, noticeRest, sending, busFaults>>

-----------------------------------------------------------------------------
(* The deliverer.                                                          *)

\* ClaimMerchantWebhooks.
ClaimMerchantWebhooks(w, p) ==
  /\ sending[w] = NoDelivery
  /\ Claimable(delivery[p])
  /\ delivery' = [delivery EXCEPT ![p] = Claimed(@)]
  /\ sending' = [sending EXCEPT ![w] = [id |-> p, attempts |-> delivery[p].attempts]]
  /\ UNCHANGED <<fact, link, event, batch, busRest, noticeRest, busFaults>>

\* deliver: the merchant accepts or has no URL, or the post fails and is
\* scheduled again; either update may fail too.
Deliver(w) ==
  /\ sending[w] # NoDelivery
  /\ LET d == sending[w]
     IN  \/ delivery' = [delivery EXCEPT ![d.id] = Completed(@)] /\ UNCHANGED busFaults
         \/ Fault /\ delivery' = [delivery EXCEPT ![d.id] = Retried(@, d.attempts)]
         \/ Fault /\ UNCHANGED delivery
  /\ sending' = [sending EXCEPT ![w] = NoDelivery]
  /\ UNCHANGED <<fact, link, event, batch, busRest, noticeRest>>

\* The process dies: its bus, its batches and its consumers are gone.
BusCrash(w) ==
  /\ Fault
  /\ batch' = [batch EXCEPT ![w] = NoEvent]
  /\ log' = [log EXCEPT ![w] = <<>>]
  /\ offset' = [offset EXCEPT ![w] = [g \in Groups |-> 0]]
  /\ slot' = [slot EXCEPT ![w] = Nobody]
  /\ handled' = [handled EXCEPT ![w] = [g \in Groups |-> {}]]
  /\ sending' = [sending EXCEPT ![w] = NoDelivery]
  /\ UNCHANGED <<fact, link, event, noticeRest, delivery>>

\* A backoff is over, a lease ends.
EventElapse(p) ==
  /\ Elapsing(event[p])
  /\ \A w \in Processes : batch[w].id # p
  /\ event' = [event EXCEPT ![p] = Elapsed(@)]
  /\ UNCHANGED <<fact, link, batch, busRest, noticeRest, delivery, sending, busFaults>>

DeliveryElapse(p) ==
  /\ Elapsing(delivery[p])
  /\ \A w \in Processes : sending[w].id # p
  /\ delivery' = [delivery EXCEPT ![p] = Elapsed(@)]
  /\ UNCHANGED <<fact, link, event, batch, busRest, noticeRest, sending, busFaults>>

-----------------------------------------------------------------------------
DrainEvents(w) ==
  \/ \E p \in Attempts : ClaimBusinessEvents(w, p)
  \/ Publish(w) \/ CompleteBusinessEvent(w)

Consume(w) ==
  ClaimMerchantNotification(w) \/ NotifyMerchantPayment(w) \/ EnqueueMerchantWebhook(w)

DeliverDue(w) == (\E p \in Attempts : ClaimMerchantWebhooks(w, p)) \/ Deliver(w)

Customers ==
  \/ \E p \in Attempts : ResolveCheckout(p) \/ LinkCheckoutPayment(p)
  \/ \E p \in Attempts, to \in {"succeeded", "failed"} : ResolvePayment(p, to)
  \/ ExpireCheckouts

BusNext ==
  \/ Customers
  \/ \E w \in Processes : DrainEvents(w) \/ Consume(w) \/ DeliverDue(w)
  \/ \E w \in Processes : RetryBusinessEvent(w) \/ BusCrash(w)
  \/ \E w \in Processes, g \in Groups : SkipRecord(w, g)
  \/ \E p \in Attempts : ReplayBusinessEvent(p) \/ EventElapse(p) \/ DeliveryElapse(p)

BusSpec == BusInit /\ [][BusNext]_eventVars

\* Every ticker fires again, consumers read on, and leases end.
BusFairness ==
  /\ \A w \in Processes : WF_eventVars(DrainEvents(w)) /\ WF_eventVars(DeliverDue(w))
  /\ \A w \in Processes : WF_eventVars(EnqueueMerchantWebhook(w))
  /\ \A p \in Attempts : WF_eventVars(EventElapse(p)) /\ WF_eventVars(DeliveryElapse(p))

-----------------------------------------------------------------------------
(* Properties.                                                             *)

\* The rows and the logs have the shape the code gives them.
BusTypeOK ==
  /\ fact \in [Attempts -> {"none", "draft", "linked", "succeeded", "failed"}]
  /\ link \in [status : {"open", "paid", "expired"}, payment : Attempts \cup {Nobody}]
  /\ event \in [Attempts -> Row] /\ delivery \in [Attempts -> Row]
  /\ batch \in [Processes -> [id : Attempts, attempts : Nat, out : BOOLEAN] \cup {NoEvent}]
  /\ sending \in [Processes -> [id : Attempts, attempts : Nat] \cup {NoDelivery}]
  /\ log \in [Processes -> Seq(Attempts)]
  /\ slot \in [Processes -> Attempts \cup {Nobody}]
  /\ offset \in [Processes -> [Groups -> Nat]]
  /\ handled \in [Processes -> [Groups -> SUBSET Nat]]
  /\ notified \subseteq Attempts /\ notices \in [Attempts -> Nat]
  /\ busFaults \in 0 .. MaxBusFaults

\* Redelivered records, overlapping replicas and crashes never tell the
\* merchant twice or of a payment that did not succeed.
NotifiedOnce ==
  \A p \in Attempts : notices[p] <= 1 /\ (notices[p] = 1 => fact[p] = "succeeded")

\* A group's offset never passes a record it did not handle or give up.
NothingPassedOver ==
  \A w \in Processes, g \in Groups : handled[w][g] = 1 .. offset[w][g]

\* A link is shown as paid only when a payment made from it succeeded.
PaidLinkIsPaid ==
  link.status = "paid" => \E p \in Attempts : fact[p] = "succeeded"

\* What a merchant may rely on when replicas die, handlers fail and records
\* are delivered again.
BusIsFaithful == NotifiedOnce /\ NothingPassedOver /\ PaidLinkIsPaid

\* Every event that waits is published or given up, and so is every delivery.
RowEnds(row) == row.status \in {"done", "failed"}
EveryEventEnds ==
  \A p \in Attempts : /\ event[p].status # "none" ~> RowEnds(event[p])
                      /\ delivery[p].status # "none" ~> RowEnds(delivery[p])

-----------------------------------------------------------------------------
(* What a reader might expect and the code does not do.                    *)

\* "exactly-once per successful publish (at-least-once overall)": a published
\* event reached the webhook consumer, although the process died.
PublishedIsConsumed ==
  \A p \in Attempts : event[p].status = "done" /\ fact[p] = "succeeded"
    ~> delivery[p].status # "none"

\* A link is paid by one payment only.
LinkPaidOnce == Cardinality({p \in Attempts : fact[p] = "succeeded"}) <= 1
=============================================================================
