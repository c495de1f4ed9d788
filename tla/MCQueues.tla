------------------------------ MODULE MCQueues ------------------------------
(***************************************************************************)
(* The durable queues share no rows.  A behaviour is one of the inbound    *)
(* queue, of the event bus, of the outbox or of the platforms' webhooks,   *)
(* the others stay as they are, so one run explores all four.              *)
(***************************************************************************)
EXTENDS InboundQueue, EventBus, Outbox, Receivers

CONSTANTS m1, m2, r1, r2, a1, a2, w1, t1, s1, s2, b1, b2, x1, x2, h1, h2

VARIABLE focus  \* the queue of this behaviour

QueuesInit ==
  /\ focus \in {"inbound", "bus", "outbox", "webhooks"}
  /\ Init /\ BusInit /\ OutboxInit /\ ReceiverInit
  /\ focus # "webhooks" => platform = "whatsapp"

QueuesNext ==
  /\ UNCHANGED focus
  /\ \/ focus = "inbound" /\ Next /\ UNCHANGED <<eventVars, outboxVars, receiverVars>>
     \/ focus = "bus" /\ BusNext /\ UNCHANGED <<vars, outboxVars, receiverVars>>
     \/ focus = "outbox" /\ OutboxNext /\ UNCHANGED <<vars, eventVars, receiverVars>>
     \/ focus = "webhooks" /\ ReceiverNext /\ UNCHANGED <<vars, eventVars, outboxVars>>

\* The fair actions of a queue that stays as it is are never enabled.
QueuesSpec ==
  /\ QueuesInit /\ [][QueuesNext]_<<focus, vars, eventVars, outboxVars, receiverVars>>
  /\ Fairness /\ BusFairness

\* The type invariants of the four.
QueuesTypeOK == TypeOK /\ BusTypeOK /\ OutboxTypeOK /\ ReceiverTypeOK

\* What a merchant, a customer or a platform is told, and how often.
ToldFaithfully == BusIsFaithful /\ RepeatsAreFaults /\ AcceptedIsQueued

\* No queue leaves a row waiting for ever.
EveryRowEnds == EveryMessageEnds /\ EveryEventEnds

TwoMessages == {m1, m2}
OneChat     == {1}
InOneChat   == [m \in TwoMessages |-> 1]
TwoReplicas == {r1, r2}
TwoAttempts == {a1, a2}
OneProcess  == {w1}
OneText     == {t1}
TwoSenders  == {s1, s2}
TwoPosts    == {b1, b2}
TwoContents == {x1, x2}
Overlapping == [p \in TwoPosts |-> IF p = b1 THEN <<x1>> ELSE <<x1, x2>>]
TwoHandlers == {h1, h2}
=============================================================================
