---------------------------- MODULE InboundQueue ----------------------------
(***************************************************************************)
(* The durable queue between the channel webhooks and the conversation: a  *)
(* webhook enqueues a customer's message, each replica claims a batch of   *)
(* due rows under a lease, answers every conversation of the batch in its  *)
(* own goroutine, one message after the other, and completes the row or    *)
(* schedules a retry.                                                      *)
(*                                                                         *)
(* A claim is two steps: the statement that lists due conversations, and,  *)
(* once their advisory locks are granted, the statement that claims rows.  *)
(* Claims of one conversation exclude each other in the second step, which *)
(* commits before it gives the locks back.                                 *)
(***************************************************************************)
EXTENDS Integers, FiniteSets

CONSTANTS Messages,
          Chats,        \* recipients, numbered in the order the claim sorts them
          Recipient,    \* [Messages -> Chats]
          Replicas,
          Limit,        \* recipients and rows per claim (20)
          MaxAttempts,  \* retries until a message is given up (5)
          MaxFailures,  \* bound: process deaths and failed updates
          MaxOverruns   \* bound: leases that end under a running handler

ASSUME QueueAssumption ==
  /\ IsFiniteSet(Messages)
  /\ Chats \subseteq Nat
  /\ Recipient \in [Messages -> Chats]
  /\ Limit \in Nat \ {0}
  /\ MaxAttempts \in Nat \ {0}
  /\ MaxFailures \in Nat
  /\ MaxOverruns \in Nat

VARIABLES row,       \* [Messages -> its inbound_messages row]
          listed,    \* [Replicas -> the conversations its claim has listed]
          group,     \* [Replicas -> [Chats -> its goroutine for the conversation]]
          overrun,   \* messages whose lease ended under a running handler
          failures

vars == <<row, listed, group, overrun, failures>>

RowStatuses == {"none", "pending", "processing", "processed", "failed"}
Pcs == {"load", "reply", "done", "error"}

NoMessage == [status |-> "none", attempts |-> 0, due |-> FALSE, received |-> 0]
NoGroup == [todo |-> {}, pc |-> "load"]

\* due is available_at <= now(); it means nothing once the row is finished.
\* received is received_at: how many messages had arrived.
Init ==
  /\ row = [m \in Messages |-> NoMessage]
  /\ listed = [r \in Replicas |-> {}]
  /\ group = [r \in Replicas |-> [c \in Chats |-> NoGroup]]
  /\ overrun = {}
  /\ failures = 0

\* Messages of the batch that the replica has not finished.
Held(r) == UNION {{t.id : t \in group[r][c].todo} : c \in Chats}

\* The gate of the inbound handler is free: one batch at a time per replica.
Idle(r) == listed[r] = {} /\ Held(r) = {}

-----------------------------------------------------------------------------
\* Webhooks are delivered again; a known message id is dropped.
EnqueueInboundMessage(m) ==
  /\ row[m].status = "none"
  /\ row' = [row EXCEPT ![m] = [status |-> "pending", attempts |-> 0, due |-> TRUE,
                                 received |-> 1 + Cardinality({n \in Messages : row[n].status # "none"})]]
  /\ UNCHANGED <<listed, group, overrun, failures>>

\* Mutant: the claim forgets available_at.
DueMutant(m) == row[m].status \in {"pending", "processing"}

\* A row waits, or the lease of its handler ended.
Due(m) == row[m].status \in {"pending", "processing"} /\ row[m].due

\* A handler works on the conversation, as far as the table tells.
Leased(c) == \E m \in Messages :
  Recipient[m] = c /\ row[m].status = "processing" /\ ~row[m].due

DueChats == {c \in Chats : ~Leased(c) /\ \E m \in Messages : Recipient[m] = c /\ Due(m)}

\* ClaimInboundMessages, first statement: due conversations without a lease,
\* the first Limit of them.
ListDue(r) ==
  /\ Idle(r)
  /\ DueChats # {}
  /\ listed' = [listed EXCEPT ![r] =
                  {c \in DueChats : Cardinality({d \in DueChats : d < c}) < Limit}]
  /\ UNCHANGED <<row, group, overrun, failures>>

\* The rows the second statement finds: due ones of the listed conversations,
\* oldest first.  It does not look for leases again.
Batch(r) ==
  LET all == {m \in Messages : Due(m) /\ Recipient[m] \in listed[r]}
  IN  {m \in all : Cardinality({n \in all : row[n].received < row[m].received}) < Limit}

\* The goroutine of one conversation: its part of the batch, each message with
\* the attempts the claim read.
GroupOf(batch, c) ==
  [todo |-> {[id |-> m, attempts |-> row[m].attempts] : m \in {n \in batch : Recipient[n] = c}},
   pc   |-> "load"]

\* A claimed row: counted and leased for five minutes.
Lease(old) ==
  [status |-> "processing", attempts |-> old.attempts + 1, due |-> FALSE, received |-> old.received]

\* ClaimInboundMessages, second statement, leases and commit; processInboundBatch
\* starts the conversations.
ClaimDue(r) ==
  /\ listed[r] # {}
  /\ row' = [m \in Messages |-> IF m \in Batch(r) THEN Lease(row[m]) ELSE row[m]]
  /\ group' = [group EXCEPT ![r] = [c \in Chats |-> GroupOf(Batch(r), c)]]
  /\ listed' = [listed EXCEPT ![r] = {}]
  /\ UNCHANGED <<overrun, failures>>

-----------------------------------------------------------------------------
At(r, c, pc) == group[r][c].todo # {} /\ group[r][c].pc = pc
Step(r, c, pc) == group' = [group EXCEPT ![r][c].pc = pc]

\* The message in the goroutine's hands: the oldest of its part.
IsCurrent(r, c, t) ==
  /\ t \in group[r][c].todo
  /\ \A u \in group[r][c].todo : row[t.id].received <= row[u.id].received
Advance(r, c, t) ==
  group' = [group EXCEPT ![r][c] = [todo |-> group[r][c].todo \ {t}, pc |-> "load"]]

\* Handle loads the customer's session.
LoadSession(r, c) ==
  /\ At(r, c, "load")
  /\ Step(r, c, "reply")
  /\ UNCHANGED <<row, listed, overrun, failures>>

\* Handle saves the session and replies, or returns an error.
Reply(r, c) ==
  /\ At(r, c, "reply")
  /\ \E end \in {"done", "error"} : Step(r, c, end)
  /\ UNCHANGED <<row, listed, overrun, failures>>

\* CompleteInboundMessage, by id, whatever the row says.
Complete(r, c, t) ==
  /\ At(r, c, "done") /\ IsCurrent(r, c, t)
  /\ row' = [row EXCEPT ![t.id] = [@ EXCEPT !.status = "processed", !.due = FALSE]]
  /\ Advance(r, c, t)
  /\ UNCHANGED <<listed, overrun, failures>>

\* nextAttempts >= 5, of the attempts read at the claim.
Exhausted(attempts) == attempts + 1 >= MaxAttempts

\* RetryInboundMessage: due again after a backoff, or given up.
Retry(r, c, t) ==
  /\ At(r, c, "error") /\ IsCurrent(r, c, t)
  /\ row' = [row EXCEPT ![t.id] =
               [@ EXCEPT !.status = IF Exhausted(t.attempts) THEN "failed" ELSE "pending", !.due = FALSE]]
  /\ Advance(r, c, t)
  /\ UNCHANGED <<listed, overrun, failures>>

\* The error of either update is dropped: the row keeps its lease.
UpdateFails(r, c, t) ==
  /\ (At(r, c, "done") \/ At(r, c, "error")) /\ IsCurrent(r, c, t)
  /\ failures < MaxFailures
  /\ failures' = failures + 1
  /\ Advance(r, c, t)
  /\ UNCHANGED <<row, listed, overrun>>

\* The process dies; an open claim rolls back.
Crash(r) ==
  /\ ~Idle(r) /\ failures < MaxFailures
  /\ failures' = failures + 1
  /\ listed' = [listed EXCEPT ![r] = {}]
  /\ group' = [group EXCEPT ![r] = [c \in Chats |-> NoGroup]]
  /\ UNCHANGED <<row, overrun>>

\* Time passes available_at: a backoff is over, a lease ends.
Elapse(m) ==
  /\ row[m].status \in {"pending", "processing"} /\ ~row[m].due
  /\ LET running == row[m].status = "processing" /\ \E r \in Replicas : m \in Held(r)
     IN  /\ running => m \in overrun \/ Cardinality(overrun) < MaxOverruns
         /\ overrun' = IF running THEN overrun \cup {m} ELSE overrun
  /\ row' = [row EXCEPT ![m].due = TRUE]
  /\ UNCHANGED <<listed, group, failures>>

\* What a goroutine of a batch does next.
Work(r, c) ==
  \/ LoadSession(r, c) \/ Reply(r, c)
  \/ \E t \in group[r][c].todo : Complete(r, c, t) \/ Retry(r, c, t)

Next ==
  \/ \E m \in Messages : EnqueueInboundMessage(m) \/ Elapse(m)
  \/ \E r \in Replicas : ListDue(r) \/ ClaimDue(r) \/ Crash(r)
  \/ \E r \in Replicas, c \in Chats :
       Work(r, c) \/ \E t \in group[r][c].todo : UpdateFails(r, c, t)

Spec == Init /\ [][Next]_vars

\* Some replica ticks, a claim and a goroutine that started go on, time passes.
Fairness ==
  /\ WF_vars(\E r \in Replicas : ListDue(r))
  /\ \A r \in Replicas : WF_vars(ClaimDue(r))
  /\ \A r \in Replicas, c \in Chats : WF_vars(Work(r, c))
  /\ \A m \in Messages : WF_vars(Elapse(m))

LiveSpec == Spec /\ Fairness

-----------------------------------------------------------------------------
(* Properties.                                                             *)

\* Rows, leases and batches have the shape the code gives them, and a replica
\* works on claimed rows of the right conversation only.
TypeOK ==
  /\ row \in [Messages -> [status : RowStatuses, attempts : Nat, due : BOOLEAN, received : Nat]]
  /\ listed \in [Replicas -> SUBSET Chats]
  /\ group \in [Replicas -> [Chats -> [todo : SUBSET [id : Messages, attempts : Nat], pc : Pcs]]]
  /\ \A r \in Replicas, c \in Chats : \A t \in group[r][c].todo :
       /\ Recipient[t.id] = c
       /\ row[t.id].attempts > t.attempts
  /\ overrun \subseteq Messages
  /\ failures \in 0 .. MaxFailures

\* A message is in the hands of one replica, whatever claims overlap and
\* whoever died, unless its handler outran the five minutes of its lease.
HeldOnce ==
  \A m \in Messages \ overrun, r, s \in Replicas :
    m \in Held(r) /\ m \in Held(s) => r = s

\* A message that waits has attempts left, and one that is given up has used
\* all of them, through retries, crashes and dropped updates.
RetriesAreBounded ==
  \A m \in Messages \ overrun :
    /\ row[m].status = "pending" => row[m].attempts < MaxAttempts
    /\ row[m].status = "failed"  => row[m].attempts >= MaxAttempts

\* A finished message is never opened again by a goroutine that comes late.
FinishedStays ==
  [][\A m \in Messages \ overrun :
       row[m].status \in {"processed", "failed"} => row'[m].status = row[m].status]_vars

\* Every message is answered or given up: neither a crash, nor a dropped update,
\* nor a conversation that sorts first leaves one waiting for ever.
EveryMessageEnds ==
  \A m \in Messages :
    row[m].status \in {"pending", "processing"} ~> row[m].status \in {"processed", "failed"}

-----------------------------------------------------------------------------
(* What the repository says of this code and the code does not do.         *)

\* "keeps the FSM's session load-modify-save cycle serial per conversation
\* even when several replicas claim at once": two replicas never have a
\* session of one conversation loaded.
SerialPerConversation ==
  \A r, s \in Replicas, c \in Chats :
    At(r, c, "reply") /\ At(s, c, "reply") => r = s
=============================================================================
