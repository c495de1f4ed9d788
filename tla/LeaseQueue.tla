----------------------------- MODULE LeaseQueue -----------------------------
(***************************************************************************)
(* A row of a durable queue, as the business-event outbox, the merchant    *)
(* webhook deliveries and the message outbox keep it: a worker claims due  *)
(* rows under a lease of five minutes, and completes each by its id or     *)
(* schedules a bounded retry with the attempts it read at the claim.       *)
(***************************************************************************)
EXTENDS Integers

CONSTANT MaxTries  \* retries until a row is given up (5)

ASSUME LeaseAssumption == MaxTries \in Nat \ {0}

RowStatus == {"none", "pending", "leased", "done", "failed"}
Row == [status : RowStatus, attempts : Nat, due : BOOLEAN]

NoRow == [status |-> "none", attempts |-> 0, due |-> FALSE]

\* due is available_at <= now(); it means nothing once the row is finished.
Queued == [status |-> "pending", attempts |-> 0, due |-> TRUE]

\* Mutant: a leased row counts as taken for good.
ClaimableMutant(row) == row.status = "pending" /\ row.due

\* A waiting row, or one whose lease ended.
Claimable(row) == row.status \in {"pending", "leased"} /\ row.due

Claimed(row) == [row EXCEPT !.status = "leased", !.due = FALSE]

\* Written by id, whatever the row says by now.
Completed(row) == [status |-> "done", attempts |-> row.attempts + 1, due |-> FALSE]

\* nextAttempts >= 5, of the attempts read at the claim.
Retried(row, read) ==
  [status   |-> IF read + 1 >= MaxTries THEN "failed" ELSE "pending",
   attempts |-> read + 1,
   due      |-> FALSE]

\* An administrator opens a row that was given up.
Replayed(row) == Queued

\* Time passes available_at: a backoff is over, a lease ends.
Elapsed(row) == [row EXCEPT !.due = TRUE]
Elapsing(row) == row.status \in {"pending", "leased"} /\ ~row.due
=============================================================================
