---------------------------- MODULE MCSettlement ----------------------------
(***************************************************************************)
(* TLC instances of Settlement: one merchant, one or two payments and      *)
(* batches, two sessions (an API request and the worker, or two requests). *)
(***************************************************************************)
EXTENDS Settlement, TLC

CONSTANTS pay1, pay2, b1, b2, s1, s2, admin1, admin2

OnePayment  == {pay1}
TwoPayments == {pay1, pay2}
OneBatch    == {b1}
TwoBatches  == {b1, b2}
OneSession  == {s1}
TwoSessions == {s1, s2}
NoReviewer  == {}
OneReviewer == {admin1}
TwoReviewers == {admin1, admin2}

FourKobo == [p \in OnePayment |-> 4]
FourKoboEach == [p \in TwoPayments |-> 4]

SessionSymmetry == Permutations(TwoSessions)
AllSymmetry == SessionSymmetry \cup Permutations(TwoPayments)
                 \cup Permutations(TwoReviewers)

\* Bound: a behaviour in which a payment is refunded has no crash, and while a
\* held payout is reviewed or re-evaluated no payment has been refunded.
Apart ==
  \/ /\ crashes = 0
     /\ \A a \in Sessions \cup Reviewers : session[a].pc \notin {"reviewing", "rescreening"}
  \/ /\ \A p \in Payments : refund[p] = "none"
     /\ \A a \in Sessions : session[a].pc # "refunding"
=============================================================================
