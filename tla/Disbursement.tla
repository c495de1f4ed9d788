---------------------------- MODULE Disbursement ----------------------------
(***************************************************************************)
(* What a wallet cash-out promises its customer, with no queue, worker,    *)
(* bank rail or retry in sight: the money is taken out of the wallet when  *)
(* the request is accepted and is then either paid to the bank account or  *)
(* returned to the wallet.  The bank's word is taken for what happened: it *)
(* is both only when the bank had paid and, asked last, denied it.  The    *)
(* wallet never goes below zero.                                           *)
(***************************************************************************)
EXTENDS Integers

CONSTANTS Users,        \* customers, one wallet each
          Payouts,      \* cash-out requests
          Owner,        \* [Payouts -> Users]
          Amount,       \* [Payouts -> kobo debited from the wallet]
          Funds         \* [Users -> kobo in the wallet at the start]

VARIABLES balance,      \* [Users -> kobo]
          disposition   \* [Payouts -> Dispositions]

vars == <<balance, disposition>>

Dispositions == {"none", "held", "paid", "denied", "returned", "both"}

Init ==
  /\ balance = Funds
  /\ disposition = [p \in Payouts |-> "none"]

\* The wallet can afford the request: its money is set aside.
Hold(p) ==
  /\ disposition[p] = "none"
  /\ balance[Owner[p]] >= Amount[p]
  /\ balance' = [balance EXCEPT ![Owner[p]] = @ - Amount[p]]
  /\ disposition' = [disposition EXCEPT ![p] = "held"]

\* The bank account is credited, and the bank says so or denies it.
Pay(p) ==
  /\ disposition[p] = "held"
  /\ \E word \in {"paid", "denied"} : disposition' = [disposition EXCEPT ![p] = word]
  /\ UNCHANGED balance

\* Asked again, the bank says something else about what it paid.
Reword(p) ==
  /\ disposition[p] \in {"paid", "denied"}
  /\ \E word \in {"paid", "denied"} : disposition' = [disposition EXCEPT ![p] = word]
  /\ UNCHANGED balance

\* The transfer is given up, as far as the bank says, and the wallet gets its
\* money back.
Return(p) ==
  /\ disposition[p] \in {"held", "denied"}
  /\ balance' = [balance EXCEPT ![Owner[p]] = @ + Amount[p]]
  /\ disposition' = [disposition EXCEPT ![p] = IF @ = "held" THEN "returned" ELSE "both"]

Next == \E p \in Payouts : Hold(p) \/ Pay(p) \/ Reword(p) \/ Return(p)

Spec == Init /\ [][Next]_vars
=============================================================================
