------------------------------ MODULE MCCashOut ------------------------------
(***************************************************************************)
(* TLC instances of CashOut: one customer whose cash-outs do not all fit   *)
(* in the wallet nor under the ceiling, and two goroutines that dispatch   *)
(* (a request handler and the sweep, or the sweeps of two replicas).       *)
(***************************************************************************)
EXTENDS CashOut

CONSTANTS u1, p1, p2, p3, w1, w2

OneUser == {u1}
OnePayout == {p1}
ThreePayouts == {p1, p2, p3}
TwoWorkers == {w1, w2}

OneOwner == [p \in OnePayout |-> u1]
ThreeOwner == [p \in ThreePayouts |-> u1]

OneAmount == [p \in OnePayout |-> 2]
ThreeAmount == [p \in ThreePayouts |-> 2]

ThreeKobo == [u \in OneUser |-> 3]
=============================================================================
