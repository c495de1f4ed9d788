------------------------------ MODULE Remittance ------------------------------
(***************************************************************************)
(* Cash pickup at an agent (store_remittances.go, ..._redeem.go).  The     *)
(* sender picks an area and is assigned its least loaded agent; once the   *)
(* sender's payment succeeds its hook opens the remittance, holding the    *)
(* amount on an account of its own and crediting the agent's commission.   *)
(* The recipient presents the pickup code and a one-time code the sender   *)
(* requested; an unclaimed remittance is refunded after its window.        *)
(*                                                                         *)
(* A redemption locks every pending pickup of its agent before it reads    *)
(* the caps; the sweep takes only rows nobody holds.                       *)
(***************************************************************************)
EXTENDS Integers, FiniteSets, Functions

CONSTANTS Remits,      \* sender payments, each the key of the remittance it opens
          Agents,      \* the active agents of the area
          Desks,       \* redemptions under way at the agents' consoles
          Amount,      \* what every recipient collects
          Commission,  \* of the agent
          AgentDailyCap,
          MaxGuesses,  \* max_attempts of a one-time code
          MaxCodes     \* bound: one-time codes requested

ASSUME RemittanceAssumption ==
  /\ IsFiniteSet(Remits)
  /\ {Amount, Commission, AgentDailyCap, MaxGuesses, MaxCodes} \subseteq Nat
  /\ Amount > 0 /\ MaxGuesses > 0

VARIABLES sender,   \* [Remits -> the sender's order: step, agent and its hook]
          remit,   \* [Remits -> the remittances row, its pickup row and its window]
          otp,     \* [Remits -> the newest one-time code: status, attempts; codes so far]
          desk,    \* [Desks -> the redemption: where it is, for what, with which code]
          screen,  \* [Remits -> the recorded screening decision]
          money    \* balances of the payables, the agents' floats, the sender's wallet,
                   \* and the cash the agents handed out

remittanceVars == <<sender, remit, otp, desk, screen, money>>

NoDesk == [pc |-> "idle", agent |-> {}, remit |-> {}, locks |-> {}]

RemittanceInit ==
  /\ sender = [r \in Remits |-> [step |-> "none", agent |-> {}]]
  /\ remit = [r \in Remits |-> [status |-> "none", pickup |-> "none", due |-> FALSE]]
  /\ otp = [r \in Remits |-> [status |-> "none", attempts |-> 0, issued |-> 0, wrong |-> 0]]
  /\ desk = [d \in Desks |-> NoDesk]
  /\ screen = [r \in Remits |-> "none"]
  /\ money = [payable |-> [r \in Remits |-> 0], float |-> [a \in Agents |-> 0],
              wallet |-> [r \in Remits |-> 0], cash |-> [r \in Remits |-> [a \in Agents |-> 0]]]

Awaiting(r) == remit[r].status = "awaiting_pickup"
AgentOf(r) == CHOOSE a \in Agents : a \in sender[r].agent
Waiting(a) == {r \in Remits : Awaiting(r) /\ a \in sender[r].agent}

-----------------------------------------------------------------------------
(* The sender.                                                             *)

\* AssignAgentInRegion: fewest remittances waiting; the choice is kept in the
\* conversation and may be stale when the payment succeeds.
SelectRemittanceRegion(r) ==
  /\ sender[r].step = "none"
  /\ \E a \in Agents :
       /\ \A b \in Agents : Cardinality(Waiting(a)) <= Cardinality(Waiting(b))
       /\ sender' = [sender EXCEPT ![r] = [step |-> "chosen", agent |-> {a}]]
  /\ UNCHANGED <<remit, otp, desk, screen, money>>

\* CreateRemittanceDraft and the payment: success queues the hook.
PayRemittance(r) ==
  /\ sender[r].step = "chosen"
  /\ sender' = [sender EXCEPT ![r].step = "paid"]
  /\ UNCHANGED <<remit, otp, desk, screen, money>>

\* Mutant: the remittance of the payment is not looked up first.
OpenedMutant(r) == FALSE

\* A remittance with this payment_id exists.
Opened(r) == remit[r].status # "none"

\* CreateRemittanceTx, called by the hook or by its retry.
CreateRemittanceTx(r) ==
  /\ sender[r].step \in {"paid", "retry"}
  /\ IF Opened(r)
     THEN sender' = [sender EXCEPT ![r].step = "done"] /\ UNCHANGED <<remit, money>>
     ELSE /\ sender' = [sender EXCEPT ![r].step = "opened"]
          /\ remit' = [remit EXCEPT ![r] = [status |-> "awaiting_pickup",
                                            pickup |-> "pending", due |-> FALSE]]
          /\ money' = [money EXCEPT !.payable[r] = @ + Amount,
                                    !.float[AgentOf(r)] = @ + Commission]
  /\ UNCHANGED <<otp, desk, screen>>

\* The pickup code is queued for the sender once the remittance is committed;
\* when that fails the hook is retried.
DeliverPickupCode(r) ==
  /\ sender[r].step = "opened"
  /\ sender' = [sender EXCEPT ![r].step = "told"]
  /\ UNCHANGED <<remit, otp, desk, screen, money>>

DeliveryFails(r) ==
  /\ sender[r].step = "opened"
  /\ sender' = [sender EXCEPT ![r].step = "retry"]
  /\ UNCHANGED <<remit, otp, desk, screen, money>>

\* RequestRemittanceOTP, while no redemption holds the row: the active code is
\* retired and another one issued.
RequestRemittanceOTP(r) ==
  /\ otp[r].issued < MaxCodes
  /\ \A d \in Desks : r \notin desk[d].locks
  /\ Awaiting(r) /\ ~remit[r].due
  /\ otp' = [otp EXCEPT ![r] = [status |-> "active", attempts |-> 0,
                                issued |-> @.issued + 1, wrong |-> 0]]
  /\ UNCHANGED <<sender, remit, desk, screen, money>>

\* The lifetime of a one-time code ends.
OTPLapses(r) ==
  /\ otp[r].status = "active"
  /\ otp' = [otp EXCEPT ![r].status = "lapsed"]
  /\ UNCHANGED <<sender, remit, desk, screen, money>>

-----------------------------------------------------------------------------
(* The redemption.                                                         *)

\* RemittanceForAgentCode shows the remittance of the code, without a lock, and
\* screenRecipient records the decision that every later attempt reuses.
LookUpPickup(d, r) ==
  /\ desk[d].pc = "idle"
  /\ Awaiting(r) /\ remit[r].pickup = "pending"
  /\ \E decision \in IF screen[r] = "none" THEN {"clear", "blocked"} ELSE {screen[r]} :
       /\ screen' = [screen EXCEPT ![r] = decision]
       /\ desk' = IF decision = "blocked" THEN desk
                  ELSE [desk EXCEPT ![d] = [pc |-> "found", agent |-> sender[r].agent,
                                            remit |-> {r}, locks |-> {}]]
  /\ UNCHANGED <<sender, remit, otp, money>>

The(d) == CHOOSE r \in Remits : r \in desk[d].remit
At(d)  == CHOOSE a \in Agents : a \in desk[d].agent
Held   == UNION {desk[d].locks : d \in Desks}

\* Mutant: only the pickup of the presented code is locked.
LocksMutant(d) == desk[d].remit \cap Waiting(At(d))

\* FOR UPDATE OF p, r: every pending pickup of the agent.
Locks(d) == {r \in Waiting(At(d)) : remit[r].pickup = "pending"}

\* findRedeemCandidate, once the locks are free; the code may be gone by now.
FindRedeemCandidate(d) ==
  /\ desk[d].pc = "found" /\ Locks(d) \cap Held = {}
  /\ desk' = [desk EXCEPT ![d] =
                IF The(d) \in Locks(d) /\ ~remit[The(d)].due
                THEN [@ EXCEPT !.pc = "locked", !.locks = Locks(d)] ELSE NoDesk]
  /\ UNCHANGED <<sender, remit, otp, screen, money>>

\* Mutant: the refusal rolls the attempt back.
CountGuessMutant(o) == [o EXCEPT !.wrong = @ + 1]

\* The attempt is committed with the refusal; the last one expires the code.
CountGuess(o) ==
  [o EXCEPT !.attempts = @ + 1, !.wrong = @ + 1,
            !.status = IF o.attempts + 1 >= MaxGuesses THEN "expired" ELSE @]

\* verifyRedemptionOTP refuses: no active code, a lapsed one, or a wrong guess.
RefuseOTP(d) ==
  LET r == The(d)
  IN  /\ desk[d].pc = "locked"
      /\ otp' = CASE otp[r].status = "active" -> [otp EXCEPT ![r] = CountGuess(@)]
                  [] otp[r].status = "lapsed" -> [otp EXCEPT ![r].status = "expired"]
                  [] OTHER -> otp
      /\ desk' = [desk EXCEPT ![d] = NoDesk]
      /\ UNCHANGED <<sender, remit, screen, money>>

\* agentPaidTodayTx.
PaidToday(a) == SumFunctionOnSet([r \in Remits |-> money.cash[r][a]], Remits)

\* The code is right: the caps are read under the locks.  A refusal rolls the
\* consumed code back.
CheckPayout(d) ==
  /\ desk[d].pc = "locked" /\ otp[The(d)].status = "active"
  /\ desk' = [desk EXCEPT ![d] =
                IF PaidToday(At(d)) + Amount <= AgentDailyCap
                THEN [@ EXCEPT !.pc = "allowed"] ELSE NoDesk]
  /\ UNCHANGED <<sender, remit, otp, screen, money>>

\* The payout: the money moves, the codes are retired and the row is closed in
\* one transaction.
RedeemPickupTx(d) ==
  LET r == The(d)
  IN  /\ desk[d].pc = "allowed"
      /\ money' = [money EXCEPT !.payable[r] = @ - Amount, !.float[At(d)] = @ + Amount,
                                !.cash[r][At(d)] = @ + Amount]
      /\ remit' = [remit EXCEPT ![r].status = "paid", ![r].pickup = "redeemed"]
      /\ otp' = [otp EXCEPT ![r].status = "consumed"]
      /\ desk' = [desk EXCEPT ![d] = NoDesk]
      /\ UNCHANGED <<sender, screen>>

\* The console or its database session dies: the locks go, nothing was written.
RedemptionDies(d) ==
  /\ desk[d].pc # "idle"
  /\ desk' = [desk EXCEPT ![d] = NoDesk]
  /\ UNCHANGED <<sender, remit, otp, screen, money>>

-----------------------------------------------------------------------------
(* The window.                                                             *)

WindowEnds(r) ==
  /\ Awaiting(r) /\ ~remit[r].due
  /\ remit' = [remit EXCEPT ![r].due = TRUE]
  /\ UNCHANGED <<sender, otp, desk, screen, money>>

\* Mutant: the sweep waits for nobody and takes rows a redemption holds.
SweptMutant(r) == Awaiting(r) /\ remit[r].due

\* Due rows that no transaction holds.
Swept(r) == Awaiting(r) /\ remit[r].due /\ r \notin Held

\* ExpireRemittances, for one row: the amount and the commission go to the
\* sender's wallet, whatever the agent's float is by now.
ExpireRemittance(r) ==
  /\ Swept(r)
  /\ remit' = [remit EXCEPT ![r].status = "expired",
                            ![r].pickup = IF @ = "pending" THEN "expired" ELSE @]
  /\ otp' = [otp EXCEPT ![r].status = IF @ \in {"active", "lapsed"} THEN "expired" ELSE @]
  /\ money' = [money EXCEPT !.payable[r] = @ - Amount,
                            !.float[AgentOf(r)] = @ - Commission,
                            !.wallet[r] = @ + Amount + Commission]
  /\ UNCHANGED <<sender, desk, screen>>

RemittanceNext ==
  \/ \E r \in Remits : \/ SelectRemittanceRegion(r)
                       \/ PayRemittance(r)
                       \/ CreateRemittanceTx(r)
                       \/ DeliverPickupCode(r)
                       \/ DeliveryFails(r)
                       \/ RequestRemittanceOTP(r)
                       \/ OTPLapses(r)
                       \/ WindowEnds(r)
                       \/ ExpireRemittance(r)
  \/ \E d \in Desks, r \in Remits : LookUpPickup(d, r)
  \/ \E d \in Desks : \/ FindRedeemCandidate(d)
                      \/ RefuseOTP(d)
                      \/ CheckPayout(d)
                      \/ RedeemPickupTx(d)
                      \/ RedemptionDies(d)

RemittanceSpec == RemittanceInit /\ [][RemittanceNext]_remittanceVars

-----------------------------------------------------------------------------
\* The amount of a remittance is in one place: held while it waits, handed out
\* once, by the agent it was assigned, when it is paid, back in the wallet with
\* the commission when it expired; whichever of redemption, sweep and hook retry
\* meet.
PickupGoesOneWay ==
  \A r \in Remits :
    /\ money.payable[r] = (IF Awaiting(r) THEN Amount ELSE 0)
    /\ remit[r].status # "none" => \E a \in Agents : sender[r].agent = {a}
    /\ \A a \in Agents :
         money.cash[r][a] = (IF remit[r].status = "paid" /\ a \in sender[r].agent THEN Amount ELSE 0)
    /\ money.wallet[r] = (IF remit[r].status = "expired" THEN Amount + Commission ELSE 0)

\* What an agent handed out for a remittance, and its commission while it is not
\* relieved of it.
Owed(r, a) == money.cash[r][a]
  + IF a \in sender[r].agent /\ remit[r].status \in {"awaiting_pickup", "paid"} THEN Commission ELSE 0

\* An agent's float is what it is owed for the remittances it serves.
FloatIsOwed ==
  \A a \in Agents : money.float[a] = SumFunctionOnSet([r \in Remits |-> Owed(r, a)], Remits)

\* An agent never hands out more in a day than its cap, also when two operators
\* redeem at once.
AgentCapHolds == \A a \in Agents : PaidToday(a) <= AgentDailyCap

\* A one-time code is never tried more often than it allows.
GuessesAreBounded == \A r \in Remits : otp[r].wrong <= MaxGuesses

RemittanceSafe == PickupGoesOneWay /\ FloatIsOwed /\ AgentCapHolds /\ GuessesAreBounded

RemittanceTypeOK ==
  /\ \A r \in Remits : /\ Cardinality(sender[r].agent) <= 1
                       /\ otp[r].attempts \in 0 .. MaxGuesses
                       /\ otp[r].issued \in 0 .. MaxCodes
  /\ DOMAIN desk = Desks

\* What a reader might expect and the code does not do: the retried hook finds
\* the remittance and never sends the code.
CodeReachesSender == \A r \in Remits : sender[r].step # "done"
=============================================================================
