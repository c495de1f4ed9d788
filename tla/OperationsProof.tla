---------------------------- MODULE OperationsProof ----------------------------
(***************************************************************************)
(* Proofs about the four services that MCOperations composes and about the *)
(* ledger they post to, for any number of everything.  Each service has an *)
(* inductive invariant: RemittanceInv, BulkInv, PurseInv and DataInv.  The *)
(* ledger has RootInv and Balanced.                                        *)
(***************************************************************************)
EXTENDS Remittance, BulkPay, Purse, DataOrder, LedgerChain,
        Sums, FunctionTheorems, FiniteSetTheorems, TLAPS

\* The time a leaf may take on a slow machine.
USE SMTT(40), ZenonT(20)

-----------------------------------------------------------------------------
(* Remittances.  A redemption reads the pickup and the cap and pays later. *)
(* What makes that right is the invariant: what the rows of one remittance *)
(* say of each other (Sound), what a console that found it may rely on     *)
(* (Serves), that no two consoles hold pickups of one agent (DesksApart),  *)
(* and that the payout a console was allowed still fits its agent's cap    *)
(* (AllowedFits), which only another payout of the same agent could take.  *)

SenderSteps     == {"none", "chosen", "paid", "opened", "told", "retry", "done"}
Standings == {"none", "awaiting_pickup", "paid", "expired"}
Pickups   == {"none", "pending", "redeemed", "expired"}
Codes     == {"none", "active", "lapsed", "expired", "consumed"}
SenderOrders    == [step : SenderSteps, agent : SUBSET Agents]
RemitRows == [status : Standings, pickup : Pickups, due : BOOLEAN]
Guesses   == [status : Codes, attempts : Nat, issued : Nat, wrong : Nat]
Balances  == [payable : [Remits -> Int], float : [Agents -> Int],
              wallet : [Remits -> Int], cash : [Remits -> [Agents -> Int]]]
Redeeming == [pc : {"idle", "found", "locked", "allowed"}, agent : SUBSET Agents,
              remit : SUBSET Remits, locks : SUBSET Remits]

RemittanceTypes ==
  /\ sender \in [Remits -> SenderOrders]
  /\ remit \in [Remits -> RemitRows]
  /\ otp \in [Remits -> Guesses]
  /\ desk \in [Desks -> Redeeming]
  /\ money \in Balances

\* What the rows of a remittance say of each other: s is the sender's order, m the
\* remittance and its pickup, o the one-time code, held and back what is on its
\* payable and what went to the wallet, cash what each agent handed out.
Sound(s, m, o, held, back, cash) ==
  /\ s.step # "none" => \E a \in Agents : s.agent = {a}
  /\ s.step \in {"none", "chosen", "paid"} => m.status = "none"
  /\ m.pickup = "pending" <=> m.status = "awaiting_pickup"
  /\ o.wrong <= o.attempts /\ o.attempts <= MaxGuesses
  /\ o.status = "active" => o.attempts < MaxGuesses
  /\ held = (IF m.status = "awaiting_pickup" THEN Amount ELSE 0)
  /\ back = (IF m.status = "expired" THEN Amount + Commission ELSE 0)
  /\ \A a \in Agents : cash[a] = (IF m.status = "paid" /\ a \in s.agent THEN Amount ELSE 0)

RowSound(r) ==
  Sound(sender[r], remit[r], otp[r], money.payable[r], money.wallet[r], money.cash[r])

\* What a console with record k relies on when it redeems r, of order s and row m.
Serves(k, r, s, m) ==
  /\ k.remit = {r} /\ k.agent = s.agent /\ s.step # "none"
  /\ k.pc \in {"found", "locked", "allowed"}
  /\ k.pc = "found" => k.locks = {}
  /\ k.pc # "found" => r \in k.locks /\ m.status = "awaiting_pickup"

DesksSound ==
  \A d \in Desks : desk[d] # NoDesk => \E r \in Remits : Serves(desk[d], r, sender[r], remit[r])

Working(k) == k.pc \in {"locked", "allowed"}

\* Two redemptions with locks are two agents'.
DesksApart ==
  \A d, e \in Desks : d # e /\ Working(desk[d]) /\ Working(desk[e]) => desk[d].agent # desk[e].agent

AllowedFits ==
  \A d \in Desks : \A a \in desk[d].agent :
    desk[d].pc = "allowed" => PaidToday(a) + Amount <= AgentDailyCap

RemittanceInv ==
  /\ RemittanceTypes
  /\ \A r \in Remits : RowSound(r)
  /\ DesksSound /\ DesksApart /\ AllowedFits
  /\ FloatIsOwed /\ AgentCapHolds
-----------------------------------------------------------------------------
(* How a step on one remittance keeps what is summed over all of them.     *)

\* The rows of every other remittance are left alone.
Elsewhere(r) ==
  \A q \in Remits \ {r} :
    /\ sender'[q] = sender[q] /\ remit'[q] = remit[q] /\ otp'[q] = otp[q]
    /\ money'.payable[q] = money.payable[q] /\ money'.wallet[q] = money.wallet[q]
    /\ money'.cash[q] = money.cash[q]

LEMMA AmountsAreInt ==
  ASSUME RemittanceAssumption
  PROVE  /\ IsFiniteSet(Remits)
         /\ Amount \in Nat /\ Commission \in Nat /\ AgentDailyCap \in Nat
         /\ MaxGuesses \in Nat /\ Amount > 0 /\ MaxGuesses > 0
BY DEF RemittanceAssumption

LEMMA BalancesAreInt ==
  ASSUME RemittanceAssumption, RemittanceTypes, NEW r \in Remits, NEW a \in Agents
  PROVE  /\ money.payable[r] \in Int /\ money.wallet[r] \in Int /\ money.cash[r][a] \in Int
         /\ money.float[a] \in Int /\ Owed(r, a) \in Int
<1>1. /\ money.payable[r] \in Int /\ money.wallet[r] \in Int /\ money.cash[r][a] \in Int
      /\ money.float[a] \in Int
  BY DEF RemittanceTypes, Balances
<1> QED BY <1>1, AmountsAreInt DEF Owed

\* What an agent handed out today changes by what it handed out for the one
\* remittance of the step.
LEMMA PaidChange ==
  ASSUME RemittanceAssumption, RemittanceTypes, RemittanceTypes', NEW r \in Remits, Elsewhere(r), NEW a \in Agents
  PROVE  /\ PaidToday(a) \in Int /\ PaidToday(a)' \in Int
         /\ PaidToday(a)' = PaidToday(a) + (money'.cash[r][a] - money.cash[r][a])
<1> DEFINE f == [q \in Remits |-> money.cash[q][a]]
           h == [q \in Remits |-> money'.cash[q][a]]
<1>1. (\A q \in Remits : f[q] \in Int) /\ (\A q \in Remits : h[q] \in Int)
  BY DEF RemittanceTypes, Balances
<1>2. \A q \in Remits : q # r => h[q] = f[q]
  BY DEF Elsewhere
<1>3. f[r] = money.cash[r][a] /\ h[r] = money'.cash[r][a] /\ IsFiniteSet(Remits)
  BY AmountsAreInt
<1>4. PaidToday(a) = SumFunctionOnSet(f, Remits) /\ PaidToday(a)' = SumFunctionOnSet(h, Remits)
  BY DEF PaidToday
<1> DEFINE rest == Remits \ {r}
<1>r. IsFiniteSet(rest) /\ rest = Remits \ {r} /\ (\A q \in rest : f[q] \in Int /\ h[q] = f[q])
  BY <1>1, <1>2, <1>3, FS_Subset
<1> HIDE DEF f, h, rest
<1>5. SumFunctionOnSet(f, Remits) = f[r] + SumFunctionOnSet(f, rest)
  BY <1>1, <1>3, <1>r, SumRemove
<1>7. SumFunctionOnSet(h, Remits) = h[r] + SumFunctionOnSet(h, rest)
  BY <1>1, <1>3, <1>r, SumRemove
<1>8. SumFunctionOnSet(f, rest) = SumFunctionOnSet(h, rest) /\ SumFunctionOnSet(f, rest) \in Int
  BY <1>r, SumAgree, SumInt
<1>6. f[r] \in Int /\ h[r] \in Int
  BY <1>1
<1> QED BY <1>3, <1>4, <1>5, <1>6, <1>7, <1>8

\* The floats follow when each moves by what its agent is owed more.
LEMMA FloatFollows ==
  ASSUME RemittanceAssumption, RemittanceTypes, RemittanceTypes', NEW r \in Remits, Elsewhere(r), FloatIsOwed,
         \A a \in Agents : money'.float[a] - money.float[a] = Owed(r, a)' - Owed(r, a)
  PROVE  FloatIsOwed'
<1> SUFFICES ASSUME NEW a \in Agents
             PROVE  money'.float[a] = SumFunctionOnSet([q \in Remits |-> Owed(q, a)'], Remits)
  BY DEF FloatIsOwed
<1> DEFINE f == [q \in Remits |-> Owed(q, a)]
           h == [q \in Remits |-> Owed(q, a)']
<1>1. \A q \in Remits : f[q] \in Int
  BY BalancesAreInt
<1>2. \A q \in Remits : h[q] \in Int
  <2> SUFFICES ASSUME NEW q \in Remits PROVE Owed(q, a)' \in Int
    OBVIOUS
  <2>1. money'.cash[q][a] \in Int
    BY DEF RemittanceTypes, Balances
  <2> QED BY <2>1, AmountsAreInt DEF Owed
<1>3. \A q \in Remits : q # r => h[q] = f[q]
  BY DEF Elsewhere, Owed
<1>4. /\ f[r] = Owed(r, a) /\ h[r] = Owed(r, a)' /\ IsFiniteSet(Remits)
      /\ money.float[a] \in Int /\ money'.float[a] \in Int
  BY AmountsAreInt DEF RemittanceTypes, Balances
<1>5. money.float[a] = SumFunctionOnSet(f, Remits)
  BY DEF FloatIsOwed
<1>6. money'.float[a] - money.float[a] = h[r] - f[r]
  BY <1>4
<1>7. f[r] \in Int /\ h[r] \in Int
  BY <1>1, <1>2
<1> DEFINE rest == Remits \ {r}
<1>r. IsFiniteSet(rest) /\ rest = Remits \ {r} /\ (\A q \in rest : f[q] \in Int /\ h[q] = f[q])
  BY <1>1, <1>3, <1>4, FS_Subset
<1>8. money'.float[a] = SumFunctionOnSet(h, Remits)
  <2> HIDE DEF f, h, rest
  <2>1. SumFunctionOnSet(f, Remits) = f[r] + SumFunctionOnSet(f, rest)
    BY <1>1, <1>4, <1>r, SumRemove
  <2>2. SumFunctionOnSet(h, Remits) = h[r] + SumFunctionOnSet(h, rest)
    BY <1>2, <1>4, <1>r, SumRemove
  <2>3. SumFunctionOnSet(f, rest) = SumFunctionOnSet(h, rest) /\ SumFunctionOnSet(f, rest) \in Int
    BY <1>r, SumAgree, SumInt
  <2> QED BY <1>4, <1>5, <1>6, <1>7, <2>1, <2>2, <2>3
<1> QED BY <1>8

\* The sound rows of the other remittances stay sound.
LEMMA RowsKept ==
  ASSUME RemittanceInv, NEW r \in Remits, Elsewhere(r), RowSound(r)'
  PROVE  \A q \in Remits : RowSound(q)'
BY DEF RemittanceInv, Elsewhere, RowSound

-----------------------------------------------------------------------------
(* The consoles.                                                           *)

LEMMA ConsoleAt ==
  ASSUME RemittanceInv, NEW d \in Desks, desk[d].pc # "idle"
  PROVE  \E r \in Remits, a \in Agents :
           /\ Serves(desk[d], r, sender[r], remit[r]) /\ RowSound(r)
           /\ desk[d].remit = {r} /\ desk[d].agent = {a} /\ sender[r].agent = {a}
           /\ The(d) = r /\ At(d) = a /\ AgentOf(r) = a
<1>1. desk[d] # NoDesk
  BY DEF NoDesk
<1>2. PICK r \in Remits : Serves(desk[d], r, sender[r], remit[r])
  BY <1>1 DEF RemittanceInv, DesksSound
<1>3. RowSound(r) /\ sender[r].step # "none" /\ desk[d].remit = {r} /\ desk[d].agent = sender[r].agent
  BY <1>2 DEF RemittanceInv, Serves
<1>4. PICK a \in Agents : sender[r].agent = {a}
  BY <1>3 DEF RowSound, Sound
<1>5. The(d) = r
  BY <1>3 DEF The
<1>6. At(d) = a /\ AgentOf(r) = a
  BY <1>3, <1>4 DEF At, AgentOf
<1> QED BY <1>2, <1>3, <1>4, <1>5, <1>6
-----------------------------------------------------------------------------
(* The steps that leave every console where it is.                         *)

\* Nobody who serves r notices what became of it.
Unnoticed(r) ==
  \A d \in Desks : Serves(desk[d], r, sender[r], remit[r]) => Serves(desk[d], r, sender'[r], remit'[r])

LEMMA SenderSide ==
  ASSUME RemittanceAssumption, RemittanceInv, RemittanceTypes', NEW r \in Remits, Elsewhere(r), RowSound(r)',
         desk' = desk, Unnoticed(r), money'.cash[r] = money.cash[r],
         \A a \in Agents : money'.float[a] - money.float[a] = Owed(r, a)' - Owed(r, a)
  PROVE  RemittanceInv'
<1>1. \A q \in Remits : RowSound(q)'
  BY RowsKept
<1>2. DesksSound'
  <2> SUFFICES ASSUME NEW d \in Desks, desk[d] # NoDesk
               PROVE  \E q \in Remits : Serves(desk[d], q, sender'[q], remit'[q])
    BY DEF DesksSound
  <2>1. PICK q \in Remits : Serves(desk[d], q, sender[q], remit[q])
    BY DEF RemittanceInv, DesksSound
  <2>2. CASE q = r
    BY <2>1, <2>2 DEF Unnoticed
  <2>3. CASE q # r
    BY <2>1, <2>3 DEF Elsewhere
  <2> QED BY <2>2, <2>3
<1>3. DesksApart'
  BY DEF RemittanceInv, DesksApart
<1>4. \A a \in Agents : PaidToday(a)' = PaidToday(a)
  <2> SUFFICES ASSUME NEW a \in Agents PROVE PaidToday(a)' = PaidToday(a)
    OBVIOUS
  <2>1. money.cash[r][a] \in Int /\ RemittanceTypes
    BY BalancesAreInt DEF RemittanceInv
  <2>2. /\ PaidToday(a) \in Int
        /\ PaidToday(a)' = PaidToday(a) + (money'.cash[r][a] - money.cash[r][a])
    BY <2>1, PaidChange
  <2> QED BY <2>1, <2>2
<1>5. AllowedFits'
  <2>1. \A d \in Desks : desk[d].agent \subseteq Agents
    BY DEF RemittanceInv, RemittanceTypes, Redeeming
  <2> QED BY <1>4, <2>1 DEF RemittanceInv, AllowedFits
<1>6. AgentCapHolds'
  BY <1>4 DEF RemittanceInv, AgentCapHolds
<1>7. FloatIsOwed'
  BY FloatFollows DEF RemittanceInv
<1> QED BY <1>1, <1>2, <1>3, <1>5, <1>6, <1>7 DEF RemittanceInv

\* A step on the order, the row or the code of r that moves no money.
LEMMA NoMoneySide ==
  ASSUME RemittanceAssumption, RemittanceInv, NEW r \in Remits, NEW s \in SenderOrders, NEW m \in RemitRows, NEW o \in Guesses,
         sender' = [sender EXCEPT ![r] = s], remit' = [remit EXCEPT ![r] = m],
         otp' = [otp EXCEPT ![r] = o], money' = money, desk' = desk,
         Sound(s, m, o, money.payable[r], money.wallet[r], money.cash[r]),
         sender[r].step = "none" \/ s.agent = sender[r].agent,
         m.status = remit[r].status, sender[r].step # "none" => s.step # "none"
  PROVE  RemittanceInv'
<1>1. RemittanceTypes'
  BY DEF RemittanceInv, RemittanceTypes
<1>2. /\ sender'[r] = s /\ remit'[r] = m /\ otp'[r] = o
      /\ Elsewhere(r)
  BY DEF RemittanceInv, RemittanceTypes, Elsewhere
<1>3. RowSound(r)'
  BY <1>2 DEF RowSound
<1>4. RowSound(r) /\ RemittanceTypes
  BY DEF RemittanceInv
<1>5. \A a \in Agents : Owed(r, a)' = Owed(r, a)
  BY <1>2, <1>4 DEF Owed, RowSound, Sound
<1>6. \A a \in Agents : money'.float[a] - money.float[a] = Owed(r, a)' - Owed(r, a)
  BY <1>4, <1>5, BalancesAreInt
<1>7. Unnoticed(r)
  BY <1>2 DEF Unnoticed, Serves
<1> QED BY <1>1, <1>2, <1>3, <1>6, <1>7, SenderSide
\* What the invariant says of one remittance.
LEMMA RowFacts ==
  ASSUME RemittanceInv, NEW r \in Remits
  PROVE  /\ sender[r] \in SenderOrders /\ remit[r] \in RemitRows /\ otp[r] \in Guesses
         /\ Sound(sender[r], remit[r], otp[r], money.payable[r], money.wallet[r], money.cash[r])
         /\ sender = [sender EXCEPT ![r] = sender[r]]
         /\ remit = [remit EXCEPT ![r] = remit[r]]
         /\ otp = [otp EXCEPT ![r] = otp[r]]
BY DEF RemittanceInv, RemittanceTypes, RowSound

LEMMA SelectKeeps ==
  ASSUME RemittanceAssumption, RemittanceInv, NEW r \in Remits, SelectRemittanceRegion(r)
  PROVE  RemittanceInv'
<1>1. PICK a \in Agents : sender' = [sender EXCEPT ![r] = [step |-> "chosen", agent |-> {a}]]
  BY DEF SelectRemittanceRegion
<1> DEFINE s == [step |-> "chosen", agent |-> {a}]
<1>2. s \in SenderOrders /\ s.step = "chosen" /\ s.agent = {a}
  BY DEF SenderOrders, SenderSteps
<1>3. Sound(s, remit[r], otp[r], money.payable[r], money.wallet[r], money.cash[r])
  BY <1>2, RowFacts DEF Sound, SelectRemittanceRegion
<1>4. sender' = [sender EXCEPT ![r] = s]
  BY <1>1
<1> HIDE DEF s
<1>5. /\ remit' = [remit EXCEPT ![r] = remit[r]] /\ otp' = [otp EXCEPT ![r] = otp[r]]
      /\ money' = money /\ desk' = desk /\ sender[r].step = "none"
      /\ remit[r] \in RemitRows /\ otp[r] \in Guesses
  BY RowFacts DEF SelectRemittanceRegion
<1> QED BY <1>2, <1>3, <1>4, <1>5, NoMoneySide

\* The sender's conversation and hook go on.
StepTo(r, step) == sender' = [sender EXCEPT ![r].step = step]

LEMMA StepKeeps ==
  ASSUME RemittanceAssumption, RemittanceInv, NEW r \in Remits, NEW step \in SenderSteps,
         StepTo(r, step), remit' = remit, otp' = otp, desk' = desk, money' = money,
         sender[r].step # "none", step # "none",
         step \in {"chosen", "paid"} => remit[r].status = "none"
  PROVE  RemittanceInv'
<1> DEFINE s == [sender[r] EXCEPT !.step = step]
<1>1. s \in SenderOrders /\ s.step = step /\ s.agent = sender[r].agent
  BY RowFacts DEF SenderOrders
<1>2. sender' = [sender EXCEPT ![r] = s]
  BY DEF StepTo
<1>3. Sound(s, remit[r], otp[r], money.payable[r], money.wallet[r], money.cash[r])
  BY <1>1, RowFacts DEF Sound
<1> HIDE DEF s
<1>4. /\ remit' = [remit EXCEPT ![r] = remit[r]] /\ otp' = [otp EXCEPT ![r] = otp[r]]
      /\ remit[r] \in RemitRows /\ otp[r] \in Guesses
  BY RowFacts
<1> QED BY <1>1, <1>2, <1>3, <1>4, NoMoneySide

LEMMA PayKeeps ==
  ASSUME RemittanceAssumption, RemittanceInv, NEW r \in Remits, PayRemittance(r)
  PROVE  RemittanceInv'
<1>1. remit[r].status = "none"
  BY RowFacts DEF Sound, PayRemittance
<1> QED BY <1>1, StepKeeps DEF StepTo, PayRemittance, SenderSteps

LEMMA DeliverKeeps ==
  ASSUME RemittanceAssumption, RemittanceInv, NEW r \in Remits, DeliverPickupCode(r) \/ DeliveryFails(r)
  PROVE  RemittanceInv'
<1>1. CASE DeliverPickupCode(r)
  BY <1>1, StepKeeps DEF StepTo, DeliverPickupCode, SenderSteps
<1>2. CASE DeliveryFails(r)
  BY <1>2, StepKeeps DEF StepTo, DeliveryFails, SenderSteps
<1> QED BY <1>1, <1>2

LEMMA CodeKeeps ==
  ASSUME RemittanceAssumption, RemittanceInv, NEW r \in Remits, NEW o \in Guesses,
         otp' = [otp EXCEPT ![r] = o], sender' = sender, remit' = remit, desk' = desk,
         money' = money,
         o.wrong <= o.attempts, o.attempts <= MaxGuesses, o.status = "active" => o.attempts < MaxGuesses
  PROVE  RemittanceInv'
<1>1. Sound(sender[r], remit[r], o, money.payable[r], money.wallet[r], money.cash[r])
  BY RowFacts DEF Sound
<1> QED BY <1>1, RowFacts, NoMoneySide

LEMMA RequestKeeps ==
  ASSUME RemittanceAssumption, RemittanceInv, NEW r \in Remits, RequestRemittanceOTP(r)
  PROVE  RemittanceInv'
<1> DEFINE o == [status |-> "active", attempts |-> 0, issued |-> otp[r].issued + 1, wrong |-> 0]
<1>1. otp[r].issued \in Nat
  BY RowFacts DEF Guesses
<1>2. o \in Guesses /\ o.wrong = 0 /\ o.attempts = 0
  BY <1>1 DEF Guesses, Codes
<1>3. otp' = [otp EXCEPT ![r] = o]
  BY DEF RequestRemittanceOTP
<1> HIDE DEF o
<1>5. o.wrong <= o.attempts /\ o.attempts <= MaxGuesses /\ o.attempts < MaxGuesses
  BY <1>2, AmountsAreInt
<1> QED BY <1>2, <1>3, <1>5, CodeKeeps DEF RequestRemittanceOTP

LEMMA LapseKeeps ==
  ASSUME RemittanceAssumption, RemittanceInv, NEW r \in Remits, OTPLapses(r)
  PROVE  RemittanceInv'
<1> DEFINE o == [otp[r] EXCEPT !.status = "lapsed"]
<1>1. o \in Guesses /\ o.wrong = otp[r].wrong /\ o.attempts = otp[r].attempts /\ o.status = "lapsed"
  BY RowFacts DEF Guesses, Codes
<1>2. otp' = [otp EXCEPT ![r] = o]
  BY DEF OTPLapses
<1>3. Sound(sender[r], remit[r], o, money.payable[r], money.wallet[r], money.cash[r])
  BY <1>1, RowFacts DEF Sound
<1> HIDE DEF o
<1>4. /\ remit' = [remit EXCEPT ![r] = remit[r]] /\ sender' = [sender EXCEPT ![r] = sender[r]]
      /\ money' = money /\ desk' = desk
      /\ remit[r] \in RemitRows /\ sender[r] \in SenderOrders
  BY RowFacts DEF OTPLapses
<1> QED BY <1>1, <1>2, <1>3, <1>4, NoMoneySide

LEMMA WindowKeeps ==
  ASSUME RemittanceAssumption, RemittanceInv, NEW r \in Remits, WindowEnds(r)
  PROVE  RemittanceInv'
<1> DEFINE m == [remit[r] EXCEPT !.due = TRUE]
<1>1. m \in RemitRows /\ m.status = remit[r].status /\ m.pickup = remit[r].pickup
  BY RowFacts DEF RemitRows
<1>2. remit' = [remit EXCEPT ![r] = m]
  BY DEF WindowEnds
<1>3. Sound(sender[r], m, otp[r], money.payable[r], money.wallet[r], money.cash[r])
  BY <1>1, RowFacts DEF Sound
<1> HIDE DEF m
<1>4. /\ otp' = [otp EXCEPT ![r] = otp[r]] /\ sender' = [sender EXCEPT ![r] = sender[r]]
      /\ money' = money /\ desk' = desk
      /\ otp[r] \in Guesses /\ sender[r] \in SenderOrders
  BY RowFacts DEF WindowEnds
<1> QED BY <1>1, <1>2, <1>3, <1>4, NoMoneySide
-----------------------------------------------------------------------------
(* The steps that move money without a console.                            *)

LEMMA CreateKeeps ==
  ASSUME RemittanceAssumption, RemittanceInv, NEW r \in Remits, CreateRemittanceTx(r)
  PROVE  RemittanceInv'
<1>r. /\ sender[r].step \in {"paid", "retry"} /\ sender[r] \in SenderOrders /\ RemittanceTypes
      /\ Sound(sender[r], remit[r], otp[r], money.payable[r], money.wallet[r], money.cash[r])
  BY RowFacts DEF CreateRemittanceTx, RemittanceInv
<1>1. CASE Opened(r)
  <2>1. StepTo(r, "done") /\ remit' = remit /\ money' = money /\ otp' = otp /\ desk' = desk
    BY <1>1 DEF CreateRemittanceTx, StepTo
  <2> QED BY <1>r, <2>1, StepKeeps DEF SenderSteps
<1>2. CASE ~Opened(r)
  <2> DEFINE s == [sender[r] EXCEPT !.step = "opened"]
             m == [status |-> "awaiting_pickup", pickup |-> "pending", due |-> FALSE]
  <2>1. s \in SenderOrders /\ s.step = "opened" /\ s.agent = sender[r].agent
    BY <1>r DEF SenderOrders, SenderSteps
  <2>2. m \in RemitRows /\ m.status = "awaiting_pickup" /\ m.pickup = "pending"
    BY DEF RemitRows, Standings, Pickups
  <2>3. PICK a \in Agents : sender[r].agent = {a}
    BY <1>r DEF Sound
  <2>4. AgentOf(r) = a
    BY <2>3 DEF AgentOf
  <2>5. /\ sender' = [sender EXCEPT ![r] = s] /\ remit' = [remit EXCEPT ![r] = m]
        /\ money' = [money EXCEPT !.payable[r] = @ + Amount, !.float[a] = @ + Commission]
        /\ otp' = otp /\ desk' = desk
    BY <1>2, <2>4 DEF CreateRemittanceTx
  <2> HIDE DEF s, m
  <2>6. RemittanceTypes'
    <3>1. /\ money.payable \in [Remits -> Int] /\ money.float \in [Agents -> Int]
          /\ money.wallet \in [Remits -> Int] /\ money.cash \in [Remits -> [Agents -> Int]]
      BY <1>r DEF RemittanceTypes, Balances
    <3>2. /\ money'.payable \in [Remits -> Int] /\ money'.float \in [Agents -> Int]
          /\ money'.wallet \in [Remits -> Int] /\ money'.cash = money.cash
      BY <1>r, <2>5, <3>1, AmountsAreInt DEF RemittanceTypes, Balances
    <3>3. money' = [payable |-> money'.payable, float |-> money'.float,
                    wallet |-> money'.wallet, cash |-> money'.cash]
      BY <1>r, <2>5 DEF RemittanceTypes, Balances
    <3>4. money' \in Balances
      BY <3>1, <3>2, <3>3 DEF Balances
    <3> QED BY <1>r, <2>1, <2>2, <2>5, <3>4 DEF RemittanceTypes
  <2>7. /\ sender'[r] = s /\ remit'[r] = m /\ otp'[r] = otp[r]
        /\ money'.payable[r] = money.payable[r] + Amount
        /\ money'.wallet[r] = money.wallet[r] /\ money'.cash[r] = money.cash[r]
        /\ money'.float[a] = money.float[a] + Commission
        /\ \A b \in Agents : b # a => money'.float[b] = money.float[b]
    BY <1>r, <2>5 DEF RemittanceTypes, Balances
  <2>8. Elsewhere(r)
    BY <1>r, <2>5 DEF Elsewhere, RemittanceTypes, Balances
  <2>9. remit[r].status = "none" /\ money.payable[r] = 0
    BY <1>2, <1>r DEF Opened, Sound
  <2>10. Sound(s, m, otp[r], money'.payable[r], money'.wallet[r], money'.cash[r])
    BY <1>r, <2>1, <2>2, <2>7, <2>9, AmountsAreInt DEF Sound
  <2>11. RowSound(r)'
    BY <2>7, <2>10 DEF RowSound
  <2>12. \A b \in Agents : money'.float[b] - money.float[b] = Owed(r, b)' - Owed(r, b)
    <3> SUFFICES ASSUME NEW b \in Agents
                 PROVE  money'.float[b] - money.float[b] = Owed(r, b)' - Owed(r, b)
      OBVIOUS
    <3>1. money.cash[r][b] \in Int /\ money.float[b] \in Int /\ Commission \in Int
      BY <1>r, BalancesAreInt, AmountsAreInt
    <3>2. Owed(r, b) = money.cash[r][b]
      BY <2>9, <3>1 DEF Owed
    <3>3. Owed(r, b)' = money.cash[r][b] + (IF b = a THEN Commission ELSE 0)
      BY <2>1, <2>2, <2>3, <2>7 DEF Owed
    <3> QED BY <2>7, <3>1, <3>2, <3>3
  <2>13. Unnoticed(r)
    BY <2>1, <2>2, <2>7, <1>r DEF Unnoticed, Serves
  <2> QED BY <2>5, <2>6, <2>7, <2>8, <2>11, <2>12, <2>13, SenderSide
<1> QED BY <1>1, <1>2

LEMMA ExpireKeeps ==
  ASSUME RemittanceAssumption, RemittanceInv, NEW r \in Remits, ExpireRemittance(r)
  PROVE  RemittanceInv'
<1>r. /\ remit[r].status = "awaiting_pickup" /\ r \notin Held /\ remit[r] \in RemitRows /\ otp[r] \in Guesses
      /\ Sound(sender[r], remit[r], otp[r], money.payable[r], money.wallet[r], money.cash[r]) /\ RemittanceTypes
  BY RowFacts DEF ExpireRemittance, Swept, Awaiting, RemittanceInv
<1> DEFINE m == [remit[r] EXCEPT !.status = "expired", !.pickup = IF @ = "pending" THEN "expired" ELSE @]
           o == [otp[r] EXCEPT !.status = IF @ \in {"active", "lapsed"} THEN "expired" ELSE @]
<1>1. m \in RemitRows /\ m.status = "expired" /\ m.pickup = "expired"
  BY <1>r DEF RemitRows, Standings, Pickups, Sound
<1>2. o \in Guesses /\ o.status # "active" /\ o.wrong = otp[r].wrong /\ o.attempts = otp[r].attempts
  BY <1>r DEF Guesses, Codes
<1>3. PICK a \in Agents : sender[r].agent = {a}
  BY <1>r DEF Sound
<1>4. AgentOf(r) = a
  BY <1>3 DEF AgentOf
<1>5. /\ remit' = [remit EXCEPT ![r] = m] /\ otp' = [otp EXCEPT ![r] = o]
      /\ money' = [money EXCEPT !.payable[r] = @ - Amount, !.float[a] = @ - Commission,
                                !.wallet[r] = @ + Amount + Commission]
      /\ sender' = sender /\ desk' = desk
  BY <1>4, <1>r DEF ExpireRemittance, RemittanceTypes
<1> HIDE DEF m, o
<1>6. RemittanceTypes'
  <2>1. /\ money.payable \in [Remits -> Int] /\ money.float \in [Agents -> Int]
        /\ money.wallet \in [Remits -> Int] /\ money.cash \in [Remits -> [Agents -> Int]]
    BY <1>r DEF RemittanceTypes, Balances
  <2>2. /\ money'.payable \in [Remits -> Int] /\ money'.float \in [Agents -> Int]
        /\ money'.wallet \in [Remits -> Int] /\ money'.cash = money.cash
    BY <1>r, <1>5, <2>1, AmountsAreInt DEF RemittanceTypes, Balances
  <2>3. money' = [payable |-> money'.payable, float |-> money'.float,
                  wallet |-> money'.wallet, cash |-> money'.cash]
    BY <1>r, <1>5 DEF RemittanceTypes, Balances
  <2>4. money' \in Balances
    BY <2>1, <2>2, <2>3 DEF Balances
  <2> QED BY <1>r, <1>1, <1>2, <1>5, <2>4 DEF RemittanceTypes
<1>7. /\ sender'[r] = sender[r] /\ remit'[r] = m /\ otp'[r] = o
      /\ money'.payable[r] = money.payable[r] - Amount
      /\ money'.wallet[r] = money.wallet[r] + Amount + Commission /\ money'.cash[r] = money.cash[r]
      /\ money'.float[a] = money.float[a] - Commission
      /\ \A b \in Agents : b # a => money'.float[b] = money.float[b]
  BY <1>r, <1>5 DEF RemittanceTypes, Balances
<1>8. Elsewhere(r)
  BY <1>r, <1>5 DEF Elsewhere, RemittanceTypes, Balances
<1>9. money.payable[r] = Amount /\ money.wallet[r] = 0
  BY <1>r DEF Sound
<1>10. Sound(sender[r], m, o, money'.payable[r], money'.wallet[r], money'.cash[r])
  BY <1>r, <1>1, <1>2, <1>7, <1>9, AmountsAreInt DEF Sound
<1>11. RowSound(r)'
  BY <1>7, <1>10 DEF RowSound
<1>12. \A b \in Agents : money'.float[b] - money.float[b] = Owed(r, b)' - Owed(r, b)
  <2> SUFFICES ASSUME NEW b \in Agents
               PROVE  money'.float[b] - money.float[b] = Owed(r, b)' - Owed(r, b)
    OBVIOUS
  <2>1. money.cash[r][b] \in Int /\ money.float[b] \in Int /\ Commission \in Int
    BY <1>r, BalancesAreInt, AmountsAreInt
  <2>2. Owed(r, b) = money.cash[r][b] + (IF b = a THEN Commission ELSE 0)
    BY <1>3, <1>r DEF Owed
  <2>3. Owed(r, b)' = money.cash[r][b]
    BY <1>1, <1>7, <2>1 DEF Owed
  <2> QED BY <1>7, <2>1, <2>2, <2>3
<1>13. Unnoticed(r)
  <2>1. \A d \in Desks : r \notin desk[d].locks
    BY <1>r DEF Held
  <2> QED BY <1>7, <2>1 DEF Unnoticed, Serves
<1> QED BY <1>5, <1>6, <1>7, <1>8, <1>11, <1>12, <1>13, SenderSide
-----------------------------------------------------------------------------
(* The consoles' steps.                                                    *)

\* One console takes a step that leaves order, row and money alone.
LEMMA DeskSide ==
  ASSUME RemittanceAssumption, RemittanceInv, NEW d \in Desks, NEW k \in Redeeming,
         desk' = [desk EXCEPT ![d] = k], sender' = sender, remit' = remit, money' = money,
         otp' \in [Remits -> Guesses], \A q \in Remits : RowSound(q)',
         k = NoDesk \/ \E q \in Remits : Serves(k, q, sender[q], remit[q]),
         Working(k) => \A e \in Desks : e # d /\ Working(desk[e]) => desk[e].agent # k.agent,
         k.pc = "allowed" => \A a \in k.agent : PaidToday(a) + Amount <= AgentDailyCap
  PROVE  RemittanceInv'
<1>1. RemittanceTypes'
  BY DEF RemittanceInv, RemittanceTypes
<1>2. desk'[d] = k /\ \A e \in Desks : e # d => desk'[e] = desk[e]
  BY DEF RemittanceInv, RemittanceTypes
<1>3. DesksSound'
  <2> SUFFICES ASSUME NEW e \in Desks, desk'[e] # NoDesk
               PROVE  \E q \in Remits : Serves(desk'[e], q, sender'[q], remit'[q])
    BY DEF DesksSound
  <2>1. CASE e = d
    BY <1>2, <2>1
  <2>2. CASE e # d
    BY <1>2, <2>2 DEF RemittanceInv, DesksSound
  <2> QED BY <2>1, <2>2
<1>4. DesksApart'
  <2> SUFFICES ASSUME NEW e \in Desks, NEW f \in Desks, e # f, Working(desk'[e]), Working(desk'[f])
               PROVE  desk'[e].agent # desk'[f].agent
    BY DEF DesksApart
  <2>1. CASE e = d
    BY <1>2, <2>1
  <2>2. CASE f = d
    BY <1>2, <2>2
  <2>3. CASE e # d /\ f # d
    BY <1>2, <2>3 DEF RemittanceInv, DesksApart
  <2> QED BY <2>1, <2>2, <2>3
<1>5. \A a : PaidToday(a)' = PaidToday(a)
  BY DEF PaidToday
<1>6. AllowedFits'
  <2> SUFFICES ASSUME NEW e \in Desks, NEW a \in desk'[e].agent, desk'[e].pc = "allowed"
               PROVE  PaidToday(a) + Amount <= AgentDailyCap
    BY <1>5 DEF AllowedFits
  <2>1. CASE e = d
    BY <1>2, <2>1
  <2>2. CASE e # d
    BY <1>2, <2>2 DEF RemittanceInv, AllowedFits
  <2> QED BY <2>1, <2>2
<1>7. AgentCapHolds'
  BY <1>5 DEF RemittanceInv, AgentCapHolds
<1>8. FloatIsOwed'
  BY DEF RemittanceInv, FloatIsOwed, Owed
<1> QED BY <1>1, <1>3, <1>4, <1>6, <1>7, <1>8 DEF RemittanceInv

LEMMA NoDeskIs ==
  /\ NoDesk \in Redeeming /\ NoDesk.pc = "idle" /\ NoDesk.locks = {} /\ ~Working(NoDesk)
  /\ \A d \in Desks : RemittanceInv => (desk[d].pc = "idle" <=> desk[d] = NoDesk)
<1>1. NoDesk \in Redeeming /\ NoDesk.pc = "idle" /\ NoDesk.locks = {} /\ ~Working(NoDesk)
  BY DEF NoDesk, Redeeming, Working
<1>2. ASSUME NEW d \in Desks, RemittanceInv, desk[d].pc = "idle" PROVE desk[d] = NoDesk
  BY <1>2 DEF RemittanceInv, DesksSound, Serves
<1> QED BY <1>1, <1>2

\* The same rows are sound while the code stays.
LEMMA SoundStays ==
  ASSUME RemittanceInv, sender' = sender, remit' = remit, otp' = otp, money' = money
  PROVE  otp' \in [Remits -> Guesses] /\ \A q \in Remits : RowSound(q)'
BY DEF RemittanceInv, RemittanceTypes, RowSound

\* A console that lets go.
LEMMA LetsGo ==
  ASSUME RemittanceAssumption, RemittanceInv, NEW d \in Desks,
         desk' = [desk EXCEPT ![d] = NoDesk], sender' = sender, remit' = remit, money' = money,
         otp' \in [Remits -> Guesses], \A q \in Remits : RowSound(q)'
  PROVE  RemittanceInv'
BY NoDeskIs, DeskSide

LEMMA UnmovedKeeps ==
  ASSUME RemittanceInv, sender' = sender, remit' = remit, otp' = otp, money' = money, desk' = desk
  PROVE  RemittanceInv'
<1>1. \A a : PaidToday(a)' = PaidToday(a)
  BY DEF PaidToday
<1>2. FloatIsOwed'
  BY DEF RemittanceInv, FloatIsOwed, Owed
<1> QED BY <1>1, <1>2 DEF RemittanceInv, RemittanceTypes, RowSound, DesksSound, DesksApart, AllowedFits, AgentCapHolds

LEMMA LookUpKeeps ==
  ASSUME RemittanceAssumption, RemittanceInv, NEW d \in Desks, NEW r \in Remits, LookUpPickup(d, r)
  PROVE  RemittanceInv'
<1>1. /\ sender' = sender /\ remit' = remit /\ otp' = otp /\ money' = money
      /\ remit[r].status = "awaiting_pickup"
  BY DEF LookUpPickup, Awaiting
<1> DEFINE k == [pc |-> "found", agent |-> sender[r].agent, remit |-> {r}, locks |-> {}]
<1>2. desk' = desk \/ desk' = [desk EXCEPT ![d] = k]
  BY DEF LookUpPickup
<1>3. CASE desk' = desk
  BY <1>1, <1>3, SoundStays, UnmovedKeeps
<1>4. CASE desk' = [desk EXCEPT ![d] = k]
  <2>1. k \in Redeeming /\ k.pc = "found" /\ ~Working(k)
    BY RowFacts DEF Redeeming, SenderOrders, Working
  <2>2. Serves(k, r, sender[r], remit[r])
    BY <1>1, RowFacts DEF Serves, Sound
  <2>3. desk' = [desk EXCEPT ![d] = k]
    BY <1>4
  <2> HIDE DEF k
  <2> QED BY <1>1, <2>1, <2>2, <2>3, SoundStays, DeskSide
<1> QED BY <1>2, <1>3, <1>4

\* The locks of a console hold every pickup the agent of another one waits for.
LEMMA FindKeeps ==
  ASSUME RemittanceAssumption, RemittanceInv, NEW d \in Desks, FindRedeemCandidate(d)
  PROVE  RemittanceInv'
<1>1. /\ sender' = sender /\ remit' = remit /\ otp' = otp /\ money' = money
      /\ desk[d].pc = "found" /\ Locks(d) \cap Held = {}
  BY DEF FindRedeemCandidate
<1>2. PICK r \in Remits, a \in Agents :
        /\ Serves(desk[d], r, sender[r], remit[r])
        /\ desk[d].remit = {r} /\ desk[d].agent = {a} /\ sender[r].agent = {a}
        /\ The(d) = r /\ At(d) = a
  BY <1>1, ConsoleAt
<1>3. Locks(d) = {q \in Remits : Awaiting(q) /\ a \in sender[q].agent /\ remit[q].pickup = "pending"}
  BY <1>2 DEF Locks, Waiting
<1> DEFINE k == [desk[d] EXCEPT !.pc = "locked", !.locks = Locks(d)]
<1>4. desk' = [desk EXCEPT ![d] = IF r \in Locks(d) /\ ~remit[r].due THEN k ELSE NoDesk]
  BY <1>2 DEF FindRedeemCandidate
<1>5. CASE ~(r \in Locks(d) /\ ~remit[r].due)
  <2>1. desk' = [desk EXCEPT ![d] = NoDesk]
    BY <1>4, <1>5
  <2> QED BY <1>1, <2>1, SoundStays, LetsGo
<1>6. CASE r \in Locks(d) /\ ~remit[r].due
  <2>1. desk' = [desk EXCEPT ![d] = k]
    BY <1>4, <1>6
  <2>2. desk[d] \in Redeeming /\ Locks(d) \subseteq Remits
    BY <1>3 DEF RemittanceInv, RemittanceTypes
  <2>3. /\ k \in Redeeming /\ k.pc = "locked" /\ k.locks = Locks(d)
        /\ k.remit = {r} /\ k.agent = {a}
    BY <1>2, <2>2 DEF Redeeming
  <2>4. remit[r].status = "awaiting_pickup"
    BY <1>3, <1>6 DEF Awaiting
  <2> HIDE DEF k
  <2>5. Serves(k, r, sender[r], remit[r])
    BY <1>2, <1>6, <2>3, <2>4 DEF Serves
  <2>6. ASSUME NEW e \in Desks, e # d, Working(desk[e]), desk[e].agent = k.agent PROVE FALSE
    <3>1. desk[e].pc \in {"locked", "allowed"}
      BY <2>6 DEF Working
    <3>2. PICK q \in Remits : Serves(desk[e], q, sender[q], remit[q])
      BY <3>1, ConsoleAt
    <3>3. q \in desk[e].locks /\ remit[q].status = "awaiting_pickup" /\ sender[q].agent = {a}
      BY <2>3, <2>6, <3>1, <3>2 DEF Serves
    <3>4. remit[q].pickup = "pending"
      BY <3>3, RowFacts DEF Sound
    <3>5. q \in Locks(d)
      BY <1>3, <3>3, <3>4 DEF Awaiting
    <3>6. q \in Held
      BY <3>3 DEF Held
    <3> QED BY <1>1, <3>5, <3>6
  <2>7. \A e \in Desks : e # d /\ Working(desk[e]) => desk[e].agent # k.agent
    BY <2>6
  <2>8. otp' \in [Remits -> Guesses] /\ \A q \in Remits : RowSound(q)'
    BY <1>1, SoundStays
  <2> QED BY <1>1, <2>1, <2>3, <2>5, <2>7, <2>8, DeskSide
<1> QED BY <1>5, <1>6

LEMMA RefuseKeeps ==
  ASSUME RemittanceAssumption, RemittanceInv, NEW d \in Desks, RefuseOTP(d)
  PROVE  RemittanceInv'
<1>1. PICK r \in Remits : The(d) = r
  BY ConsoleAt DEF RefuseOTP
<1> DEFINE o == IF otp[r].status = "active" THEN CountGuess(otp[r])
                ELSE IF otp[r].status = "lapsed" THEN [otp[r] EXCEPT !.status = "expired"] ELSE otp[r]
<1>2. /\ sender' = sender /\ remit' = remit /\ money' = money
      /\ desk' = [desk EXCEPT ![d] = NoDesk]
  BY DEF RefuseOTP
<1>3. otp' = [otp EXCEPT ![r] = o]
  BY <1>1, RowFacts DEF RefuseOTP
<1>4. /\ otp[r] \in Guesses /\ MaxGuesses \in Nat
      /\ Sound(sender[r], remit[r], otp[r], money.payable[r], money.wallet[r], money.cash[r])
  BY RowFacts, AmountsAreInt
<1>5. /\ otp[r].attempts \in Nat /\ otp[r].wrong \in Nat /\ otp[r].wrong <= otp[r].attempts
      /\ otp[r].attempts <= MaxGuesses /\ (otp[r].status = "active" => otp[r].attempts < MaxGuesses)
  BY <1>4 DEF Guesses, Sound
<1>6. o \in Guesses
  <2>1. otp[r].attempts + 1 \in Nat /\ otp[r].wrong + 1 \in Nat /\ otp[r].status \in Codes /\ "expired" \in Codes
    BY <1>4, <1>5 DEF Guesses, Codes
  <2>2. CountGuess(otp[r]) \in Guesses
    BY <1>4, <2>1 DEF CountGuess, Guesses
  <2>3. [otp[r] EXCEPT !.status = "expired"] \in Guesses
    BY <1>4, <2>1 DEF Guesses
  <2> QED BY <1>4, <2>2, <2>3
<1>7. o.wrong <= o.attempts /\ o.attempts <= MaxGuesses /\ (o.status = "active" => o.attempts < MaxGuesses)
  BY <1>4, <1>5 DEF CountGuess, Guesses
<1> HIDE DEF o
<1>8. Sound(sender[r], remit[r], o, money.payable[r], money.wallet[r], money.cash[r])
  BY <1>4, <1>7 DEF Sound
<1>9. otp' \in [Remits -> Guesses]
  BY <1>3, <1>6 DEF RemittanceInv, RemittanceTypes
<1>10. \A q \in Remits : RowSound(q)'
  BY <1>2, <1>3, <1>8 DEF RemittanceInv, RemittanceTypes, RowSound
<1> QED BY <1>2, <1>9, <1>10, LetsGo

LEMMA CheckKeeps ==
  ASSUME RemittanceAssumption, RemittanceInv, NEW d \in Desks, CheckPayout(d)
  PROVE  RemittanceInv'
<1>1. /\ sender' = sender /\ remit' = remit /\ otp' = otp /\ money' = money /\ desk[d].pc = "locked"
  BY DEF CheckPayout
<1>2. PICK r \in Remits, a \in Agents :
        Serves(desk[d], r, sender[r], remit[r]) /\ desk[d].agent = {a} /\ At(d) = a
  BY <1>1, ConsoleAt
<1> DEFINE k == [desk[d] EXCEPT !.pc = "allowed"]
<1>3. desk' = [desk EXCEPT ![d] = IF PaidToday(a) + Amount <= AgentDailyCap THEN k ELSE NoDesk]
  BY <1>2 DEF CheckPayout
<1>4. CASE ~(PaidToday(a) + Amount <= AgentDailyCap)
  <2>1. desk' = [desk EXCEPT ![d] = NoDesk]
    BY <1>3, <1>4
  <2> QED BY <1>1, <2>1, SoundStays, LetsGo
<1>5. CASE PaidToday(a) + Amount <= AgentDailyCap
  <2>1. desk' = [desk EXCEPT ![d] = k]
    BY <1>3, <1>5
  <2>2. desk[d] \in Redeeming
    BY DEF RemittanceInv, RemittanceTypes
  <2>3. /\ k \in Redeeming /\ k.pc = "allowed" /\ k.locks = desk[d].locks
        /\ k.remit = desk[d].remit /\ k.agent = desk[d].agent
    BY <2>2 DEF Redeeming
  <2> HIDE DEF k
  <2>4. Serves(k, r, sender[r], remit[r])
    BY <1>1, <1>2, <2>3 DEF Serves
  <2>5. \A e \in Desks : e # d /\ Working(desk[e]) => desk[e].agent # k.agent
    BY <1>1, <2>3 DEF RemittanceInv, DesksApart, Working
  <2>6. \A b \in k.agent : PaidToday(b) + Amount <= AgentDailyCap
    BY <1>2, <1>5, <2>3
  <2> QED BY <1>1, <2>1, <2>3, <2>4, <2>5, <2>6, SoundStays, DeskSide
<1> QED BY <1>4, <1>5

LEMMA DiesKeeps ==
  ASSUME RemittanceAssumption, RemittanceInv, NEW d \in Desks, RedemptionDies(d)
  PROVE  RemittanceInv'
BY SoundStays, LetsGo DEF RedemptionDies
\* The payout takes the cap of its own agent only, and no other console holds
\* anything of that agent.
LEMMA RedeemKeeps ==
  ASSUME RemittanceAssumption, RemittanceInv, NEW d \in Desks, RedeemPickupTx(d)
  PROVE  RemittanceInv'
<1>1. desk[d].pc = "allowed"
  BY DEF RedeemPickupTx
<1>2. PICK r \in Remits, a \in Agents :
        /\ Serves(desk[d], r, sender[r], remit[r])
        /\ desk[d].agent = {a} /\ sender[r].agent = {a} /\ The(d) = r /\ At(d) = a
  BY <1>1, ConsoleAt
<1>3. /\ remit[r] \in RemitRows /\ otp[r] \in Guesses /\ RemittanceTypes
      /\ Sound(sender[r], remit[r], otp[r], money.payable[r], money.wallet[r], money.cash[r])
      /\ sender[r].step # "none" /\ remit[r].status = "awaiting_pickup"
  BY <1>1, <1>2, RowFacts DEF Serves, RemittanceInv
<1> DEFINE m == [remit[r] EXCEPT !.status = "paid", !.pickup = "redeemed"]
           o == [otp[r] EXCEPT !.status = "consumed"]
<1>4. m \in RemitRows /\ m.status = "paid" /\ m.pickup = "redeemed"
  BY <1>3 DEF RemitRows, Standings, Pickups
<1>5. o \in Guesses /\ o.status = "consumed" /\ o.wrong = otp[r].wrong /\ o.attempts = otp[r].attempts
  BY <1>3 DEF Guesses, Codes
<1>6. /\ remit' = [remit EXCEPT ![r] = m] /\ otp' = [otp EXCEPT ![r] = o]
      /\ money' = [money EXCEPT !.payable[r] = @ - Amount, !.float[a] = @ + Amount, !.cash[r][a] = @ + Amount]
      /\ sender' = sender /\ desk' = [desk EXCEPT ![d] = NoDesk]
  BY <1>2, <1>3 DEF RedeemPickupTx, RemittanceTypes
<1> HIDE DEF m, o
<1>7. /\ sender'[r] = sender[r] /\ remit'[r] = m /\ otp'[r] = o
      /\ money'.payable[r] = money.payable[r] - Amount
      /\ money'.wallet[r] = money.wallet[r]
      /\ money'.float[a] = money.float[a] + Amount
      /\ money'.cash[r][a] = money.cash[r][a] + Amount
      /\ \A b \in Agents : b # a => money'.float[b] = money.float[b] /\ money'.cash[r][b] = money.cash[r][b]
      /\ desk'[d] = NoDesk /\ \A e \in Desks : e # d => desk'[e] = desk[e]
  BY <1>3, <1>6 DEF RemittanceTypes, Balances
<1>8. Elsewhere(r)
  BY <1>3, <1>6 DEF Elsewhere, RemittanceTypes, Balances
<1>9. RemittanceTypes'
  <2>1. /\ money.payable \in [Remits -> Int] /\ money.float \in [Agents -> Int]
        /\ money.wallet \in [Remits -> Int] /\ money.cash \in [Remits -> [Agents -> Int]]
    BY <1>3 DEF RemittanceTypes, Balances
  <2>2. /\ money'.payable \in [Remits -> Int] /\ money'.float \in [Agents -> Int]
        /\ money'.wallet = money.wallet
    BY <1>3, <1>6, <2>1, AmountsAreInt DEF RemittanceTypes, Balances
  <2>3. money'.cash \in [Remits -> [Agents -> Int]]
    <3> DEFINE c == [money.cash[r] EXCEPT ![a] = @ + Amount]
    <3>1. c \in [Agents -> Int]
      BY <2>1, AmountsAreInt
    <3>2. money'.cash = [money.cash EXCEPT ![r] = c]
      BY <1>3, <1>6 DEF RemittanceTypes, Balances
    <3> HIDE DEF c
    <3> QED BY <2>1, <3>1, <3>2
  <2>4. money' = [payable |-> money'.payable, float |-> money'.float,
                  wallet |-> money'.wallet, cash |-> money'.cash]
    BY <1>3, <1>6 DEF RemittanceTypes, Balances
  <2>5. money' \in Balances
    BY <2>1, <2>2, <2>3, <2>4 DEF Balances
  <2> QED BY <1>3, <1>4, <1>5, <1>6, <2>5, NoDeskIs DEF RemittanceTypes
<1>10. \A b \in Agents : money.cash[r][b] = 0
  BY <1>3 DEF Sound
<1>11. Sound(sender[r], m, o, money'.payable[r], money'.wallet[r], money'.cash[r])
  <2>1. \A b \in Agents : money'.cash[r][b] = IF m.status = "paid" /\ b \in sender[r].agent THEN Amount ELSE 0
    BY <1>2, <1>4, <1>7, <1>10, AmountsAreInt
  <2> QED BY <1>3, <1>4, <1>5, <1>7, <2>1, AmountsAreInt DEF Sound
<1>12. \A q \in Remits : RowSound(q)'
  <2>1. RowSound(r)'
    BY <1>7, <1>11 DEF RowSound
  <2> QED BY <1>8, <2>1, RowsKept
<1>13. FloatIsOwed'
  <2>1. \A b \in Agents : money'.float[b] - money.float[b] = Owed(r, b)' - Owed(r, b)
    <3> SUFFICES ASSUME NEW b \in Agents
                 PROVE  money'.float[b] - money.float[b] = Owed(r, b)' - Owed(r, b)
      OBVIOUS
    <3>1. money.cash[r][b] = 0 /\ money.float[b] \in Int /\ Commission \in Int /\ Amount \in Int
      BY <1>3, <1>10, BalancesAreInt, AmountsAreInt
    <3>2. Owed(r, b) = IF b = a THEN Commission ELSE 0
      BY <1>2, <1>3, <3>1 DEF Owed
    <3>3. Owed(r, b)' = IF b = a THEN Amount + Commission ELSE 0
      BY <1>2, <1>4, <1>7, <3>1 DEF Owed
    <3> QED BY <1>7, <3>1, <3>2, <3>3
  <2> QED BY <1>3, <1>8, <1>9, <2>1, FloatFollows DEF RemittanceInv
<1>14. /\ PaidToday(a)' = PaidToday(a) + Amount
       /\ \A b \in Agents : b # a => PaidToday(b)' = PaidToday(b)
  <2>1. \A b \in Agents : /\ PaidToday(b) \in Int /\ money.cash[r][b] = 0
                          /\ PaidToday(b)' = PaidToday(b) + (money'.cash[r][b] - money.cash[r][b])
    BY <1>3, <1>8, <1>9, <1>10, PaidChange
  <2> QED BY <1>7, <2>1, AmountsAreInt
<1>15. AgentCapHolds'
  <2>1. PaidToday(a) + Amount <= AgentDailyCap
    BY <1>1, <1>2 DEF RemittanceInv, AllowedFits
  <2> QED BY <1>14, <2>1 DEF RemittanceInv, AgentCapHolds
<1>16. \A e \in Desks : e # d /\ Working(desk[e]) => desk[e].agent # {a}
  BY <1>1, <1>2 DEF RemittanceInv, DesksApart, Working
<1>17. DesksSound'
  <2> SUFFICES ASSUME NEW e \in Desks, e # d, desk[e] # NoDesk
               PROVE  \E q \in Remits : Serves(desk[e], q, sender'[q], remit'[q])
    BY <1>7 DEF DesksSound
  <2>1. PICK q \in Remits : Serves(desk[e], q, sender[q], remit[q])
    BY DEF RemittanceInv, DesksSound
  <2>2. CASE q # r
    BY <1>8, <2>1, <2>2 DEF Elsewhere
  <2>3. CASE q = r
    <3>1. desk[e].agent = {a}
      BY <1>2, <2>1, <2>3 DEF Serves
    <3>2. desk[e].pc = "found"
      BY <1>16, <2>1, <3>1 DEF Serves, Working
    <3>3. Serves(desk[e], r, sender'[r], remit'[r])
      BY <1>7, <2>1, <2>3, <3>2 DEF Serves
    <3> QED BY <3>3
  <2> QED BY <2>2, <2>3
<1>18. DesksApart'
  BY <1>7, NoDeskIs DEF RemittanceInv, DesksApart
<1>19. AllowedFits'
  <2> SUFFICES ASSUME NEW e \in Desks, e # d, NEW b \in desk[e].agent, desk[e].pc = "allowed"
               PROVE  PaidToday(b)' + Amount <= AgentDailyCap
    BY <1>7, NoDeskIs DEF AllowedFits
  <2>1. PICK c \in Agents : desk[e].agent = {c}
    BY ConsoleAt
  <2>2. b \in Agents /\ b # a
    BY <1>16, <2>1 DEF Working
  <2> QED BY <1>14, <2>2 DEF RemittanceInv, AllowedFits
<1> QED BY <1>9, <1>12, <1>13, <1>15, <1>17, <1>18, <1>19 DEF RemittanceInv

-----------------------------------------------------------------------------
(* The theorems.                                                           *)

LEMMA RemittanceInitInv ==
  ASSUME RemittanceAssumption, RemittanceInit
  PROVE  RemittanceInv
<1>1. RemittanceTypes
  <2>1. money \in Balances
    BY DEF RemittanceInit, Balances
  <2>2. desk \in [Desks -> Redeeming]
    BY NoDeskIs DEF RemittanceInit
  <2> QED BY <2>1, <2>2 DEF RemittanceInit, RemittanceTypes, SenderOrders, SenderSteps, RemitRows, Standings, Pickups, Guesses, Codes
<1>2. \A r \in Remits : /\ sender[r].step = "none" /\ remit[r].status = "none" /\ remit[r].pickup = "none"
                        /\ otp[r].status = "none" /\ otp[r].wrong = 0 /\ otp[r].attempts = 0
                        /\ money.payable[r] = 0 /\ money.wallet[r] = 0
                        /\ \A a \in Agents : money.cash[r][a] = 0
  BY DEF RemittanceInit
<1>3. (\A a \in Agents : money.float[a] = 0) /\ (\A d \in Desks : desk[d] = NoDesk)
  BY DEF RemittanceInit
<1>4. \A r \in Remits : RowSound(r)
  BY <1>2, AmountsAreInt DEF RowSound, Sound
<1>5. DesksSound /\ DesksApart /\ AllowedFits
  BY <1>3, NoDeskIs DEF DesksSound, DesksApart, AllowedFits
<1>6. ASSUME NEW a \in Agents PROVE PaidToday(a) = 0
  <2> DEFINE f == [r \in Remits |-> money.cash[r][a]]
  <2>1. \A r \in Remits : f[r] = 0
    BY <1>2
  <2>2. SumFunctionOnSet(f, Remits) = 0
    <3> HIDE DEF f
    <3> QED BY <2>1, AmountsAreInt, SumZero
  <2> QED BY <2>2 DEF PaidToday
<1>7. AgentCapHolds
  BY <1>6, AmountsAreInt DEF AgentCapHolds
<1>8. FloatIsOwed
  <2> SUFFICES ASSUME NEW a \in Agents
               PROVE  money.float[a] = SumFunctionOnSet([r \in Remits |-> Owed(r, a)], Remits)
    BY DEF FloatIsOwed
  <2> DEFINE f == [r \in Remits |-> Owed(r, a)]
  <2>1. \A r \in Remits : f[r] = 0
    BY <1>2 DEF Owed
  <2>2. SumFunctionOnSet(f, Remits) = 0
    <3> HIDE DEF f
    <3> QED BY <2>1, AmountsAreInt, SumZero
  <2> QED BY <1>3, <2>2
<1> QED BY <1>1, <1>4, <1>5, <1>7, <1>8 DEF RemittanceInv

LEMMA RemittanceNextInv ==
  ASSUME RemittanceAssumption, RemittanceInv, [RemittanceNext]_remittanceVars
  PROVE  RemittanceInv'
<1>1. CASE UNCHANGED remittanceVars
  BY <1>1, UnmovedKeeps DEF remittanceVars
<1>2. ASSUME NEW r \in Remits,
             \/ SelectRemittanceRegion(r) \/ PayRemittance(r) \/ CreateRemittanceTx(r)
             \/ DeliverPickupCode(r) \/ DeliveryFails(r) \/ RequestRemittanceOTP(r)
             \/ OTPLapses(r) \/ WindowEnds(r) \/ ExpireRemittance(r)
      PROVE  RemittanceInv'
  BY <1>2, SelectKeeps, PayKeeps, CreateKeeps, DeliverKeeps, RequestKeeps, LapseKeeps, WindowKeeps, ExpireKeeps
<1>3. ASSUME NEW d \in Desks, NEW r \in Remits, LookUpPickup(d, r) PROVE RemittanceInv'
  BY <1>3, LookUpKeeps
<1>4. ASSUME NEW d \in Desks,
             \/ FindRedeemCandidate(d) \/ RefuseOTP(d) \/ CheckPayout(d)
             \/ RedeemPickupTx(d) \/ RedemptionDies(d)
      PROVE  RemittanceInv'
  BY <1>4, FindKeeps, RefuseKeeps, CheckKeeps, RedeemKeeps, DiesKeeps
<1> QED BY <1>1, <1>2, <1>3, <1>4 DEF RemittanceNext

\* What the invariant says of a row is what PickupGoesOneWay and GuessesAreBounded
\* say.
LEMMA RemittanceInvIsSafe ==
  ASSUME RemittanceAssumption, RemittanceInv
  PROVE  RemittanceSafe
<1>1. PickupGoesOneWay
  <2> SUFFICES ASSUME NEW r \in Remits
               PROVE  /\ money.payable[r] = (IF Awaiting(r) THEN Amount ELSE 0)
                      /\ remit[r].status # "none" => \E a \in Agents : sender[r].agent = {a}
                      /\ \A a \in Agents :
                           money.cash[r][a] = (IF remit[r].status = "paid" /\ a \in sender[r].agent THEN Amount ELSE 0)
                      /\ money.wallet[r] = (IF remit[r].status = "expired" THEN Amount + Commission ELSE 0)
    BY DEF PickupGoesOneWay
  <2> QED BY RowFacts DEF Sound, Awaiting
<1>2. GuessesAreBounded
  <2> SUFFICES ASSUME NEW r \in Remits PROVE otp[r].wrong <= MaxGuesses
    BY DEF GuessesAreBounded
  <2>1. /\ otp[r].wrong \in Nat /\ otp[r].attempts \in Nat
        /\ otp[r].wrong <= otp[r].attempts /\ otp[r].attempts <= MaxGuesses
    BY RowFacts DEF Sound, Guesses
  <2> QED BY <2>1, AmountsAreInt
<1> QED BY <1>1, <1>2 DEF RemittanceInv, RemittanceSafe

\* The amount of a remittance is in one place, every float is what its agent is
\* owed, no agent exceeds its day's cap and no code is tried too often, however
\* redemptions, the sweep, hook retries and dying consoles meet
\* (RedeemPickupTx, ExpireRemittances, CreateRemittanceTx).
THEOREM RemittancesAreSafe == RemittanceSpec => []RemittanceSafe
<1>1. RemittanceInit => RemittanceInv
  BY RemittanceAssumption, RemittanceInitInv
<1>2. RemittanceInv /\ [RemittanceNext]_remittanceVars => RemittanceInv'
  BY RemittanceAssumption, RemittanceNextInv
<1>3. RemittanceInv => RemittanceSafe
  BY RemittanceAssumption, RemittanceInvIsSafe
<1> QED BY <1>1, <1>2, <1>3, PTL DEF RemittanceSpec

-----------------------------------------------------------------------------
(* Bulk payments.  A run that pays has a batch that was let through and    *)
(* holds one of its items (RunSound); what an item says and what moved for *)
(* it agree (LineSound).  A late location reply may take "paid" from an    *)
(* item, so what keeps the second payment out is not the item but the      *)
(* journal of its reference.                                               *)

BatchStates == {"none", "draft", "submitted", "approved", "rejected", "pending", "stage1", "stage2",
                "completed", "partial", "failed"}
Undecided     == {"none", "draft", "submitted", "approved", "rejected"}
RunSteps       == {"idle", "asking", "start", "paying", "posting", "sending", "sent"}
Paying      == {"paying", "posting", "sending", "sent"}
ItemStates  == {"none", "pending", "not_registered", "location_requested", "failed", "location_received",
                "out_of_range", "expired", "kyc_ineligible", "paid"}
BatchRows   == [status : BatchStates, mode : {"wallet", "bank"}, ask : BOOLEAN, over : BOOLEAN]
RunRows     == [kind : Kinds \cup {"none"}, pc : RunSteps, todo : SUBSET Items, now : SUBSET Items,
                failed : BOOLEAN]
ReplyRows   == [item : SUBSET Items, outcome : {"none", "expired", "location_received", "out_of_range"}]
PaidRows    == [credits : [Items -> {0, 1}], charges : [Items -> {0, 1}], rail : SUBSET Items]

BulkTypes ==
  /\ batch \in [Batches -> BatchRows]
  /\ work \in [Batches -> RunRows]
  /\ item \in [Items -> ItemStates]
  /\ reply \in [Replies -> ReplyRows]
  /\ paid \in PaidRows

\* A run that pays has a batch that was let through, and holds one of its items.
RunSound(b) ==
  /\ work[b].todo \subseteq ItemsOf(b)
  /\ work[b].pc \in Paying => batch[b].status \notin Undecided
  /\ work[b].pc = "posting" => batch[b].mode = "wallet"
  /\ work[b].pc \in {"sending", "sent"} => batch[b].mode = "bank"
  /\ work[b].pc \in {"posting", "sending", "sent"} => \E i \in ItemsOf(b) : work[b].now = {i}
  /\ work[b].pc = "sent" => work[b].now \subseteq paid.rail

LineSound(i) ==
  /\ batch[i[1]].mode = "wallet" => paid.credits[i] = paid.charges[i]
  /\ batch[i[1]].mode = "bank" /\ paid.charges[i] = 1 => i \in paid.rail
  /\ item[i] = "paid" => paid.charges[i] = 1
  /\ batch[i[1]].status \in Undecided => paid.charges[i] = 0 /\ paid.credits[i] = 0 /\ i \notin paid.rail

BulkInv ==
  /\ BulkTypes
  /\ \A b \in Batches : RunSound(b)
  /\ \A i \in Items : LineSound(i)

LEMMA ItemFacts ==
  /\ \A i \in Items : i[1] \in Batches /\ i \in ItemsOf(i[1])
  /\ \A b \in Batches : ItemsOf(b) \in SUBSET Items /\ \A i \in ItemsOf(b) : i[1] = b
BY DEF Items, ItemsOf

LEMMA BulkTypeFacts ==
  ASSUME BulkTypes
  PROVE  /\ \A b \in Batches : batch[b] \in BatchRows /\ work[b] \in RunRows
         /\ \A i \in Items : item[i] \in ItemStates /\ paid.credits[i] \in {0, 1} /\ paid.charges[i] \in {0, 1}
         /\ \A x \in Replies : reply[x] \in ReplyRows
         /\ paid.rail \in SUBSET Items
BY DEF BulkTypes, PaidRows

LEMMA BulkInitInv ==
  ASSUME BulkInit
  PROVE  BulkInv
<1>1. BulkTypes
  <2>1. batch \in [Batches -> BatchRows]
    BY DEF BulkInit, BatchRows, BatchStates
  <2>2. work \in [Batches -> RunRows]
    BY DEF BulkInit, NoRun, RunRows, RunSteps
  <2>3. item \in [Items -> ItemStates] /\ reply \in [Replies -> ReplyRows]
    BY DEF BulkInit, ItemStates, NoReply, ReplyRows
  <2>4. paid \in PaidRows
    BY DEF BulkInit, PaidRows
  <2> QED BY <2>1, <2>2, <2>3, <2>4 DEF BulkTypes
<1>2. ASSUME NEW b \in Batches PROVE RunSound(b)
  BY DEF BulkInit, NoRun, RunSound, Paying
<1>3. ASSUME NEW i \in Items PROVE LineSound(i)
  BY ItemFacts DEF BulkInit, LineSound
<1> QED BY <1>1, <1>2, <1>3 DEF BulkInv

\* A step that moves no money, changes no rail and takes no batch back to where it
\* waits for its approval.
LEMMA NothingMoves ==
  ASSUME BulkInv, BulkTypes', UNCHANGED paid,
         \A b \in Batches : /\ batch'[b].mode = batch[b].mode
                            /\ batch[b].status \notin Undecided => batch'[b].status \notin Undecided,
         \A b \in Batches : work'[b] = work[b] \/ RunSound(b)',
         \A i \in Items : item'[i] = "paid" => item[i] = "paid"
  PROVE  BulkInv'
<1>1. ASSUME NEW b \in Batches PROVE RunSound(b)'
  BY DEF BulkInv, RunSound
<1>2. ASSUME NEW i \in Items PROVE LineSound(i)'
  <2>1. LineSound(i) /\ i[1] \in Batches
    BY ItemFacts DEF BulkInv
  <2>2. batch'[i[1]].mode = batch[i[1]].mode /\ (batch'[i[1]].status \in Undecided => batch[i[1]].status \in Undecided)
    BY <2>1
  <2> QED BY <2>1, <2>2 DEF LineSound
<1> QED BY <1>1, <1>2 DEF BulkInv

\* The same with the runs as they are.
LEMMA DecisionKeeps ==
  ASSUME BulkInv, NEW b \in Batches, NEW st \in BatchStates, NEW ov \in BOOLEAN,
         batch' = [batch EXCEPT ![b] = [batch[b] EXCEPT !.status = st, !.over = ov]],
         batch[b].status \notin Undecided => st \notin Undecided,
         UNCHANGED <<work, item, reply, paid>>
  PROVE  BulkInv'
<1>1. BulkTypes /\ batch[b] \in BatchRows
  BY BulkTypeFacts DEF BulkInv
<1>2. [batch[b] EXCEPT !.status = st, !.over = ov] \in BatchRows
  <2> DEFINE a == [batch[b] EXCEPT !.status = st]
  <2>1. a \in BatchRows
    BY <1>1 DEF BatchRows
  <2>2. [batch[b] EXCEPT !.status = st, !.over = ov] = [a EXCEPT !.over = ov]
    BY <1>1 DEF BatchRows
  <2> HIDE DEF a
  <2> QED BY <2>1, <2>2 DEF BatchRows
<1>3. /\ batch' \in [Batches -> BatchRows]
      /\ \A a \in Batches : a # b => batch'[a] = batch[a]
      /\ batch'[b].mode = batch[b].mode /\ batch'[b].status = st
  BY <1>1, <1>2 DEF BulkTypes, BatchRows
<1>4. BulkTypes'
  BY <1>1, <1>3 DEF BulkTypes
<1> QED BY <1>3, <1>4, NothingMoves

LEMMA DecisionsKeep ==
  ASSUME BulkInv, NEW b \in Batches,
         \/ SubmitBulkBatch(b) \/ RejectBulkBatch(b) \/ CheckApproval(b) \/ ApproveBulkBatch(b)
         \/ EnqueueBulkJob(b) \/ LocationTTLEnds(b)
  PROVE  BulkInv'
<1>1. BulkTypes /\ batch[b] \in BatchRows /\ batch[b].over \in BOOLEAN /\ batch[b].status \in BatchStates
  BY BulkTypeFacts DEF BulkInv, BatchRows
<1>2. UNCHANGED <<work, item, reply, paid>>
  BY DEF SubmitBulkBatch, RejectBulkBatch, CheckApproval, ApproveBulkBatch, EnqueueBulkJob, LocationTTLEnds
<1>3. CASE UNCHANGED batch
  <2>1. BulkTypes'
    BY <1>1, <1>2, <1>3 DEF BulkTypes
  <2> QED BY <1>2, <1>3, <2>1, NothingMoves
<1>4. CASE Decidable(b) /\ \E st \in Undecided \ {"none"} : batch' = [batch EXCEPT ![b].status = st]
  <2>1. PICK st \in Undecided \ {"none"} : batch' = [batch EXCEPT ![b].status = st]
    BY <1>4
  <2>2. st \in BatchStates /\ batch[b].status \in Undecided
    BY <1>4 DEF Decidable, BatchStates, Undecided
  <2>3. batch' = [batch EXCEPT ![b] = [batch[b] EXCEPT !.status = st, !.over = batch[b].over]]
    BY <1>1, <2>1 DEF BulkTypes, BatchRows
  <2> QED BY <1>1, <1>2, <2>2, <2>3, DecisionKeeps
<1>5. CASE LocationTTLEnds(b)
  <2>1. batch' = [batch EXCEPT ![b] = [batch[b] EXCEPT !.status = batch[b].status, !.over = TRUE]]
    BY <1>1, <1>5 DEF LocationTTLEnds, BulkTypes, BatchRows
  <2> QED BY <1>1, <1>2, <2>1, DecisionKeeps
<1>6. SubmitBulkBatch(b) => Decidable(b) /\ \E st \in Undecided \ {"none"} : batch' = [batch EXCEPT ![b].status = st]
  BY DEF SubmitBulkBatch, Undecided
<1>7. RejectBulkBatch(b) => Decidable(b) /\ \E st \in Undecided \ {"none"} : batch' = [batch EXCEPT ![b].status = st]
  BY DEF RejectBulkBatch, Undecided
<1>8. ApproveBulkBatch(b) => \/ UNCHANGED batch
                             \/ Decidable(b) /\ \E st \in Undecided \ {"none"} : batch' = [batch EXCEPT ![b].status = st]
  BY DEF ApproveBulkBatch, Undecided
<1>9. CheckApproval(b) \/ EnqueueBulkJob(b) => UNCHANGED batch
  BY DEF CheckApproval, EnqueueBulkJob
<1> QED BY <1>3, <1>4, <1>5, <1>6, <1>7, <1>8, <1>9

\* A batch is drafted where there was none.
LEMMA DraftsKeep ==
  ASSUME BulkInv, NEW b \in Batches, DraftFromFilter(b) \/ CreateBulkBatch(b)
  PROVE  BulkInv'
<1>1. BulkTypes /\ RunSound(b) /\ \A i \in Items : LineSound(i)
  BY DEF BulkInv
<1>2. /\ batch[b].status = "none" /\ UNCHANGED <<work, reply, paid>>
      /\ item' = Written(ItemsOf(b), "pending")
  BY DEF DraftFromFilter, CreateBulkBatch
<1>3. PICK row \in BatchRows : batch' = [batch EXCEPT ![b] = row]
  BY DEF DraftFromFilter, CreateBulkBatch, BatchRows, BatchStates
<1>4. /\ batch' \in [Batches -> BatchRows] /\ batch'[b] \in BatchRows
      /\ \A a \in Batches : a # b => batch'[a] = batch[a]
  BY <1>1, <1>3 DEF BulkTypes
<1>5. /\ item' \in [Items -> ItemStates] /\ \A i \in ItemsOf(b) : item'[i] = "pending"
      /\ \A i \in Items : i[1] # b => item'[i] = item[i]
  BY <1>1, <1>2, ItemFacts DEF BulkTypes, Written, ItemStates
<1>6. BulkTypes'
  BY <1>1, <1>2, <1>4, <1>5 DEF BulkTypes
<1>7. ASSUME NEW a \in Batches PROVE RunSound(a)'
  <2>1. CASE a = b
    <3>1. work[b].pc \notin Paying
      BY <1>1, <1>2 DEF RunSound, Undecided
    <3> QED BY <1>1, <1>2, <2>1, <3>1 DEF RunSound, Paying
  <2>2. CASE a # b
    BY <1>2, <1>4, <2>2 DEF BulkInv, RunSound
  <2> QED BY <2>1, <2>2
<1>8. ASSUME NEW i \in Items PROVE LineSound(i)'
  <2>1. CASE i[1] = b
    <3>1. paid.charges[i] = 0 /\ paid.credits[i] = 0 /\ i \notin paid.rail
      BY <1>1, <1>2, <2>1 DEF LineSound, Undecided
    <3>2. item'[i] = "pending"
      BY <1>5, <2>1, ItemFacts
    <3> QED BY <1>2, <3>1, <3>2 DEF LineSound
  <2>2. CASE i[1] # b
    BY <1>1, <1>2, <1>4, <1>5, <2>2, ItemFacts DEF LineSound
  <2> QED BY <2>1, <2>2
<1> QED BY <1>6, <1>7, <1>8 DEF BulkInv

\* The run of a batch takes a step; the others stand.
LEMMA OneRun ==
  ASSUME BulkTypes, NEW b \in Batches, NEW row \in RunRows, work' = [work EXCEPT ![b] = row]
  PROVE  work' \in [Batches -> RunRows] /\ work'[b] = row /\ \A a \in Batches : a # b => work'[a] = work[a]
BY DEF BulkTypes

\* A run that is over, or has not come to paying.
LEMMA RunIdles ==
  ASSUME BulkInv, NEW b \in Batches, NEW row \in RunRows, work' = [work EXCEPT ![b] = row],
         row.pc \notin Paying, row.todo = {}, UNCHANGED <<reply, paid>>,
         batch' \in [Batches -> BatchRows], item' \in [Items -> ItemStates],
         \A a \in Batches : /\ batch'[a].mode = batch[a].mode
                            /\ batch[a].status \notin Undecided => batch'[a].status \notin Undecided,
         \A i \in Items : item'[i] = "paid" => item[i] = "paid"
  PROVE  BulkInv'
<1>1. BulkTypes
  BY DEF BulkInv
<1>2. work' \in [Batches -> RunRows] /\ work'[b] = row /\ \A a \in Batches : a # b => work'[a] = work[a]
  BY <1>1, OneRun
<1>3. BulkTypes'
  BY <1>1, <1>2 DEF BulkTypes
<1>4. RunSound(b)'
  BY <1>2 DEF RunSound, Paying
<1> QED BY <1>2, <1>3, <1>4, NothingMoves

NoRunRow == NoRun \in RunRows /\ NoRun.pc = "idle" /\ NoRun.todo = {}
LEMMA NoRunFacts == NoRunRow /\ "idle" \notin Paying
BY DEF NoRunRow, NoRun, RunRows, RunSteps, Paying

LEMMA ClaimKeeps ==
  ASSUME BulkInv, NEW b \in Batches, NEW k \in Kinds, ClaimBulkJobs(b, k)
  PROVE  BulkInv'
<1> DEFINE row == [NoRun EXCEPT !.kind = k, !.pc = IF k = "stage1" THEN "asking" ELSE "start"]
<1>1. row \in RunRows /\ row.pc \notin Paying /\ row.todo = {}
  BY DEF NoRun, RunRows, RunSteps, Paying
<1>2. work' = [work EXCEPT ![b] = row] /\ UNCHANGED <<batch, item, reply, paid>>
  BY DEF ClaimBulkJobs
<1> HIDE DEF row
<1>3. batch' \in [Batches -> BatchRows] /\ item' \in [Items -> ItemStates]
  BY <1>2 DEF BulkInv, BulkTypes
<1> QED BY <1>1, <1>2, <1>3, RunIdles

\* The status of a batch once it was let through.
LEMMA StatusEdit ==
  ASSUME BulkTypes, NEW b \in Batches, NEW st \in BatchStates, batch' = [batch EXCEPT ![b].status = st]
  PROVE  /\ batch' \in [Batches -> BatchRows] /\ batch'[b].status = st
         /\ \A a \in Batches : batch'[a].mode = batch[a].mode /\ (a # b => batch'[a] = batch[a])
<1>1. [batch[b] EXCEPT !.status = st] \in BatchRows
  BY BulkTypeFacts DEF BatchRows
<1>2. batch' = [batch EXCEPT ![b] = [batch[b] EXCEPT !.status = st]]
  BY DEF BulkTypes
<1>3. [batch[b] EXCEPT !.status = st].status = st /\ [batch[b] EXCEPT !.status = st].mode = batch[b].mode
  BY BulkTypeFacts DEF BatchRows
<1> QED BY <1>1, <1>2, <1>3 DEF BulkTypes

LEMMA RunEndsKeeps ==
  ASSUME BulkInv, NEW b \in Batches, FinishStage1(b) \/ FinalizeBulkBatch(b) \/ RunFails(b) \/ BulkDies(b)
  PROVE  BulkInv'
<1>1. BulkTypes
  BY DEF BulkInv
<1>2. UNCHANGED <<item, reply, paid>>
  BY DEF FinishStage1, FinalizeBulkBatch, RunFails, BulkDies
<1>3. work' = [work EXCEPT ![b] = NoRun] \/ UNCHANGED work
  BY DEF FinishStage1, FinalizeBulkBatch, RunFails, BulkDies
<1>4. batch' \in [Batches -> BatchRows]
      /\ \A a \in Batches : /\ batch'[a].mode = batch[a].mode
                            /\ batch[a].status \notin Undecided => batch'[a].status \notin Undecided
  <2>1. CASE UNCHANGED batch
    BY <1>1, <2>1 DEF BulkTypes
  <2>2. ASSUME NEW st \in BatchStates \ Undecided, batch' = [batch EXCEPT ![b].status = st]
        PROVE  batch' \in [Batches -> BatchRows]
               /\ \A a \in Batches : /\ batch'[a].mode = batch[a].mode
                                     /\ batch[a].status \notin Undecided => batch'[a].status \notin Undecided
    BY <1>1, <2>2, StatusEdit
  <2>3. FinishStage1(b) => \E st \in BatchStates \ Undecided : batch' = [batch EXCEPT ![b].status = st]
    BY DEF FinishStage1, BatchStates, Undecided
  <2>4. FinalizeBulkBatch(b) => \E st \in BatchStates \ Undecided : batch' = [batch EXCEPT ![b].status = st]
    <3> SUFFICES ASSUME FinalizeBulkBatch(b)
                 PROVE  \E st \in {"failed", "partial", "completed"} : batch' = [batch EXCEPT ![b].status = st]
      BY DEF BatchStates, Undecided
    <3> QED BY DEF FinalizeBulkBatch
  <2>5. RunFails(b) \/ BulkDies(b) => UNCHANGED batch
    BY DEF RunFails, BulkDies
  <2> QED BY <2>1, <2>2, <2>3, <2>4, <2>5
<1>5. CASE work' = [work EXCEPT ![b] = NoRun]
  <2>1. NoRun \in RunRows /\ NoRun.pc \notin Paying /\ NoRun.todo = {}
    BY NoRunFacts DEF NoRunRow
  <2>2. item' \in [Items -> ItemStates] /\ \A i \in Items : item'[i] = "paid" => item[i] = "paid"
    BY <1>1, <1>2 DEF BulkTypes
  <2> QED BY <1>2, <1>4, <1>5, <2>1, <2>2, RunIdles
<1>6. CASE UNCHANGED work
  <2>1. BulkTypes'
    BY <1>1, <1>2, <1>4, <1>6 DEF BulkTypes
  <2> QED BY <1>2, <1>4, <1>6, <2>1, NothingMoves
<1> QED BY <1>3, <1>5, <1>6

LEMMA AskKeepsItems ==
  ASSUME BulkInv, NEW b \in Batches, NEW i \in ItemsOf(b), AskForLocation(b, i)
  PROVE  BulkInv'
<1>1. BulkTypes /\ i \in Items
  BY ItemFacts DEF BulkInv
<1>2. UNCHANGED <<batch, work, reply, paid>>
  BY DEF AskForLocation
<1>3. item' \in [Items -> ItemStates] /\ \A j \in Items : item'[j] = "paid" => item[j] = "paid"
  <2>1. PICK status \in {"not_registered", "location_requested", "failed"} : item' = [item EXCEPT ![i] = status]
    BY DEF AskForLocation
  <2>2. status \in ItemStates /\ status # "paid"
    BY DEF ItemStates
  <2> QED BY <1>1, <2>1, <2>2 DEF BulkTypes
<1>4. BulkTypes'
  BY <1>1, <1>2, <1>3 DEF BulkTypes
<1> QED BY <1>2, <1>3, <1>4, NothingMoves

LEMMA ReplyKeeps ==
  ASSUME BulkInv, NEW x \in Replies, SetBulkItemLocation(x) \/ \E i \in Items : RecordLocation(x, i)
  PROVE  BulkInv'
<1>1. BulkTypes /\ reply[x] \in ReplyRows
  BY BulkTypeFacts DEF BulkInv
<1>2. UNCHANGED <<batch, work, paid>>
  BY DEF SetBulkItemLocation, RecordLocation
<1>3. /\ item' \in [Items -> ItemStates] /\ reply' \in [Replies -> ReplyRows]
      /\ \A j \in Items : item'[j] = "paid" => item[j] = "paid"
  <2>1. CASE SetBulkItemLocation(x)
    <3>1. /\ item' = Written(reply[x].item, reply[x].outcome) /\ reply[x] # NoReply
          /\ reply' = [reply EXCEPT ![x] = NoReply]
      BY <2>1 DEF SetBulkItemLocation
    <3>2. reply' \in [Replies -> ReplyRows]
      BY <1>1, <3>1 DEF BulkTypes, NoReply, ReplyRows
    <3>3. reply[x].outcome \in ItemStates /\ reply[x].outcome # "paid"
      BY <1>1 DEF ReplyRows, ItemStates
    <3> QED BY <1>1, <3>1, <3>2, <3>3 DEF BulkTypes, Written
  <2>2. ASSUME NEW i \in Items, RecordLocation(x, i)
        PROVE  UNCHANGED item /\ reply' \in [Replies -> ReplyRows]
    <3>1. PICK outcome \in {"expired", "location_received", "out_of_range"} :
            reply' = [reply EXCEPT ![x] = [item |-> {i}, outcome |-> outcome]]
      BY <2>2 DEF RecordLocation
    <3>2. [item |-> {i}, outcome |-> outcome] \in ReplyRows
      BY DEF ReplyRows
    <3> QED BY <1>1, <2>2, <3>1, <3>2 DEF RecordLocation, BulkTypes
  <2> QED BY <1>1, <2>1, <2>2 DEF BulkTypes
<1>4. BulkTypes'
  BY <1>1, <1>2, <1>3 DEF BulkTypes
<1> QED BY <1>2, <1>3, <1>4, NothingMoves

LEMMA StartKeeps ==
  ASSUME BulkInv, NEW b \in Batches, StartPayment(b)
  PROVE  BulkInv'
<1>1. BulkTypes /\ work[b] \in RunRows
  BY BulkTypeFacts DEF BulkInv
<1>2. /\ batch' = [batch EXCEPT ![b].status = "stage2"] /\ UNCHANGED <<reply, paid>>
      /\ "stage2" \in BatchStates /\ "stage2" \notin Undecided
  BY DEF StartPayment, BatchStates, Undecided
<1>3. /\ batch' \in [Batches -> BatchRows] /\ batch'[b].status = "stage2"
      /\ \A a \in Batches : batch'[a].mode = batch[a].mode /\ (a # b => batch'[a] = batch[a])
  BY <1>1, <1>2, StatusEdit
<1>4. item' \in [Items -> ItemStates] /\ \A i \in Items : item'[i] = "paid" => item[i] = "paid"
  <2>1. Unanswered(b) \in SUBSET Items /\ Unasked(b) \in SUBSET Items
    BY ItemFacts DEF Unanswered, Unasked
  <2>2. PICK S \in SUBSET Items, st \in {"expired", "location_received"} : item' = Written(S, st)
    BY <2>1 DEF StartPayment
  <2>3. st \in ItemStates /\ st # "paid"
    BY DEF ItemStates
  <2> QED BY <1>1, <2>2, <2>3 DEF BulkTypes, Written
<1>5. PICK page \in SUBSET ItemsOf(b) : work' = [work EXCEPT ![b].pc = "paying", ![b].todo = page]
  BY DEF StartPayment
<1> DEFINE row == [work[b] EXCEPT !.pc = "paying", !.todo = page]
<1>6. work' = [work EXCEPT ![b] = row]
  BY <1>1, <1>5 DEF BulkTypes
<1>7. row \in RunRows /\ row.pc = "paying" /\ row.todo = page
  BY <1>1, ItemFacts DEF RunRows, RunSteps
<1> HIDE DEF row
<1>8. work' \in [Batches -> RunRows] /\ work'[b] = row /\ \A a \in Batches : a # b => work'[a] = work[a]
  BY <1>1, <1>6, <1>7, OneRun
<1>9. BulkTypes'
  BY <1>1, <1>2, <1>3, <1>4, <1>8 DEF BulkTypes
<1>10. RunSound(b)'
  BY <1>2, <1>3, <1>7, <1>8 DEF RunSound
<1>11. \A a \in Batches : /\ batch'[a].mode = batch[a].mode
                          /\ batch[a].status \notin Undecided => batch'[a].status \notin Undecided
  BY <1>2, <1>3
<1> QED BY <1>2, <1>4, <1>8, <1>9, <1>10, <1>11, NothingMoves

\* A run goes on to the next step of a payment, or to the next item.
NextRun(b, pc, i, bad) ==
  [kind |-> work[b].kind, pc |-> pc, todo |-> work[b].todo \ {i},
   now |-> IF pc = "paying" THEN {} ELSE {i}, failed |-> work[b].failed \/ bad]

LEMMA SameRun ==
  ASSUME NEW r \in RunRows, NEW s \in RunRows, r.kind = s.kind, r.pc = s.pc, r.todo = s.todo,
         r.now = s.now, r.failed = s.failed
  PROVE  r = s
BY DEF RunRows

LEMMA MarkedRow ==
  ASSUME NEW r \in RunRows
  PROVE  [r EXCEPT !.failed = TRUE]
           = [kind |-> r.kind, pc |-> r.pc, todo |-> r.todo, now |-> r.now, failed |-> TRUE]
<1> DEFINE a == [r EXCEPT !.failed = TRUE]
           e == [kind |-> r.kind, pc |-> r.pc, todo |-> r.todo, now |-> r.now, failed |-> TRUE]
<1>1. a \in RunRows /\ a.kind = r.kind /\ a.pc = r.pc /\ a.todo = r.todo /\ a.now = r.now /\ a.failed = TRUE
  BY DEF RunRows
<1>2. e \in RunRows /\ e.kind = r.kind /\ e.pc = r.pc /\ e.todo = r.todo /\ e.now = r.now /\ e.failed = TRUE
  BY DEF RunRows
<1> HIDE DEF a, e
<1>3. a = e
  BY <1>1, <1>2, SameRun
<1> QED BY <1>3 DEF a, e

TurnedTo(r, pc, d, n) == [r EXCEPT !.pc = pc, !.todo = d, !.now = n]
RowAt(r, pc, d, n)    == [kind |-> r.kind, pc |-> pc, todo |-> d, now |-> n, failed |-> r.failed]

LEMMA TurnedRow ==
  ASSUME NEW r \in RunRows, NEW pc \in RunSteps, NEW d \in SUBSET Items, NEW n \in SUBSET Items
  PROVE  TurnedTo(r, pc, d, n) = RowAt(r, pc, d, n)
<1> DEFINE a == [r EXCEPT !.pc = pc]
           b == [a EXCEPT !.todo = d]
           c == [b EXCEPT !.now = n]
           e == [kind |-> r.kind, pc |-> pc, todo |-> d, now |-> n, failed |-> r.failed]
<1>1. a \in RunRows /\ a.kind = r.kind /\ a.pc = pc /\ a.todo = r.todo /\ a.now = r.now /\ a.failed = r.failed
  BY DEF RunRows
<1>2. [r EXCEPT !.pc = pc, !.todo = d, !.now = n] = c
  OBVIOUS
<1> HIDE DEF a
<1>3. b \in RunRows /\ b.kind = r.kind /\ b.pc = pc /\ b.todo = d /\ b.now = r.now /\ b.failed = r.failed
  BY <1>1 DEF RunRows
<1> HIDE DEF b
<1>4. c \in RunRows /\ c.kind = r.kind /\ c.pc = pc /\ c.todo = d /\ c.now = n /\ c.failed = r.failed
  BY <1>3 DEF RunRows
<1> HIDE DEF c
<1>5. e \in RunRows /\ e.kind = r.kind /\ e.pc = pc /\ e.todo = d /\ e.now = n /\ e.failed = r.failed
  BY DEF RunRows
<1> HIDE DEF e
<1>6. c = e
  BY <1>4, <1>5, SameRun
<1> QED BY <1>2, <1>6 DEF e, TurnedTo, RowAt

LEMMA TurnRow ==
  ASSUME BulkTypes, NEW b \in Batches, NEW pc \in RunSteps, NEW i \in Items
  PROVE  /\ \A bad \in BOOLEAN : NextRun(b, pc, i, bad) \in RunRows
         /\ Turn(b, pc, i) = [work EXCEPT ![b] = NextRun(b, pc, i, FALSE)]
         /\ Bad(Turn(b, pc, i), b) = [work EXCEPT ![b] = NextRun(b, pc, i, TRUE)]
<1>1. work[b] \in RunRows
  BY BulkTypeFacts
<1>2. \A bad \in BOOLEAN : NextRun(b, pc, i, bad) \in RunRows
  BY <1>1 DEF NextRun, RunRows
<1>3. work[b] = [kind |-> work[b].kind, pc |-> work[b].pc, todo |-> work[b].todo, now |-> work[b].now,
                 failed |-> work[b].failed]
  BY <1>1 DEF RunRows
<1> DEFINE n == IF pc = "paying" THEN {} ELSE {i}
           d == work[b].todo \ {i}
<1>4. Turn(b, pc, i) = [work EXCEPT ![b] = [kind |-> work[b].kind, pc |-> pc, todo |-> d, now |-> n,
                                            failed |-> work[b].failed]]
  <2>1. Turn(b, pc, i) = [work EXCEPT ![b] = [work[b] EXCEPT !.pc = pc, !.todo = d, !.now = n]]
    BY <1>1 DEF BulkTypes, Turn
  <2>2. [work[b] EXCEPT !.pc = pc, !.todo = d, !.now = n]
          = [kind |-> work[b].kind, pc |-> pc, todo |-> d, now |-> n, failed |-> work[b].failed]
    <3>1. d \in SUBSET Items
      BY <1>1 DEF RunRows
    <3>2. n \in SUBSET Items
      OBVIOUS
    <3> HIDE DEF d, n
    <3>3. pc \in RunSteps
      OBVIOUS
    <3>4. TurnedTo(work[b], pc, d, n) = RowAt(work[b], pc, d, n)
      BY <1>1, <3>1, <3>2, <3>3, TurnedRow
    <3> QED BY <3>4 DEF TurnedTo, RowAt
  <2> QED BY <2>1, <2>2
<1>5. work[b].failed \in BOOLEAN
  BY <1>1 DEF RunRows
<1>6. Turn(b, pc, i) = [work EXCEPT ![b] = NextRun(b, pc, i, FALSE)]
  BY <1>4, <1>5 DEF NextRun
<1>7. Turn(b, pc, i)[b] = [kind |-> work[b].kind, pc |-> pc, todo |-> d, now |-> n, failed |-> work[b].failed]
      /\ Turn(b, pc, i) \in [Batches -> RunRows]
  BY <1>2, <1>4, <1>5, <1>6 DEF BulkTypes
<1> HIDE DEF n, d
<1>8. Bad(Turn(b, pc, i), b)
        = [work EXCEPT ![b] = [kind |-> work[b].kind, pc |-> pc, todo |-> d, now |-> n, failed |-> TRUE]]
  <2> DEFINE w == Turn(b, pc, i)
             old == [kind |-> work[b].kind, pc |-> pc, todo |-> d, now |-> n, failed |-> work[b].failed]
             new == [kind |-> work[b].kind, pc |-> pc, todo |-> d, now |-> n, failed |-> TRUE]
  <2>1. w \in [Batches -> RunRows] /\ w[b] = old /\ w = [work EXCEPT ![b] = old] /\ work \in [Batches -> RunRows]
    BY <1>4, <1>7 DEF BulkTypes
  <2>2. [old EXCEPT !.failed = TRUE] = new
    <3>1. old \in RunRows
      BY <2>1
    <3>2. /\ old.kind = work[b].kind /\ old.pc = pc /\ old.todo = d /\ old.now = n
      OBVIOUS
    <3> HIDE DEF old
    <3>3. [old EXCEPT !.failed = TRUE]
            = [kind |-> old.kind, pc |-> old.pc, todo |-> old.todo, now |-> old.now, failed |-> TRUE]
      BY <3>1, MarkedRow
    <3> QED BY <3>2, <3>3
  <2> HIDE DEF w, old, new
  <2>3. [w EXCEPT ![b].failed = TRUE] = [w EXCEPT ![b] = new]
    BY <2>1, <2>2
  <2>4. [w EXCEPT ![b] = new] = [work EXCEPT ![b] = new]
    BY <2>1
  <2>5. Bad(w, b) = [work EXCEPT ![b] = new]
    BY <2>3, <2>4 DEF Bad
  <2> QED BY <2>5 DEF w, new
<1>9. NextRun(b, pc, i, TRUE) = [kind |-> work[b].kind, pc |-> pc, todo |-> d, now |-> n, failed |-> TRUE]
  BY DEF NextRun, n, d
<1> QED BY <1>2, <1>6, <1>8, <1>9

\* It does so without moving money.
LEMMA TurnKeeps ==
  ASSUME BulkInv, NEW b \in Batches, NEW i \in ItemsOf(b), NEW bad \in BOOLEAN,
         NEW pc \in {"paying", "posting", "sending"},
         work[b].pc \in Paying, work' = [work EXCEPT ![b] = NextRun(b, pc, i, bad)],
         pc = "posting" => batch[b].mode = "wallet", pc = "sending" => batch[b].mode = "bank",
         UNCHANGED <<batch, reply, paid>>, item' \in [Items -> ItemStates],
         \A j \in Items : item'[j] = "paid" => item[j] = "paid"
  PROVE  BulkInv'
<1>1. BulkTypes /\ RunSound(b) /\ i \in Items /\ pc \in RunSteps
  BY ItemFacts DEF BulkInv, RunSteps
<1>2. NextRun(b, pc, i, bad) \in RunRows
  BY <1>1, TurnRow
<1>3. work' \in [Batches -> RunRows] /\ work'[b] = NextRun(b, pc, i, bad)
      /\ \A a \in Batches : a # b => work'[a] = work[a]
  BY <1>1, <1>2, OneRun
<1>4. BulkTypes'
  BY <1>1, <1>3 DEF BulkTypes
<1>5. RunSound(b)'
  <2>1. /\ work'[b].todo = work[b].todo \ {i} /\ work'[b].pc = pc
        /\ pc # "paying" => work'[b].now = {i}
    BY <1>3 DEF NextRun
  <2>2. work[b].todo \subseteq ItemsOf(b) /\ batch[b].status \notin Undecided
    BY <1>1 DEF RunSound
  <2> QED BY <2>1, <2>2 DEF RunSound
<1> QED BY <1>3, <1>4, <1>5, NothingMoves

LEMMA PassKeeps ==
  ASSUME BulkInv, NEW b \in Batches, NEW i \in ItemsOf(b), PassOver(b, i)
  PROVE  BulkInv'
<1>1. BulkTypes /\ i \in Items /\ "paying" \in RunSteps /\ item[i] \in ItemStates
  BY ItemFacts, BulkTypeFacts DEF BulkInv, RunSteps
<1>2. work' = [work EXCEPT ![b] = NextRun(b, "paying", i, FALSE)] /\ work[b].pc \in Paying
      /\ UNCHANGED <<batch, reply, paid>>
  BY <1>1, TurnRow DEF PassOver, Paying
<1>3. item' \in [Items -> ItemStates] /\ \A j \in Items : item'[j] = "paid" => item[j] = "paid"
  <2>1. PICK status \in {"not_registered", "kyc_ineligible", item[i]} : item' = [item EXCEPT ![i] = status]
    BY DEF PassOver
  <2>2. status \in ItemStates /\ (status = "paid" => item[i] = "paid")
    BY <1>1, <2>1 DEF ItemStates
  <2> QED BY <1>1, <2>1, <2>2 DEF BulkTypes
<1> QED BY <1>2, <1>3, TurnKeeps

\* An item that cannot be paid is marked failed.
LEMMA FailedItem ==
  ASSUME BulkTypes, NEW i \in Items, UNCHANGED item \/ item' = Written({i}, "failed")
  PROVE  item' \in [Items -> ItemStates] /\ \A j \in Items : item'[j] = "paid" => item[j] = "paid"
BY DEF BulkTypes, Written, ItemStates

LEMMA LockItemKeeps ==
  ASSUME BulkInv, NEW b \in Batches, NEW i \in ItemsOf(b), LockItem(b, i)
  PROVE  BulkInv'
<1>1. BulkTypes /\ i \in Items /\ "paying" \in RunSteps /\ "posting" \in RunSteps
  BY ItemFacts DEF BulkInv, RunSteps
<1>2. /\ work[b].pc = "paying" /\ batch[b].mode = "wallet" /\ UNCHANGED <<batch, reply, paid>>
      /\ \/ work' = Turn(b, "paying", i) \/ work' = Bad(Turn(b, "paying", i), b) \/ work' = Turn(b, "posting", i)
      /\ UNCHANGED item \/ item' = Written({i}, "failed")
  BY DEF LockItem
<1>3. \E bad \in BOOLEAN, pc \in {"paying", "posting"} : work' = [work EXCEPT ![b] = NextRun(b, pc, i, bad)]
  BY <1>1, <1>2, TurnRow
<1>4. item' \in [Items -> ItemStates] /\ \A j \in Items : item'[j] = "paid" => item[j] = "paid"
  BY <1>1, <1>2, FailedItem
<1>5. work[b].pc \in Paying
  BY <1>2 DEF Paying
<1> QED BY <1>2, <1>3, <1>4, <1>5, TurnKeeps

LEMMA FundingKeeps ==
  ASSUME BulkInv, NEW b \in Batches, NEW i \in ItemsOf(b), CheckFunding(b, i)
  PROVE  BulkInv'
<1>1. BulkTypes /\ i \in Items /\ "paying" \in RunSteps /\ "sending" \in RunSteps
  BY ItemFacts DEF BulkInv, RunSteps
<1>2. /\ work[b].pc = "paying" /\ batch[b].mode = "bank" /\ UNCHANGED <<batch, reply, paid>>
      /\ work' = Turn(b, "paying", i) \/ work' = Turn(b, "sending", i)
      /\ UNCHANGED item \/ item' = Written({i}, "failed")
  BY DEF CheckFunding
<1>3. \E pc \in {"paying", "sending"} : work' = [work EXCEPT ![b] = NextRun(b, pc, i, FALSE)]
  BY <1>1, <1>2, TurnRow
<1>4. item' \in [Items -> ItemStates] /\ \A j \in Items : item'[j] = "paid" => item[j] = "paid"
  BY <1>1, <1>2, FailedItem
<1>5. work[b].pc \in Paying
  BY <1>2 DEF Paying
<1> QED BY <1>2, <1>3, <1>4, <1>5, TurnKeeps

-----------------------------------------------------------------------------
(* The steps that move money: the item in hand moves, and no other.        *)

\* The item in hand is the one the run turned to.
LEMMA LineInHand ==
  ASSUME BulkInv, NEW b \in Batches, work[b].pc \in {"posting", "sending", "sent"}
  PROVE  /\ TheItem(b) \in ItemsOf(b) /\ TheItem(b) \in Items /\ work[b].now = {TheItem(b)}
         /\ TheItem(b)[1] = b /\ batch[b].status \notin Undecided
<1>1. RunSound(b)
  BY DEF BulkInv
<1>2. PICK i \in ItemsOf(b) : work[b].now = {i}
  BY <1>1 DEF RunSound
<1>3. TheItem(b) = i
  BY <1>2 DEF TheItem
<1> QED BY <1>1, <1>2, <1>3, ItemFacts DEF RunSound, Paying

\* What every such step comes down to.
LEMMA MoneyKeeps ==
  ASSUME BulkInv, NEW b \in Batches, NEW pc \in {"paying", "sent"}, NEW bad \in BOOLEAN,
         NEW i \in Items, i = TheItem(b),
         work[b].pc \in {"posting", "sending", "sent"},
         work' = [work EXCEPT ![b] = NextRun(b, pc, i, bad)],
         UNCHANGED <<batch, reply>>, item' \in [Items -> ItemStates], paid' \in PaidRows,
         paid.rail \subseteq paid'.rail,
         \A j \in Items \ {i} : /\ item'[j] = item[j]
                                /\ paid'.credits[j] = paid.credits[j]
                                /\ paid'.charges[j] = paid.charges[j]
                                /\ j \in paid'.rail => j \in paid.rail,
         pc = "sent" => batch[b].mode = "bank" /\ i \in paid'.rail,
         LineSound(i)'
  PROVE  BulkInv'
<1>1. BulkTypes /\ RunSound(b)
  BY DEF BulkInv
<1>2. pc \in RunSteps
  BY DEF RunSteps
<1>3. i \in ItemsOf(b) /\ i[1] = b /\ batch[b].status \notin Undecided
  BY LineInHand
<1>5. NextRun(b, pc, i, bad) \in RunRows
  BY <1>1, <1>2, TurnRow
<1>7. /\ work' \in [Batches -> RunRows] /\ work'[b] = NextRun(b, pc, i, bad)
      /\ \A a \in Batches : a # b => work'[a] = work[a]
  BY <1>1, <1>5, OneRun
<1>8. BulkTypes'
  BY <1>1, <1>7 DEF BulkTypes
<1>9. ASSUME NEW a \in Batches PROVE RunSound(a)'
  <2>1. CASE a = b
    <3>1. /\ work'[b].todo = work[b].todo \ {i} /\ work'[b].pc = pc
          /\ pc # "paying" => work'[b].now = {i}
      BY <1>7 DEF NextRun
    <3>2. work[b].todo \subseteq ItemsOf(b)
      BY <1>1 DEF RunSound
    <3> QED BY <1>3, <2>1, <3>1, <3>2 DEF RunSound
  <2>2. CASE a # b
    <3>1. work'[a] = work[a] /\ batch'[a] = batch[a] /\ RunSound(a)
      BY <1>7, <2>2 DEF BulkInv
    <3> QED BY <3>1 DEF RunSound
  <2> QED BY <2>1, <2>2
<1>10. ASSUME NEW j \in Items PROVE LineSound(j)'
  <2>1. CASE j = i
    BY <2>1
  <2>2. CASE j # i
    <3>1. /\ item'[j] = item[j] /\ paid'.credits[j] = paid.credits[j] /\ paid'.charges[j] = paid.charges[j]
          /\ j \in paid'.rail <=> j \in paid.rail
      BY <2>2
    <3>2. LineSound(j)
      BY DEF BulkInv
    <3> QED BY <3>1, <3>2 DEF LineSound
  <2> QED BY <2>1, <2>2
<1> QED BY <1>8, <1>9, <1>10 DEF BulkInv

\* The rows of what moved, after one entry or one transfer more.
LEMMA PaidEdits ==
  ASSUME BulkTypes, NEW i \in Items
  PROVE  /\ [paid EXCEPT !.charges[i] = 1] \in PaidRows
         /\ [paid EXCEPT !.charges[i] = 1].charges[i] = 1
         /\ [paid EXCEPT !.charges[i] = 1].credits = paid.credits
         /\ [paid EXCEPT !.charges[i] = 1].rail = paid.rail
         /\ \A j \in Items \ {i} : [paid EXCEPT !.charges[i] = 1].charges[j] = paid.charges[j]
         /\ \A S \in SUBSET {i} : /\ [paid EXCEPT !.rail = @ \union S] \in PaidRows
                                  /\ [paid EXCEPT !.rail = @ \union S].rail = paid.rail \cup S
                                  /\ [paid EXCEPT !.rail = @ \union S].credits = paid.credits
                                  /\ [paid EXCEPT !.rail = @ \union S].charges = paid.charges
<1>1. paid \in PaidRows
  BY DEF BulkTypes
<1>2. /\ [paid EXCEPT !.charges[i] = 1] \in PaidRows
      /\ [paid EXCEPT !.charges[i] = 1].charges[i] = 1
      /\ [paid EXCEPT !.charges[i] = 1].credits = paid.credits
      /\ [paid EXCEPT !.charges[i] = 1].rail = paid.rail
      /\ \A j \in Items \ {i} : [paid EXCEPT !.charges[i] = 1].charges[j] = paid.charges[j]
  BY <1>1 DEF PaidRows
<1>3. ASSUME NEW S \in SUBSET {i}
      PROVE  /\ [paid EXCEPT !.rail = @ \union S] \in PaidRows
             /\ [paid EXCEPT !.rail = @ \union S].rail = paid.rail \cup S
             /\ [paid EXCEPT !.rail = @ \union S].credits = paid.credits
             /\ [paid EXCEPT !.rail = @ \union S].charges = paid.charges
  <2>1. paid.rail \cup S \in SUBSET Items
    BY <1>1 DEF PaidRows
  <2> QED BY <1>1, <2>1 DEF PaidRows
<1> QED BY <1>2, <1>3

\* A journal is written once: the charge and the credit of a wallet item.
LEMMA EntriesAre ==
  ASSUME BulkTypes, NEW i \in Items, paid.charges[i] = 0, paid.credits[i] = 0
  PROVE  /\ [paid EXCEPT !.credits[i] = @ + 1, !.charges[i] = @ + 1] \in PaidRows
         /\ [paid EXCEPT !.credits[i] = @ + 1, !.charges[i] = @ + 1].rail = paid.rail
         /\ [paid EXCEPT !.credits[i] = @ + 1, !.charges[i] = @ + 1].charges[i] = 1
         /\ [paid EXCEPT !.credits[i] = @ + 1, !.charges[i] = @ + 1].credits[i] = 1
         /\ \A j \in Items \ {i} :
              /\ [paid EXCEPT !.credits[i] = @ + 1, !.charges[i] = @ + 1].charges[j] = paid.charges[j]
              /\ [paid EXCEPT !.credits[i] = @ + 1, !.charges[i] = @ + 1].credits[j] = paid.credits[j]
<1> DEFINE p == [paid EXCEPT !.credits[i] = 1]
           q == [p EXCEPT !.charges[i] = 1]
<1>1. /\ p \in PaidRows /\ p.rail = paid.rail /\ p.charges = paid.charges /\ p.credits[i] = 1
      /\ \A j \in Items \ {i} : p.credits[j] = paid.credits[j]
  BY DEF BulkTypes, PaidRows
<1>2. [paid EXCEPT !.credits[i] = @ + 1, !.charges[i] = @ + 1] = q
  <2>1. 0 + 1 = 1
    OBVIOUS
  <2> QED BY <1>1, <2>1 DEF BulkTypes, PaidRows
<1> HIDE DEF p
<1>3. /\ q \in PaidRows /\ q.rail = p.rail /\ q.credits = p.credits /\ q.charges[i] = 1
      /\ \A j \in Items \ {i} : q.charges[j] = p.charges[j]
  BY <1>1 DEF PaidRows
<1> HIDE DEF q
<1> QED BY <1>1, <1>2, <1>3

LEMMA PostKeeps ==
  ASSUME BulkInv, NEW b \in Batches, PostBulkPaymentItem(b)
  PROVE  BulkInv'
<1>0. PICK i \in Items : i = TheItem(b)
  BY LineInHand DEF PostBulkPaymentItem, Payout
<1>1. /\ work[b].pc = "posting" /\ batch[b].mode = "wallet" /\ item' = Written({i}, "paid")
      /\ work' = Turn(b, "paying", i) /\ UNCHANGED <<batch, reply>>
      /\ paid' = IF Posted(i) THEN paid ELSE [paid EXCEPT !.credits[i] = @ + 1, !.charges[i] = @ + 1]
  BY <1>0 DEF PostBulkPaymentItem
<1>2. BulkTypes /\ i \in Items /\ i[1] = b /\ batch[b].status \notin Undecided
  BY <1>0, <1>1, LineInHand DEF BulkInv
<1>3. LineSound(i) /\ paid.credits[i] = paid.charges[i] /\ paid.charges[i] \in {0, 1}
  BY <1>1, <1>2, BulkTypeFacts DEF BulkInv, LineSound
<1>4. item' \in [Items -> ItemStates] /\ item'[i] = "paid" /\ \A j \in Items \ {i} : item'[j] = item[j]
  BY <1>1, <1>2 DEF Written, BulkTypes, ItemStates
<1>5. /\ paid' \in PaidRows /\ paid'.rail = paid.rail /\ paid'.charges[i] = 1 /\ paid'.credits[i] = 1
      /\ \A j \in Items \ {i} : paid'.charges[j] = paid.charges[j] /\ paid'.credits[j] = paid.credits[j]
  <2>1. CASE Posted(i)
    <3>1. paid.charges[i] = 1
      BY <1>3, <2>1 DEF Posted
    <3> QED BY <1>1, <1>2, <1>3, <2>1, <3>1 DEF BulkTypes
  <2>2. CASE ~Posted(i)
    <3>1. paid.charges[i] = 0
      BY <1>3, <2>2 DEF Posted
    <3>2. paid' = [paid EXCEPT !.credits[i] = @ + 1, !.charges[i] = @ + 1]
      BY <1>1, <2>2
    <3> QED BY <1>2, <1>3, <3>1, <3>2, EntriesAre
  <2> QED BY <2>1, <2>2
<1>6. LineSound(i)'
  BY <1>1, <1>2, <1>5 DEF LineSound
<1>7. "paying" \in RunSteps /\ work' = [work EXCEPT ![b] = NextRun(b, "paying", i, FALSE)]
  <2>1. "paying" \in RunSteps
    BY DEF RunSteps
  <2>2. BulkTypes
    BY <1>2
  <2>3. Turn(b, "paying", i) = [work EXCEPT ![b] = NextRun(b, "paying", i, FALSE)]
    BY <2>1, <2>2, TurnRow
  <2> QED BY <1>1, <2>1, <2>3
<1> QED BY <1>0, <1>1, <1>4, <1>5, <1>6, <1>7, MoneyKeeps

LEMMA PayoutKeeps ==
  ASSUME BulkInv, NEW b \in Batches, Payout(b)
  PROVE  BulkInv'
<1>0. PICK i \in Items : i = TheItem(b)
  BY LineInHand DEF PostBulkPaymentItem, Payout
<1>1. work[b].pc = "sending" /\ UNCHANGED <<batch, reply>>
  BY DEF Payout
<1>2. BulkTypes /\ i \in Items /\ i[1] = b /\ batch[b].status \notin Undecided
  BY <1>0, <1>1, LineInHand DEF BulkInv
<1>3. LineSound(i) /\ batch[b].mode = "bank"
  BY <1>1, <1>2 DEF BulkInv, RunSound
<1>4. PICK S \in SUBSET {i}, pc \in {"paying", "sent"}, bad \in BOOLEAN :
        /\ paid' = paid \/ paid' = [paid EXCEPT !.rail = @ \union S]
        /\ UNCHANGED item \/ item' = Written({i}, "failed")
        /\ work' = IF bad THEN Bad(Turn(b, pc, i), b) ELSE Turn(b, pc, i)
        /\ pc = "sent" => i \in paid'.rail /\ UNCHANGED item
  <2>1. CASE paid' = [paid EXCEPT !.rail = @ \union {i}] /\ work' = Turn(b, "sent", i) /\ UNCHANGED item
    <3>1. paid'.rail = paid.rail \cup {i}
      BY <1>2, <2>1, PaidEdits
    <3> QED BY <2>1, <3>1
  <2>2. CASE (\E landed \in SUBSET {i} : paid' = [paid EXCEPT !.rail = @ \union landed])
             /\ work' = Turn(b, "paying", i) /\ UNCHANGED item
    BY <2>2
  <2>3. CASE item' = Written({i}, "failed") /\ work' = Bad(Turn(b, "paying", i), b) /\ UNCHANGED paid
    BY <2>3
  <2> QED BY <1>0, <2>1, <2>2, <2>3 DEF Payout
<1>5. pc \in RunSteps
  BY DEF RunSteps
<1>6. work' = [work EXCEPT ![b] = NextRun(b, pc, i, bad)]
  <2>1. BulkTypes
    BY <1>2
  <2>2. /\ Turn(b, pc, i) = [work EXCEPT ![b] = NextRun(b, pc, i, FALSE)]
        /\ Bad(Turn(b, pc, i), b) = [work EXCEPT ![b] = NextRun(b, pc, i, TRUE)]
    BY <1>5, <2>1, TurnRow
  <2> QED BY <1>4, <2>2
<1>7. /\ paid' \in PaidRows /\ paid'.credits = paid.credits /\ paid'.charges = paid.charges
      /\ paid.rail \subseteq paid'.rail /\ paid'.rail \subseteq paid.rail \cup {i}
  <2>1. BulkTypes /\ paid \in PaidRows
    BY <1>2 DEF BulkTypes
  <2>2. CASE paid' = paid
    BY <2>1, <2>2
  <2>3. CASE paid' = [paid EXCEPT !.rail = @ \union S]
    <3>1. /\ [paid EXCEPT !.rail = @ \union S] \in PaidRows
          /\ [paid EXCEPT !.rail = @ \union S].rail = paid.rail \cup S
          /\ [paid EXCEPT !.rail = @ \union S].credits = paid.credits
          /\ [paid EXCEPT !.rail = @ \union S].charges = paid.charges
      BY <2>1, PaidEdits
    <3> QED BY <2>3, <3>1
  <2> QED BY <1>4, <2>2, <2>3
<1>8. /\ item' \in [Items -> ItemStates] /\ (item'[i] = "paid" => item[i] = "paid")
      /\ \A j \in Items \ {i} : item'[j] = item[j]
  BY <1>2, <1>4 DEF Written, BulkTypes, ItemStates
<1>9. LineSound(i)'
  BY <1>1, <1>2, <1>3, <1>7, <1>8 DEF LineSound
<1>10. /\ \A j \in Items \ {i} : /\ item'[j] = item[j]
                                 /\ paid'.credits[j] = paid.credits[j]
                                 /\ paid'.charges[j] = paid.charges[j]
                                 /\ j \in paid'.rail => j \in paid.rail
       /\ pc = "sent" => batch[b].mode = "bank" /\ i \in paid'.rail
  BY <1>3, <1>4, <1>7, <1>8
<1> QED BY <1>0, <1>1, <1>6, <1>7, <1>8, <1>9, <1>10, MoneyKeeps

LEMMA PostBankKeeps ==
  ASSUME BulkInv, NEW b \in Batches, PostBulkPaymentItemBank(b)
  PROVE  BulkInv'
<1>0. PICK i \in Items : i = TheItem(b)
  BY LineInHand DEF PostBulkPaymentItemBank
<1> DEFINE refused == item[i] \notin {"paid", "location_received"}
           short == item[i] = "location_received" /\ ~Posted(i) /\ Funds < LinePay
<1>1. /\ work[b].pc = "sent" /\ UNCHANGED <<batch, reply>>
      /\ work' = IF refused THEN Bad(Turn(b, "paying", i), b) ELSE Turn(b, "paying", i)
      /\ item' = IF refused THEN item ELSE Written({i}, IF short THEN "failed" ELSE "paid")
      /\ paid' = IF refused \/ short \/ Posted(i) THEN paid ELSE [paid EXCEPT !.charges[i] = 1]
  BY <1>0 DEF PostBulkPaymentItemBank
<1>2. BulkTypes /\ i \in Items /\ i[1] = b /\ batch[b].status \notin Undecided /\ work[b].now = {i}
  BY <1>0, <1>1, LineInHand DEF BulkInv
<1>3. LineSound(i) /\ batch[b].mode = "bank" /\ i \in paid.rail /\ paid.charges[i] \in {0, 1}
  BY <1>1, <1>2, BulkTypeFacts DEF BulkInv, RunSound
<1>4. "paying" \in RunSteps
  BY DEF RunSteps
<1>5. \E bad \in BOOLEAN : work' = [work EXCEPT ![b] = NextRun(b, "paying", i, bad)]
  BY <1>1, <1>2, <1>4, TurnRow
<1> HIDE DEF short
<1>6. /\ item' \in [Items -> ItemStates]
      /\ \A j \in Items \ {i} : item'[j] = item[j]
      /\ item'[i] = "paid" => ~refused /\ ~short
  BY <1>1, <1>2 DEF Written, BulkTypes, ItemStates
<1>7. /\ paid' \in PaidRows /\ paid'.credits = paid.credits /\ paid'.rail = paid.rail
      /\ \A j \in Items \ {i} : paid'.charges[j] = paid.charges[j]
      /\ ~refused /\ ~short => paid'.charges[i] = 1
  <2>1. CASE refused \/ short \/ Posted(i)
    <3>1. Posted(i) => paid.charges[i] = 1
      BY <1>3 DEF Posted
    <3> QED BY <1>1, <1>2, <2>1, <3>1 DEF BulkTypes
  <2>2. CASE ~(refused \/ short \/ Posted(i))
    <3>1. paid' = [paid EXCEPT !.charges[i] = 1]
      BY <1>1, <2>2
    <3> QED BY <1>2, <3>1, PaidEdits
  <2> QED BY <2>1, <2>2
<1> HIDE DEF refused
<1>8. LineSound(i)'
  BY <1>1, <1>2, <1>3, <1>6, <1>7 DEF LineSound
<1>9. /\ \A j \in Items \ {i} : /\ item'[j] = item[j]
                                /\ paid'.credits[j] = paid.credits[j]
                                /\ paid'.charges[j] = paid.charges[j]
                                /\ j \in paid'.rail => j \in paid.rail
      /\ paid.rail \subseteq paid'.rail
  BY <1>6, <1>7
<1> QED BY <1>0, <1>1, <1>5, <1>6, <1>7, <1>8, <1>9, MoneyKeeps

LEMMA BulkNextInv ==
  ASSUME BulkInv, [BulkNext]_bulkVars
  PROVE  BulkInv'
<1>1. CASE UNCHANGED bulkVars
  <2>1. BulkTypes'
    BY <1>1 DEF BulkInv, BulkTypes, bulkVars
  <2> QED BY <1>1, <2>1, NothingMoves DEF bulkVars
<1>2. ASSUME NEW b \in Batches,
             \/ DraftFromFilter(b) \/ CreateBulkBatch(b) \/ SubmitBulkBatch(b) \/ RejectBulkBatch(b)
             \/ CheckApproval(b) \/ ApproveBulkBatch(b) \/ EnqueueBulkJob(b) \/ LocationTTLEnds(b)
      PROVE  BulkInv'
  BY <1>2, DecisionsKeep, DraftsKeep
<1>3. ASSUME NEW b \in Batches, FinishStage1(b) \/ FinalizeBulkBatch(b) \/ RunFails(b) \/ BulkDies(b)
      PROVE  BulkInv'
  BY <1>3, RunEndsKeeps
<1>4. ASSUME NEW b \in Batches,
             StartPayment(b) \/ PostBulkPaymentItem(b) \/ Payout(b) \/ PostBulkPaymentItemBank(b)
      PROVE  BulkInv'
  BY <1>4, StartKeeps, PostKeeps, PayoutKeeps, PostBankKeeps
<1>5. ASSUME NEW b \in Batches, NEW k \in Kinds, ClaimBulkJobs(b, k) PROVE BulkInv'
  BY <1>5, ClaimKeeps
<1>6. ASSUME NEW b \in Batches, NEW i \in ItemsOf(b),
             AskForLocation(b, i) \/ PassOver(b, i) \/ LockItem(b, i) \/ CheckFunding(b, i)
      PROVE  BulkInv'
  BY <1>6, AskKeepsItems, PassKeeps, LockItemKeeps, FundingKeeps
<1>7. ASSUME NEW x \in Replies, SetBulkItemLocation(x) \/ \E i \in Items : RecordLocation(x, i)
      PROVE  BulkInv'
  BY <1>7, ReplyKeeps
<1> QED BY <1>1, <1>2, <1>3, <1>4, <1>5, <1>6, <1>7 DEF BulkNext, RunStage2

LEMMA BulkInvSafe ==
  ASSUME BulkInv
  PROVE  BulkSafe
<1> SUFFICES ASSUME NEW i \in Items
             PROVE  /\ paid.credits[i] <= 1 /\ paid.charges[i] <= 1
                    /\ IF batch[i[1]].mode = "wallet" THEN paid.credits[i] = paid.charges[i]
                       ELSE paid.charges[i] = 1 => i \in paid.rail
                    /\ item[i] = "paid" => paid.charges[i] = 1
                    /\ (batch[i[1]].status \in {"draft", "submitted", "approved", "rejected"}) =>
                         (paid.charges[i] = 0 /\ i \notin paid.rail)
  BY DEF BulkSafe, BulkPaidOnce, PaidMeansMoved
<1>1. LineSound(i) /\ paid.credits[i] \in {0, 1} /\ paid.charges[i] \in {0, 1} /\ batch[i[1]].mode \in {"wallet", "bank"}
  BY BulkTypeFacts, ItemFacts DEF BulkInv, BatchRows
<1> QED BY <1>1 DEF LineSound, Undecided

\* Bulk payments: however often a job is run again and whatever a late location
\* reply writes over a paid item, every recipient is credited at most once and for
\* what the merchant is charged, a charged bank item was paid by the rail, an item
\* that says paid was, and a batch nobody let through has moved nothing
\* (store_bulk_jobs.go, store_bulk_payments.go, bulk_payments.go).
THEOREM BulkIsSafe == BulkSpec => []BulkSafe
<1>1. BulkInit => BulkInv
  BY BulkInitInv
<1>2. BulkInv /\ [BulkNext]_bulkVars => BulkInv'
  BY BulkNextInv
<1>3. BulkInv => BulkSafe
  BY BulkInvSafe
<1> QED BY <1>1, <1>2, <1>3, PTL DEF BulkSpec

-----------------------------------------------------------------------------
(* Purses.  A payment that was allowed holds the purse until it is written *)
(* (LocksOfPurses), so what it found covered stays covered (SpendsSound);  *)
(* the balance is what the sums over grants, payments, refunds and returns *)
(* say (Accounted).                                                        *)

PurseRows == [status : {"none", "active", "closed"}, lapsed : BOOLEAN, balance : Int,
              granted : Int, spent : Int, refunded : Int, returned : Int]
SpendRows == [pc : {"none", "drafted", "waiting", "locked", "paid", "refunded"},
              purse : SUBSET Purses, shop : SUBSET Shops, draw : Nat, allowed : BOOLEAN]
GrantRows == [pc : {"idle", "posting"}, purse : SUBSET Purses, posted : {0, 1}]

PurseTypes ==
  /\ purse \in [Purses -> PurseRows]
  /\ spend \in [Spends -> SpendRows]
  /\ grant \in [Grants -> GrantRows]
  /\ sweeper \in [pc : {"idle", "returning"}, purse : SUBSET Purses, kobo : Nat]

\* What a payment took from its purse and has not given back.
Taken(s, p) == IF s.pc = "paid" /\ p \in s.purse THEN s.draw ELSE 0
TakenFrom(p) == SumFunctionOnSet([s \in Spends |-> Taken(spend[s], p)], Spends)
PostedTo(p) == {g \in Grants : grant[g].posted > 0 /\ p \in grant[g].purse}

SpendsSound ==
  \A s \in Spends :
    /\ spend[s].pc # "none" => \E p \in Purses : spend[s].purse = {p}
    /\ spend[s].pc = "locked" => \A p \in spend[s].purse : purse[p].balance >= spend[s].draw

\* Who may take money out of a purse holds its row alone.
LocksOfPurses ==
  /\ \A s, t \in Spends : s # t /\ spend[s].pc = "locked" /\ spend[t].pc = "locked" =>
       spend[s].purse # spend[t].purse
  /\ \A s \in Spends : spend[s].pc = "locked" => spend[s].purse \cap sweeper.purse = {}

ReturnSound ==
  /\ sweeper.pc = "idle" => sweeper.purse = {}
  /\ \A p \in sweeper.purse : sweeper.purse = {p} /\ sweeper.kobo <= purse[p].balance

GrantsSound == \A g \in Grants : grant[g].pc = "posting" \/ grant[g].posted > 0 =>
                 \E p \in Purses : grant[g].purse = {p}

Accounted(b, p) ==
  /\ b.balance >= 0
  /\ b.balance = b.granted + b.refunded - b.spent - b.returned
  /\ b.granted = GrantKobo * Cardinality(PostedTo(p))
  /\ b.spent - b.refunded = TakenFrom(p)

PurseInv ==
  /\ PurseTypes /\ SpendsSound /\ LocksOfPurses /\ ReturnSound /\ GrantsSound
  /\ \A p \in Purses : Accounted(purse[p], p)

LEMMA PurseConstants ==
  ASSUME PurseAssumption
  PROVE  GrantKobo \in Nat /\ Price \in Nat /\ GrantKobo > 0 /\ Price > 0
         /\ IsFiniteSet(Spends) /\ IsFiniteSet(Grants)
BY DEF PurseAssumption

LEMMA TakenType ==
  ASSUME PurseTypes, NEW s \in Spends, NEW p
  PROVE  Taken(spend[s], p) \in Nat
BY DEF PurseTypes, SpendRows, Taken

LEMMA TakenSumType ==
  ASSUME PurseAssumption, PurseTypes, NEW p \in Purses
  PROVE  TakenFrom(p) \in Nat
<1> DEFINE f == [s \in Spends |-> Taken(spend[s], p)]
<1>1. \A s \in Spends : f[s] \in Nat
  BY TakenType
<1>2. SumFunctionOnSet(f, Spends) \in Nat
  <2> HIDE DEF f
  <2> QED BY <1>1, PurseConstants, SumNat
<1> QED BY <1>2 DEF TakenFrom

\* A step of one payment changes what was taken from a purse by its own part.
LEMMA TakenChange ==
  ASSUME PurseAssumption, PurseTypes, PurseTypes', NEW s \in Spends, NEW p \in Purses,
         \A t \in Spends : t # s => spend'[t] = spend[t]
  PROVE  TakenFrom(p)' = TakenFrom(p) + Taken(spend[s], p)' - Taken(spend[s], p)
<1> DEFINE f == [t \in Spends |-> Taken(spend[t], p)]
           h == [t \in Spends |-> Taken(spend'[t], p)]
           rest == Spends \ {s}
<1>1. (\A t \in Spends : f[t] \in Int) /\ (\A t \in Spends : h[t] \in Int)
  <2>1. \A t \in Spends : Taken(spend[t], p) \in Nat
    BY TakenType
  <2>2. \A t \in Spends : Taken(spend'[t], p) \in Nat
    BY DEF PurseTypes, SpendRows, Taken
  <2> QED BY <2>1, <2>2
<1>2. \A t \in rest : h[t] = f[t]
  BY DEF Taken
<1>3. TakenFrom(p) = SumFunctionOnSet(f, Spends) /\ TakenFrom(p)' = SumFunctionOnSet(h, Spends)
  BY DEF TakenFrom, Taken
<1>4. f[s] = Taken(spend[s], p) /\ h[s] = Taken(spend[s], p)'
  BY DEF Taken
<1>5. IsFiniteSet(Spends) /\ IsFiniteSet(rest)
  BY PurseConstants, FS_Subset
<1>6. SumFunctionOnSet(f, Spends) = f[s] + SumFunctionOnSet(f, rest)
  <2> HIDE DEF f
  <2> QED BY <1>1, <1>5, SumRemove
<1>7. SumFunctionOnSet(h, Spends) = h[s] + SumFunctionOnSet(h, rest)
  <2> HIDE DEF h
  <2> QED BY <1>1, <1>5, SumRemove
<1>8. SumFunctionOnSet(f, rest) = SumFunctionOnSet(h, rest) /\ SumFunctionOnSet(f, rest) \in Int
  <2>1. \A t \in rest : f[t] \in Int /\ h[t] = f[t]
    BY <1>1, <1>2
  <2>2. \A t \in rest : f[t] \in Int
    BY <1>1
  <2> HIDE DEF f, h
  <2>3. SumFunctionOnSet(f, rest) = SumFunctionOnSet(h, rest)
    BY <1>5, <2>1, SumAgree
  <2>4. SumFunctionOnSet(f, rest) \in Int
    BY <1>5, <2>2, SumInt
  <2> QED BY <2>3, <2>4
<1>9. f[s] \in Int /\ h[s] \in Int
  BY <1>1
<1> HIDE DEF f, h
<1> QED BY <1>3, <1>4, <1>6, <1>7, <1>8, <1>9

-----------------------------------------------------------------------------
(* The steps. *)

LEMMA PurseTypeFacts ==
  ASSUME PurseTypes
  PROVE  /\ \A p \in Purses : purse[p] \in PurseRows
         /\ \A s \in Spends : spend[s] \in SpendRows
         /\ \A g \in Grants : grant[g] \in GrantRows
         /\ sweeper.kobo \in Nat /\ sweeper.purse \in SUBSET Purses
BY DEF PurseTypes

LEMMA PurseFacts ==
  ASSUME PurseAssumption, PurseInv
  PROVE  /\ PurseTypes /\ SpendsSound /\ LocksOfPurses /\ ReturnSound /\ GrantsSound
         /\ \A p \in Purses : Accounted(purse[p], p)
BY DEF PurseInv

\* The sums stay where no payment and no grant moves.
LEMMA SumsStand ==
  ASSUME NEW p
  PROVE  /\ UNCHANGED spend => TakenFrom(p)' = TakenFrom(p)
         /\ UNCHANGED grant => PostedTo(p)' = PostedTo(p)
BY DEF TakenFrom, PostedTo, Taken

\* The edits of a row.
LEMMA FieldEdits ==
  ASSUME NEW old \in PurseRows, NEW v \in Int
  PROVE  /\ [old EXCEPT !.balance = v] \in PurseRows
         /\ [old EXCEPT !.granted = v] \in PurseRows
         /\ [old EXCEPT !.spent = v] \in PurseRows
         /\ [old EXCEPT !.refunded = v] \in PurseRows
         /\ [old EXCEPT !.returned = v] \in PurseRows
<1>1. [old EXCEPT !.balance = v] \in PurseRows /\ [old EXCEPT !.granted = v] \in PurseRows
  BY DEF PurseRows
<1>2. [old EXCEPT !.spent = v] \in PurseRows /\ [old EXCEPT !.refunded = v] \in PurseRows
  BY DEF PurseRows
<1>3. [old EXCEPT !.returned = v] \in PurseRows
  BY DEF PurseRows
<1> QED BY <1>1, <1>2, <1>3

LEMMA StatusEdits ==
  ASSUME NEW old \in PurseRows
  PROVE  [old EXCEPT !.status = "active"] \in PurseRows /\ [old EXCEPT !.status = "closed"] \in PurseRows
BY DEF PurseRows

LEMMA PurseRowEdits ==
  ASSUME NEW old \in PurseRows, NEW n \in Nat
  PROVE  /\ [old EXCEPT !.status = "active"] \in PurseRows
         /\ [old EXCEPT !.balance = @ + n, !.granted = @ + n] \in PurseRows
         /\ [old EXCEPT !.balance = @ - n, !.spent = @ + n] \in PurseRows
         /\ [old EXCEPT !.balance = @ + n, !.refunded = @ + n] \in PurseRows
         /\ [old EXCEPT !.status = "closed", !.balance = @ - n, !.returned = @ + n] \in PurseRows
<1>1. [old EXCEPT !.balance = @ + n, !.granted = @ + n] \in PurseRows
  <2> DEFINE a == [old EXCEPT !.balance = old.balance + n]
  <2>1. /\ [old EXCEPT !.balance = @ + n, !.granted = @ + n] = [a EXCEPT !.granted = old.granted + n]
        /\ old.balance + n \in Int /\ old.granted + n \in Int
    BY DEF PurseRows
  <2>2. a \in PurseRows
    BY <2>1, FieldEdits
  <2> HIDE DEF a
  <2> QED BY <2>1, <2>2, FieldEdits
<1>2. [old EXCEPT !.balance = @ - n, !.spent = @ + n] \in PurseRows
  <2> DEFINE a == [old EXCEPT !.balance = old.balance - n]
  <2>1. /\ [old EXCEPT !.balance = @ - n, !.spent = @ + n] = [a EXCEPT !.spent = old.spent + n]
        /\ old.balance - n \in Int /\ old.spent + n \in Int
    BY DEF PurseRows
  <2>2. a \in PurseRows
    BY <2>1, FieldEdits
  <2> HIDE DEF a
  <2> QED BY <2>1, <2>2, FieldEdits
<1>3. [old EXCEPT !.balance = @ + n, !.refunded = @ + n] \in PurseRows
  <2> DEFINE a == [old EXCEPT !.balance = old.balance + n]
  <2>1. /\ [old EXCEPT !.balance = @ + n, !.refunded = @ + n] = [a EXCEPT !.refunded = old.refunded + n]
        /\ old.balance + n \in Int /\ old.refunded + n \in Int
    BY DEF PurseRows
  <2>2. a \in PurseRows
    BY <2>1, FieldEdits
  <2> HIDE DEF a
  <2> QED BY <2>1, <2>2, FieldEdits
<1>4. [old EXCEPT !.status = "closed", !.balance = @ - n, !.returned = @ + n] \in PurseRows
  <2> DEFINE c == [old EXCEPT !.status = "closed"]
             a == [c EXCEPT !.balance = old.balance - n]
  <2>1. /\ [old EXCEPT !.status = "closed", !.balance = @ - n, !.returned = @ + n]
             = [a EXCEPT !.returned = old.returned + n]
        /\ old.balance - n \in Int /\ old.returned + n \in Int
    BY DEF PurseRows
  <2>2. c \in PurseRows
    BY StatusEdits
  <2> HIDE DEF c
  <2>3. a \in PurseRows
    BY <2>1, <2>2, FieldEdits
  <2> HIDE DEF a
  <2> QED BY <2>1, <2>3, FieldEdits
<1> QED BY <1>1, <1>2, <1>3, <1>4, StatusEdits

LEMMA OneRowEdited ==
  ASSUME NEW S, NEW T, NEW f \in [S -> T], NEW x \in S, NEW v \in T
  PROVE  [f EXCEPT ![x] = v] \in [S -> T]
OBVIOUS

LEMMA PurseInitInv ==
  ASSUME PurseAssumption, PurseInit
  PROVE  PurseInv
<1>1. PurseTypes
  BY DEF PurseInit, PurseTypes, PurseRows, SpendRows, GrantRows, NoSpend
<1>2. SpendsSound /\ LocksOfPurses /\ ReturnSound /\ GrantsSound
  BY DEF PurseInit, NoSpend, SpendsSound, LocksOfPurses, ReturnSound, GrantsSound
<1>3. ASSUME NEW p \in Purses PROVE Accounted(purse[p], p)
  <2>1. PostedTo(p) = {}
    BY DEF PurseInit, PostedTo
  <2>2. TakenFrom(p) = 0
    <3> DEFINE f == [s \in Spends |-> Taken(spend[s], p)]
               z == [s \in Spends |-> 0]
    <3>1. f = z
      BY DEF PurseInit, NoSpend, Taken
    <3>2. SumFunctionOnSet(z, Spends) = 0
      <4>1. \A s \in Spends : z[s] = 0
        OBVIOUS
      <4> HIDE DEF z
      <4> QED BY <4>1, PurseConstants, SumZero
    <3> QED BY <3>1, <3>2 DEF TakenFrom
  <2>3. Cardinality({}) = 0
    BY FS_EmptySet
  <2>4. purse[p] = [status |-> "none", lapsed |-> FALSE, balance |-> 0,
                    granted |-> 0, spent |-> 0, refunded |-> 0, returned |-> 0]
    BY DEF PurseInit
  <2>5. GrantKobo * 0 = 0
    BY PurseConstants
  <2> QED BY <2>1, <2>2, <2>3, <2>4, <2>5 DEF Accounted
<1> QED BY <1>1, <1>2, <1>3 DEF PurseInv

\* The sponsor's decisions move no money.
LEMMA SponsorKeeps ==
  ASSUME PurseAssumption, PurseInv, UNCHANGED <<purse, spend, grant, sweeper>>
  PROVE  PurseInv'
<1>1. PurseTypes' /\ SpendsSound' /\ GrantsSound'
  BY DEF PurseInv, PurseTypes, SpendsSound, GrantsSound
<1>2. LocksOfPurses' /\ ReturnSound'
  BY DEF PurseInv, LocksOfPurses, ReturnSound
<1>3. ASSUME NEW p \in Purses PROVE Accounted(purse[p], p)'
  <2>1. TakenFrom(p)' = TakenFrom(p) /\ PostedTo(p)' = PostedTo(p)
    BY DEF TakenFrom, PostedTo, Taken
  <2>2. Accounted(purse[p], p)
    BY DEF PurseInv
  <2> QED BY <2>1, <2>2 DEF Accounted
<1> QED BY <1>1, <1>2, <1>3 DEF PurseInv

\* A change of a purse's standing.
LEMMA StandingKeeps ==
  ASSUME PurseAssumption, PurseInv, PurseTypes', UNCHANGED <<spend, sweeper>>, GrantsSound',
         \A p \in Purses : /\ purse'[p].balance = purse[p].balance
                           /\ purse'[p].granted = purse[p].granted /\ purse'[p].spent = purse[p].spent
                           /\ purse'[p].refunded = purse[p].refunded /\ purse'[p].returned = purse[p].returned
                           /\ PostedTo(p)' = PostedTo(p)
  PROVE  PurseInv'
<1>1. SpendsSound' /\ LocksOfPurses' /\ ReturnSound'
  BY PurseTypeFacts DEF PurseInv, SpendsSound, LocksOfPurses, ReturnSound, SpendRows
<1>2. ASSUME NEW p \in Purses PROVE Accounted(purse[p], p)'
  BY SumsStand DEF PurseInv, Accounted
<1> QED BY <1>1, <1>2 DEF PurseInv

LEMMA EnsureKeeps ==
  ASSUME PurseAssumption, PurseInv, NEW g \in Grants, NEW p \in Purses, EnsureProgramPurse(g, p)
  PROVE  PurseInv'
<1>1. PurseTypes /\ GrantsSound
  BY DEF PurseInv
<1>2. PurseTypes'
  <2>1. purse' \in [Purses -> PurseRows]
    <3>1. [purse[p] EXCEPT !.status = "active"] \in PurseRows
      BY <1>1, PurseTypeFacts, PurseRowEdits
    <3>2. purse' = [purse EXCEPT ![p] = [purse[p] EXCEPT !.status = "active"]]
      BY DEF EnsureProgramPurse
    <3> QED BY <1>1, <3>1, <3>2 DEF PurseTypes
  <2>2. grant' \in [Grants -> GrantRows]
    BY <1>1 DEF EnsureProgramPurse, PurseTypes, GrantRows
  <2> QED BY <1>1, <2>1, <2>2 DEF EnsureProgramPurse, PurseTypes
<1>3. GrantsSound'
  BY <1>1 DEF EnsureProgramPurse, GrantsSound, PurseTypes
<1>4. ASSUME NEW q \in Purses PROVE PostedTo(q)' = PostedTo(q)
  <2>1. grant[g].posted > 0 => grant[g].purse = {p}
    BY <1>1 DEF EnsureProgramPurse, GrantsSound
  <2>2. /\ \A h \in Grants : h # g => grant'[h] = grant[h]
        /\ grant'[g].posted = grant[g].posted /\ grant'[g].purse = {p}
    BY <1>1 DEF EnsureProgramPurse, PurseTypes, GrantRows
  <2> QED BY <2>1, <2>2 DEF PostedTo
<1>5. ASSUME NEW q \in Purses
      PROVE  /\ purse'[q].balance = purse[q].balance
             /\ purse'[q].granted = purse[q].granted /\ purse'[q].spent = purse[q].spent
             /\ purse'[q].refunded = purse[q].refunded /\ purse'[q].returned = purse[q].returned
  BY <1>1 DEF EnsureProgramPurse, PurseTypes, PurseRows
<1>6. UNCHANGED <<spend, sweeper>>
  BY DEF EnsureProgramPurse
<1> QED BY <1>2, <1>3, <1>4, <1>5, <1>6, StandingKeeps

LEMMA PurseLapseKeeps ==
  ASSUME PurseAssumption, PurseInv, NEW p \in Purses, PurseLapses(p)
  PROVE  PurseInv'
<1>1. PurseTypes /\ GrantsSound
  BY DEF PurseInv
<1>2. PurseTypes' /\ GrantsSound'
  BY <1>1 DEF PurseLapses, PurseTypes, PurseRows, GrantsSound
<1>5. ASSUME NEW q \in Purses
      PROVE  /\ purse'[q].balance = purse[q].balance
             /\ purse'[q].granted = purse[q].granted /\ purse'[q].spent = purse[q].spent
             /\ purse'[q].refunded = purse[q].refunded /\ purse'[q].returned = purse[q].returned
             /\ PostedTo(q)' = PostedTo(q)
  BY <1>1, SumsStand DEF PurseLapses, PurseTypes, PurseRows
<1>6. UNCHANGED <<spend, sweeper>>
  BY DEF PurseLapses
<1> QED BY <1>2, <1>5, <1>6, StandingKeeps

LEMMA CreditKeeps ==
  ASSUME PurseAssumption, PurseInv, NEW g \in Grants, CreditProgramPurse(g)
  PROVE  PurseInv'
<1>1. PurseTypes /\ GrantsSound
  BY DEF PurseInv
<1>2. PICK p \in Purses : grant[g].purse = {p}
  BY <1>1 DEF CreditProgramPurse, GrantsSound
<1>3. PurseTypes'
  <2>1. \A q \in Purses : [purse[q] EXCEPT !.balance = @ + GrantKobo, !.granted = @ + GrantKobo] \in PurseRows
    BY <1>1, PurseTypeFacts, PurseRowEdits, PurseConstants
  <2>2. purse' \in [Purses -> PurseRows]
    BY <1>1, <2>1 DEF CreditProgramPurse, PurseTypes
  <2>3. grant' \in [Grants -> GrantRows]
    BY <1>1 DEF CreditProgramPurse, PurseTypes, GrantRows
  <2> QED BY <1>1, <2>2, <2>3 DEF CreditProgramPurse, PurseTypes
<1>4. /\ \A h \in Grants : h # g => grant'[h] = grant[h]
      /\ grant'[g].posted = 1 /\ grant'[g].purse = {p}
  BY <1>1, <1>2 DEF CreditProgramPurse, PurseTypes, GrantRows
<1>5. GrantsSound'
  BY <1>1, <1>4 DEF GrantsSound
<1>6. UNCHANGED <<spend, sweeper>>
  BY DEF CreditProgramPurse
<1>7. CASE grant[g].posted > 0
  <2>1. \A q \in Purses : PostedTo(q)' = PostedTo(q)
    BY <1>2, <1>4, <1>7 DEF PostedTo
  <2>2. UNCHANGED purse
    BY <1>7 DEF CreditProgramPurse
  <2> QED BY <1>3, <1>5, <1>6, <2>1, <2>2, StandingKeeps
<1>8. CASE ~(grant[g].posted > 0)
  <2>1. /\ \A q \in Purses : q # p => purse'[q] = purse[q] /\ PostedTo(q)' = PostedTo(q)
        /\ purse'[p] = [purse[p] EXCEPT !.balance = @ + GrantKobo, !.granted = @ + GrantKobo]
    BY <1>1, <1>2, <1>4, <1>8 DEF CreditProgramPurse, PurseTypes, PostedTo
  <2>2. PostedTo(p)' = PostedTo(p) \cup {g} /\ g \notin PostedTo(p) /\ IsFiniteSet(PostedTo(p))
    <3>1. PostedTo(p)' = PostedTo(p) \cup {g} /\ g \notin PostedTo(p) /\ PostedTo(p) \subseteq Grants
      BY <1>2, <1>4, <1>8 DEF PostedTo
    <3> QED BY <3>1, PurseConstants, FS_Subset
  <2>3. Cardinality(PostedTo(p)') = Cardinality(PostedTo(p)) + 1 /\ Cardinality(PostedTo(p)) \in Nat
    BY <2>2, FS_AddElement, FS_CardinalityType
  <2>4. /\ purse[p] \in PurseRows
        /\ purse'[p].balance = purse[p].balance + GrantKobo
        /\ purse'[p].granted = purse[p].granted + GrantKobo
        /\ purse'[p].spent = purse[p].spent /\ purse'[p].refunded = purse[p].refunded
        /\ purse'[p].returned = purse[p].returned
    BY <1>1, <2>1 DEF PurseTypes, PurseRows
  <2>5. SpendsSound' /\ LocksOfPurses' /\ ReturnSound'
    <3>1. \A q \in Purses : purse[q].balance \in Int /\ purse'[q].balance \in Int /\ purse'[q].balance >= purse[q].balance
      <4>1. ASSUME NEW q \in Purses
            PROVE  purse[q].balance \in Int /\ purse'[q].balance \in Int /\ purse'[q].balance >= purse[q].balance
        <5>1. purse[q] \in PurseRows /\ purse[q].balance \in Int
          BY <1>1, PurseTypeFacts DEF PurseRows
        <5>2. purse'[q].balance = purse[q].balance \/ purse'[q].balance = purse[q].balance + GrantKobo
          BY <2>1, <2>4
        <5> QED BY <5>1, <5>2, PurseConstants
      <4> QED BY <4>1
    <3>2. \A s \in Spends : spend[s].draw \in Nat /\ spend[s].purse \in SUBSET Purses
      BY <1>1 DEF PurseTypes, SpendRows
    <3>3. sweeper.kobo \in Nat /\ sweeper.purse \in SUBSET Purses
      BY <1>1 DEF PurseTypes
    <3> QED BY <1>6, <3>1, <3>2, <3>3 DEF PurseInv, SpendsSound, LocksOfPurses, ReturnSound
  <2>6. ASSUME NEW q \in Purses PROVE Accounted(purse[q], q)'
    <3>1. Accounted(purse[q], q) /\ TakenFrom(q)' = TakenFrom(q)
      BY <1>6, SumsStand DEF PurseInv
    <3>2. CASE q # p
      BY <2>1, <3>1, <3>2 DEF Accounted
    <3>3. CASE q = p
      <4> DEFINE n == Cardinality(PostedTo(p))
      <4>1. GrantKobo * (n + 1) = GrantKobo * n + GrantKobo /\ GrantKobo * n \in Nat
        <5> HIDE DEF n
        <5>1. n \in Nat
          BY <2>3 DEF n
        <5> QED BY <5>1, PurseConstants
      <4> QED BY <2>3, <2>4, <3>1, <3>3, <4>1, PurseConstants DEF Accounted, PurseRows
    <3> QED BY <3>2, <3>3
  <2> QED BY <1>3, <1>5, <2>5, <2>6 DEF PurseInv
<1> QED BY <1>7, <1>8

\* A payment that neither paid before nor pays now.
LEMMA PaymentKeeps ==
  ASSUME PurseAssumption, PurseInv, PurseTypes', UNCHANGED <<purse, grant, sweeper>>,
         NEW s \in Spends, \A t \in Spends : t # s => spend'[t] = spend[t],
         spend[s].pc # "paid", spend'[s].pc # "paid",
         \E p \in Purses : spend'[s].purse = {p},
         spend'[s].pc = "locked" =>
           /\ \A t \in Spends : t # s /\ spend[t].pc = "locked" => spend[t].purse # spend'[s].purse
           /\ spend'[s].purse \cap sweeper.purse = {}
           /\ \A p \in spend'[s].purse : purse[p].balance >= spend'[s].draw
  PROVE  PurseInv'
<1>1. PurseTypes /\ SpendsSound /\ LocksOfPurses /\ ReturnSound /\ GrantsSound
  BY DEF PurseInv
<1>2. SpendsSound'
  BY <1>1 DEF SpendsSound
<1>3. LocksOfPurses'
  BY <1>1 DEF LocksOfPurses
<1>4. ReturnSound' /\ GrantsSound'
  BY <1>1 DEF ReturnSound, GrantsSound
<1>5. ASSUME NEW p \in Purses PROVE Accounted(purse[p], p)'
  <2>1. Accounted(purse[p], p) /\ PostedTo(p)' = PostedTo(p)
    BY SumsStand DEF PurseInv
  <2>2. TakenFrom(p)' = TakenFrom(p) + Taken(spend[s], p)' - Taken(spend[s], p)
    BY <1>1, TakenChange
  <2>3. Taken(spend[s], p) = 0 /\ Taken(spend[s], p)' = 0
    BY DEF Taken
  <2>4. TakenFrom(p)' = TakenFrom(p)
    BY <1>1, <2>2, <2>3, TakenSumType
  <2> QED BY <2>1, <2>4 DEF Accounted
<1> QED BY <1>2, <1>3, <1>4, <1>5 DEF PurseInv

LEMMA DraftKeeps ==
  ASSUME PurseAssumption, PurseInv, NEW s \in Spends, NEW p \in Purses, NEW m \in Shops,
         DraftFromPurse(s, p, m)
  PROVE  PurseInv'
<1>1. PurseTypes /\ purse[p] \in PurseRows /\ Price \in Nat
  BY PurseConstants, PurseTypeFacts DEF PurseInv
<1>2. PurseTypes'
  BY <1>1 DEF DraftFromPurse, SplitPurseDraw, PurseTypes, PurseRows, SpendRows
<1>3. /\ \A t \in Spends : t # s => spend'[t] = spend[t]
      /\ spend'[s].pc = "drafted" /\ spend'[s].purse = {p} /\ spend[s].pc = "none"
  BY <1>1 DEF DraftFromPurse, SplitPurseDraw, PurseTypes
<1>4. UNCHANGED <<purse, grant, sweeper>>
  BY DEF DraftFromPurse
<1> QED BY <1>2, <1>3, <1>4, PaymentKeeps

LEMMA BeginKeeps ==
  ASSUME PurseAssumption, PurseInv, NEW s \in Spends, BeginSpend(s)
  PROVE  PurseInv'
<1>1. PurseTypes /\ SpendsSound
  BY DEF PurseInv
<1>2. PurseTypes'
  <2> DEFINE seen == program.active /\ \A m \in spend[s].shop : program.shops[m] = "approved"
  <2>0. seen \in BOOLEAN
    OBVIOUS
  <2>1. spend' = [spend EXCEPT ![s].pc = "waiting", ![s].allowed = seen]
    BY DEF BeginSpend
  <2> HIDE DEF seen
  <2>2. spend' = [spend EXCEPT ![s] = [spend[s] EXCEPT !.pc = "waiting", !.allowed = seen]]
    BY <1>1, <2>1 DEF PurseTypes
  <2>3. [spend[s] EXCEPT !.pc = "waiting", !.allowed = seen] \in SpendRows
    BY <1>1, <2>0, PurseTypeFacts DEF SpendRows
  <2>4. spend' \in [Spends -> SpendRows]
    BY <1>1, <2>2, <2>3 DEF PurseTypes
  <2> QED BY <1>1, <2>4 DEF BeginSpend, PurseTypes
<1>3. /\ \A t \in Spends : t # s => spend'[t] = spend[t]
      /\ spend'[s].pc = "waiting" /\ spend'[s].purse = spend[s].purse /\ spend[s].pc = "drafted"
  BY <1>1 DEF BeginSpend, PurseTypes, SpendRows
<1>4. UNCHANGED <<purse, grant, sweeper>>
  BY DEF BeginSpend
<1>5. \E p \in Purses : spend'[s].purse = {p}
  BY <1>1, <1>3 DEF SpendsSound
<1> QED BY <1>2, <1>3, <1>4, <1>5, PaymentKeeps

LEMMA PurseOfSpend ==
  ASSUME PurseInv, NEW s \in Spends, spend[s].pc # "none"
  PROVE  PurseOf(s) \in Purses /\ spend[s].purse = {PurseOf(s)}
BY DEF PurseInv, SpendsSound, PurseOf

LEMMA AllowedKeeps ==
  ASSUME PurseAssumption, PurseInv, NEW s \in Spends, PurseSpendAllowed(s)
  PROVE  PurseInv'
<1> DEFINE p == PurseOf(s)
<1>1. PurseTypes /\ p \in Purses /\ spend[s].purse = {p}
  BY PurseOfSpend DEF PurseSpendAllowed, PurseInv
<1>2. PurseTypes'
  BY <1>1 DEF PurseSpendAllowed, PurseTypes, SpendRows
<1>3. /\ \A t \in Spends : t # s => spend'[t] = spend[t]
      /\ spend'[s].pc \in {"locked", "drafted"} /\ spend[s].pc = "waiting"
      /\ spend'[s].purse = spend[s].purse /\ spend'[s].draw = spend[s].draw
      /\ spend'[s].pc = "locked" => purse[p].balance >= spend[s].draw
  BY <1>1 DEF PurseSpendAllowed, PurseTypes, SpendRows
<1>4. UNCHANGED <<purse, grant, sweeper>>
  BY DEF PurseSpendAllowed
<1>5. /\ \A t \in Spends : spend[t].pc = "locked" => spend[t].purse # {p}
      /\ {p} \cap sweeper.purse = {}
  BY <1>1 DEF PurseSpendAllowed, PurseFree
<1> HIDE DEF p
<1>6. spend'[s].pc = "locked" =>
           /\ \A t \in Spends : t # s /\ spend[t].pc = "locked" => spend[t].purse # spend'[s].purse
           /\ spend'[s].purse \cap sweeper.purse = {}
           /\ \A q \in spend'[s].purse : purse[q].balance >= spend'[s].draw
  BY <1>1, <1>3, <1>5
<1>7. spend[s].pc # "paid" /\ spend'[s].pc # "paid" /\ \E q \in Purses : spend'[s].purse = {q}
  BY <1>1, <1>3
<1> QED BY <1>2, <1>3, <1>4, <1>6, <1>7, PaymentKeeps

\* A payment takes from its purse, or gives back.
LEMMA MoneyMoves ==
  ASSUME PurseAssumption, PurseInv, PurseTypes', UNCHANGED <<grant, sweeper>>,
         NEW s \in Spends, NEW p \in Purses, spend[s].purse = {p}, spend'[s].purse = {p},
         \A t \in Spends : t # s => spend'[t] = spend[t],
         \A q \in Purses : q # p => purse'[q] = purse[q],
         spend'[s].pc \in {"paid", "refunded"},
         \A t \in Spends : t # s /\ spend[t].pc = "locked" /\ spend[t].purse = {p} =>
           purse'[p].balance >= purse[p].balance,
         p \in sweeper.purse => purse'[p].balance >= purse[p].balance,
         purse'[p].balance >= 0, purse'[p].granted = purse[p].granted,
         purse'[p].returned = purse[p].returned,
         purse'[p].balance - purse[p].balance
           = (purse'[p].refunded - purse[p].refunded) - (purse'[p].spent - purse[p].spent),
         (purse'[p].spent - purse[p].spent) - (purse'[p].refunded - purse[p].refunded)
           = Taken(spend[s], p)' - Taken(spend[s], p)
  PROVE  PurseInv'
<1>1. PurseTypes /\ SpendsSound /\ LocksOfPurses /\ ReturnSound /\ GrantsSound
  BY DEF PurseInv
<1>2. SpendsSound'
  <2> SUFFICES ASSUME NEW t \in Spends
               PROVE  /\ spend'[t].pc # "none" => \E q \in Purses : spend'[t].purse = {q}
                      /\ spend'[t].pc = "locked" => \A q \in spend'[t].purse : purse'[q].balance >= spend'[t].draw
    BY DEF SpendsSound
  <2>1. CASE t = s
    BY <2>1
  <2>2. CASE t # s
    <3>1. spend'[t] = spend[t] /\ spend[t].draw \in Nat
      BY <1>1, <2>2, PurseTypeFacts DEF SpendRows
    <3>2. ASSUME spend[t].pc = "locked", NEW q \in spend[t].purse
          PROVE  purse'[q].balance >= spend[t].draw
      <4>1. q \in Purses /\ spend[t].purse = {q} /\ purse[q].balance >= spend[t].draw
        BY <1>1, <3>2 DEF SpendsSound
      <4>2. purse[q].balance \in Int /\ purse'[q].balance \in Int
        BY <1>1, <4>1 DEF PurseTypes, PurseRows
      <4>3. purse'[q].balance >= purse[q].balance
        BY <2>2, <3>2, <4>1, <4>2
      <4> QED BY <3>1, <4>1, <4>2, <4>3
    <3> QED BY <1>1, <3>1, <3>2 DEF SpendsSound
  <2> QED BY <2>1, <2>2
<1>3. LocksOfPurses'
  BY <1>1 DEF LocksOfPurses
<1>4. ReturnSound' /\ GrantsSound'
  <2>1. GrantsSound'
    BY <1>1 DEF GrantsSound
  <2>2. ASSUME NEW q \in sweeper.purse PROVE sweeper.kobo <= purse'[q].balance
    <3>1. q \in Purses /\ sweeper.kobo <= purse[q].balance /\ sweeper.kobo \in Nat
      BY <1>1, <2>2 DEF ReturnSound, PurseTypes
    <3>2. purse[q].balance \in Int /\ purse'[q].balance \in Int
      BY <1>1, <3>1 DEF PurseTypes, PurseRows
    <3>3. purse'[q].balance >= purse[q].balance
      BY <2>2, <3>1, <3>2
    <3> QED BY <3>1, <3>2, <3>3
  <2> QED BY <1>1, <2>1, <2>2 DEF ReturnSound
<1>5. ASSUME NEW q \in Purses PROVE Accounted(purse[q], q)'
  <2>1. Accounted(purse[q], q) /\ PostedTo(q)' = PostedTo(q)
    BY SumsStand DEF PurseInv
  <2>2. TakenFrom(q)' = TakenFrom(q) + Taken(spend[s], q)' - Taken(spend[s], q)
    BY <1>1, TakenChange
  <2>3. TakenFrom(q) \in Int
    BY <1>1, TakenSumType
  <2>4. CASE q # p
    <3>1. Taken(spend[s], q) = 0 /\ Taken(spend[s], q)' = 0
      BY <2>4 DEF Taken
    <3> QED BY <2>1, <2>2, <2>3, <2>4, <3>1 DEF Accounted
  <2>5. CASE q = p
    <3>1. purse[p] \in PurseRows /\ purse'[p] \in PurseRows
      BY <1>1 DEF PurseTypes
    <3>2. Taken(spend[s], p) \in Int /\ Taken(spend[s], p)' \in Int
      BY <1>1 DEF PurseTypes, SpendRows, Taken
    <3> QED BY <2>1, <2>2, <2>3, <2>5, <3>1, <3>2 DEF Accounted, PurseRows
  <2> QED BY <2>4, <2>5
<1> QED BY <1>2, <1>3, <1>4, <1>5 DEF PurseInv

LEMMA PaysKeeps ==
  ASSUME PurseAssumption, PurseInv, NEW s \in Spends, SpendFromPurse(s)
  PROVE  PurseInv'
<1>1. PICK p \in Purses : p = PurseOf(s) /\ PurseTypes /\ spend[s].purse = {p} /\ spend[s].pc = "locked"
  BY PurseOfSpend DEF SpendFromPurse, PurseInv
<1>2. UNCHANGED <<grant, sweeper>>
  BY DEF SpendFromPurse
<1>3. /\ purse[p] \in PurseRows /\ spend[s] \in SpendRows /\ spend[s].draw \in Nat
      /\ purse[p].balance >= spend[s].draw
      /\ \A t \in Spends : t # s /\ spend[t].pc = "locked" => spend[t].purse # {p}
      /\ p \notin sweeper.purse
  <2>1. purse[p] \in PurseRows /\ spend[s] \in SpendRows /\ spend[s].draw \in Nat
    BY <1>1 DEF PurseTypes, SpendRows
  <2>2. SpendsSound /\ LocksOfPurses
    BY DEF PurseInv
  <2> QED BY <1>1, <2>1, <2>2 DEF SpendsSound, LocksOfPurses
<1>4. CASE /\ spend' = [spend EXCEPT ![s].pc = "paid"]
           /\ purse' = [purse EXCEPT ![p].balance = @ - spend[s].draw, ![p].spent = @ + spend[s].draw]
  <2>1. PurseTypes'
    <3>1. purse' = [purse EXCEPT ![p] = [purse[p] EXCEPT !.balance = @ - spend[s].draw, !.spent = @ + spend[s].draw]]
      BY <1>1, <1>4 DEF PurseTypes
    <3>2. [purse[p] EXCEPT !.balance = @ - spend[s].draw, !.spent = @ + spend[s].draw] \in PurseRows
      BY <1>3, PurseRowEdits
    <3>3. purse' \in [Purses -> PurseRows]
      BY <1>1, <3>1, <3>2 DEF PurseTypes
    <3>4. spend' \in [Spends -> SpendRows]
      BY <1>1, <1>4 DEF PurseTypes, SpendRows
    <3> QED BY <1>1, <1>2, <3>3, <3>4 DEF PurseTypes
  <2>2. /\ \A t \in Spends : t # s => spend'[t] = spend[t]
        /\ spend'[s].pc = "paid" /\ spend'[s].purse = {p} /\ spend'[s].draw = spend[s].draw
    BY <1>1, <1>3, <1>4 DEF PurseTypes, SpendRows
  <2>3. /\ \A q \in Purses : q # p => purse'[q] = purse[q]
        /\ purse'[p].balance = purse[p].balance - spend[s].draw
        /\ purse'[p].spent = purse[p].spent + spend[s].draw
        /\ purse'[p].granted = purse[p].granted /\ purse'[p].returned = purse[p].returned
        /\ purse'[p].refunded = purse[p].refunded
    BY <1>1, <1>3, <1>4 DEF PurseTypes, PurseRows
  <2>4. Taken(spend[s], p) = 0 /\ Taken(spend[s], p)' = spend[s].draw
    <3>1. spend[s].pc = "locked" /\ spend'[s].pc = "paid" /\ p \in spend'[s].purse /\ spend'[s].draw = spend[s].draw
      BY <1>1, <2>2
    <3>2. Taken(spend[s], p) = 0
      BY <3>1 DEF Taken
    <3>3. Taken(spend'[s], p) = spend[s].draw
      BY <3>1 DEF Taken
    <3>4. Taken(spend[s], p)' = Taken(spend'[s], p)
      OBVIOUS
    <3> QED BY <3>2, <3>3, <3>4
  <2>5. /\ purse'[p].balance >= 0
        /\ purse'[p].balance - purse[p].balance
             = (purse'[p].refunded - purse[p].refunded) - (purse'[p].spent - purse[p].spent)
        /\ (purse'[p].spent - purse[p].spent) - (purse'[p].refunded - purse[p].refunded)
             = Taken(spend[s], p)' - Taken(spend[s], p)
    BY <1>3, <2>3, <2>4 DEF PurseRows
  <2>6. /\ \A t \in Spends : t # s /\ spend[t].pc = "locked" /\ spend[t].purse = {p} =>
             purse'[p].balance >= purse[p].balance
        /\ p \in sweeper.purse => purse'[p].balance >= purse[p].balance
        /\ spend'[s].pc \in {"paid", "refunded"}
    <3>1. ASSUME NEW t \in Spends, t # s, spend[t].pc = "locked", spend[t].purse = {p} PROVE FALSE
      <4>1. t # s /\ spend[t].pc = "locked" => spend[t].purse # {p}
        BY <1>3
      <4> QED BY <3>1, <4>1
    <3>2. p \notin sweeper.purse
      BY <1>3
    <3>3. spend'[s].pc = "paid"
      BY <2>2
    <3> QED BY <3>1, <3>2, <3>3
  <2> QED BY <1>1, <1>2, <2>1, <2>2, <2>3, <2>5, <2>6, MoneyMoves
<1>5. CASE spend' = [spend EXCEPT ![s].pc = "drafted"] /\ UNCHANGED purse
  <2>1. PurseTypes'
    BY <1>1, <1>2, <1>5 DEF PurseTypes, SpendRows
  <2>2. /\ \A t \in Spends : t # s => spend'[t] = spend[t]
        /\ spend'[s].pc = "drafted" /\ spend'[s].purse = {p}
    BY <1>1, <1>3, <1>5 DEF PurseTypes, SpendRows
  <2> QED BY <1>1, <1>2, <1>5, <2>1, <2>2, PaymentKeeps
<1> QED BY <1>1, <1>4, <1>5 DEF SpendFromPurse

LEMMA RefundsKeeps ==
  ASSUME PurseAssumption, PurseInv, NEW s \in Spends, RefundToPurse(s)
  PROVE  PurseInv'
<1>1. PICK p \in Purses : p = PurseOf(s) /\ PurseTypes /\ spend[s].purse = {p} /\ spend[s].pc = "paid"
  BY PurseOfSpend DEF RefundToPurse, PurseInv
<1>2. UNCHANGED <<grant, sweeper>>
  BY DEF RefundToPurse
<1>3. purse[p] \in PurseRows /\ spend[s] \in SpendRows /\ spend[s].draw \in Nat /\ purse[p].balance >= 0
  BY <1>1 DEF PurseTypes, SpendRows, PurseInv, Accounted
<1>4. /\ spend' = [spend EXCEPT ![s].pc = "refunded"]
      /\ purse' = [purse EXCEPT ![p].balance = @ + spend[s].draw, ![p].refunded = @ + spend[s].draw]
  BY <1>1 DEF RefundToPurse
<1>5. PurseTypes'
  <2>1. purse' = [purse EXCEPT ![p] = [purse[p] EXCEPT !.balance = @ + spend[s].draw, !.refunded = @ + spend[s].draw]]
    BY <1>1, <1>4 DEF PurseTypes
  <2>2. [purse[p] EXCEPT !.balance = @ + spend[s].draw, !.refunded = @ + spend[s].draw] \in PurseRows
    BY <1>3, PurseRowEdits
  <2>3. purse' \in [Purses -> PurseRows]
    BY <1>1, <2>1, <2>2 DEF PurseTypes
  <2>4. spend' \in [Spends -> SpendRows]
    BY <1>1, <1>4 DEF PurseTypes, SpendRows
  <2> QED BY <1>1, <1>2, <2>3, <2>4 DEF PurseTypes
<1>6. /\ \A t \in Spends : t # s => spend'[t] = spend[t]
      /\ spend'[s].pc = "refunded" /\ spend'[s].purse = {p} /\ spend'[s].draw = spend[s].draw
  BY <1>1, <1>3, <1>4 DEF PurseTypes, SpendRows
<1>7. /\ \A q \in Purses : q # p => purse'[q] = purse[q]
      /\ purse'[p].balance = purse[p].balance + spend[s].draw
      /\ purse'[p].refunded = purse[p].refunded + spend[s].draw
      /\ purse'[p].granted = purse[p].granted /\ purse'[p].returned = purse[p].returned
      /\ purse'[p].spent = purse[p].spent
  BY <1>1, <1>3, <1>4 DEF PurseTypes, PurseRows
<1>8. Taken(spend[s], p) = spend[s].draw /\ Taken(spend[s], p)' = 0
  BY <1>1, <1>6 DEF Taken
<1>9. /\ purse'[p].balance >= 0 /\ purse'[p].balance >= purse[p].balance
      /\ purse'[p].balance - purse[p].balance
           = (purse'[p].refunded - purse[p].refunded) - (purse'[p].spent - purse[p].spent)
      /\ (purse'[p].spent - purse[p].spent) - (purse'[p].refunded - purse[p].refunded)
           = Taken(spend[s], p)' - Taken(spend[s], p)
  BY <1>3, <1>7, <1>8 DEF PurseRows
<1>10. spend'[s].pc \in {"paid", "refunded"}
  BY <1>6
<1> QED BY <1>1, <1>2, <1>5, <1>6, <1>7, <1>9, <1>10, MoneyMoves

LEMMA ReturnBeginsKeeps ==
  ASSUME PurseAssumption, PurseInv, NEW p \in Purses, ReturnBegins(p)
  PROVE  PurseInv'
<1>1. PurseTypes /\ SpendsSound /\ LocksOfPurses /\ ReturnSound /\ GrantsSound
  BY DEF PurseInv
<1>2. /\ purse[p].balance \in Int /\ purse[p].balance > 0
      /\ sweeper' = [pc |-> "returning", purse |-> {p}, kobo |-> purse[p].balance]
      /\ UNCHANGED <<purse, spend, grant>>
      /\ \A s \in Spends : spend[s].pc = "locked" => p \notin spend[s].purse
  BY <1>1 DEF ReturnBegins, PurseFree, PurseTypes, PurseRows
<1>3. PurseTypes'
  BY <1>1, <1>2 DEF PurseTypes
<1>4. SpendsSound' /\ LocksOfPurses' /\ ReturnSound' /\ GrantsSound'
  BY <1>1, <1>2 DEF SpendsSound, LocksOfPurses, ReturnSound, GrantsSound
<1>5. ASSUME NEW q \in Purses PROVE Accounted(purse[q], q)'
  BY <1>2, SumsStand DEF PurseInv, Accounted
<1> QED BY <1>3, <1>4, <1>5 DEF PurseInv

LEMMA ReturnKeeps ==
  ASSUME PurseAssumption, PurseInv, ReturnExpiredPurse
  PROVE  PurseInv'
<1>1. PurseTypes /\ SpendsSound /\ LocksOfPurses /\ ReturnSound /\ GrantsSound
  BY DEF PurseInv
<1>2. /\ UNCHANGED <<spend, grant>> /\ sweeper' = [pc |-> "idle", purse |-> {}, kobo |-> 0]
      /\ sweeper.kobo \in Nat
      /\ \A q \in Purses : purse[q] \in PurseRows
      /\ \A q \in Purses : q \notin sweeper.purse => purse'[q] = purse[q]
      /\ \A q \in Purses : q \in sweeper.purse =>
           purse'[q] = [purse[q] EXCEPT !.status = "closed", !.balance = @ - sweeper.kobo,
                                        !.returned = @ + sweeper.kobo]
  BY <1>1 DEF ReturnExpiredPurse, PurseTypes
<1>3. PurseTypes'
  <2>1. purse' = [q \in Purses |-> purse'[q]]
    BY DEF ReturnExpiredPurse
  <2>2. \A q \in Purses : purse'[q] \in PurseRows
    <3> SUFFICES ASSUME NEW q \in Purses PROVE purse'[q] \in PurseRows
      OBVIOUS
    <3>1. [purse[q] EXCEPT !.status = "closed", !.balance = @ - sweeper.kobo, !.returned = @ + sweeper.kobo] \in PurseRows
      BY <1>2, PurseRowEdits
    <3> QED BY <1>2, <3>1
  <2> QED BY <1>1, <1>2, <2>1, <2>2 DEF PurseTypes
<1>4. SpendsSound' /\ LocksOfPurses' /\ ReturnSound' /\ GrantsSound'
  <2>1. SpendsSound'
    <3> SUFFICES ASSUME NEW s \in Spends
                 PROVE  /\ spend[s].pc # "none" => \E p \in Purses : spend[s].purse = {p}
                        /\ spend[s].pc = "locked" => \A p \in spend[s].purse : purse'[p].balance >= spend[s].draw
      BY <1>2 DEF SpendsSound
    <3>1. ASSUME spend[s].pc = "locked", NEW p \in spend[s].purse PROVE purse'[p].balance >= spend[s].draw
      <4>1. p \in Purses /\ purse[p].balance >= spend[s].draw
        BY <1>1, <3>1 DEF SpendsSound
      <4>2. p \notin sweeper.purse
        BY <1>1, <3>1 DEF LocksOfPurses
      <4>3. purse'[p] = purse[p]
        BY <1>2, <4>1, <4>2
      <4> QED BY <4>1, <4>3
    <3> QED BY <1>1, <3>1 DEF SpendsSound
  <2> QED BY <1>1, <1>2, <2>1 DEF LocksOfPurses, ReturnSound, GrantsSound
<1>5. ASSUME NEW q \in Purses PROVE Accounted(purse[q], q)'
  <2>1. Accounted(purse[q], q) /\ TakenFrom(q)' = TakenFrom(q) /\ PostedTo(q)' = PostedTo(q)
    BY <1>2, SumsStand DEF PurseInv
  <2>2. CASE q \notin sweeper.purse
    BY <1>2, <2>1, <2>2 DEF Accounted
  <2>3. CASE q \in sweeper.purse
    <3>1. sweeper.kobo <= purse[q].balance
      BY <1>1, <2>3 DEF ReturnSound
    <3>2. /\ purse'[q].balance = purse[q].balance - sweeper.kobo
          /\ purse'[q].returned = purse[q].returned + sweeper.kobo
          /\ purse'[q].granted = purse[q].granted /\ purse'[q].spent = purse[q].spent
          /\ purse'[q].refunded = purse[q].refunded
      BY <1>2, <2>3 DEF PurseRows
    <3>3. purse[q] \in PurseRows
      BY <1>2
    <3>4. /\ purse[q].balance \in Int /\ purse[q].granted \in Int /\ purse[q].spent \in Int
          /\ purse[q].refunded \in Int /\ purse[q].returned \in Int
      BY <3>3 DEF PurseRows
    <3>5. /\ purse'[q].balance >= 0
          /\ purse'[q].balance
               = purse'[q].granted + purse'[q].refunded - purse'[q].spent - purse'[q].returned
      <4>1. sweeper.kobo \in Nat
        BY <1>2
      <4>2. purse[q].balance = purse[q].granted + purse[q].refunded - purse[q].spent - purse[q].returned
        BY <2>1 DEF Accounted
      <4> QED BY <4>1, <4>2, <3>1, <3>2, <3>4
    <3> QED BY <2>1, <3>2, <3>5 DEF Accounted
  <2> QED BY <2>2, <2>3
<1> QED BY <1>3, <1>4, <1>5 DEF PurseInv

LEMMA PurseNextInv ==
  ASSUME PurseAssumption, PurseInv, [PurseNext]_purseVars
  PROVE  PurseInv'
<1>1. CASE UNCHANGED purseVars
  BY <1>1, SponsorKeeps DEF purseVars
<1>2. CASE SetProgramStatus \/ \E m \in Shops : AddProgramMerchant(m) \/ BlockProgramMerchant(m)
  BY <1>2, SponsorKeeps DEF SetProgramStatus, AddProgramMerchant, BlockProgramMerchant, Edited
<1>3. CASE ReturnExpiredPurse
  BY <1>3, ReturnKeeps
<1>4. ASSUME NEW p \in Purses, EnrollUser(p) \/ RemoveEnrollment(p) \/ PurseLapses(p) \/ ReturnBegins(p)
      PROVE  PurseInv'
  <2>1. CASE EnrollUser(p) \/ RemoveEnrollment(p)
    BY <2>1, SponsorKeeps DEF EnrollUser, RemoveEnrollment, Edited
  <2> QED BY <1>4, <2>1, PurseLapseKeeps, ReturnBeginsKeeps
<1>5. ASSUME NEW g \in Grants, CreditProgramPurse(g) \/ \E p \in Purses : EnsureProgramPurse(g, p)
      PROVE  PurseInv'
  BY <1>5, CreditKeeps, EnsureKeeps
<1>6. ASSUME NEW s \in Spends,
             \/ BeginSpend(s) \/ PurseSpendAllowed(s) \/ SpendFromPurse(s) \/ RefundToPurse(s)
             \/ \E p \in Purses, m \in Shops : DraftFromPurse(s, p, m)
      PROVE  PurseInv'
  BY <1>6, BeginKeeps, AllowedKeeps, PaysKeeps, RefundsKeeps, DraftKeeps
<1> QED BY <1>1, <1>2, <1>3, <1>4, <1>5, <1>6 DEF PurseNext, PostBulkProgramPaymentItem

LEMMA PurseInvIsSafe ==
  ASSUME PurseAssumption, PurseInv
  PROVE  PurseSafe
<1> SUFFICES ASSUME NEW p \in Purses
             PROVE  /\ purse[p].balance >= 0
                    /\ purse[p].balance = purse[p].granted + purse[p].refunded - purse[p].spent - purse[p].returned
                    /\ purse[p].granted = GrantKobo * Cardinality({g \in Grants : grant[g].posted > 0 /\ p \in grant[g].purse})
                    /\ purse[p].returned <= purse[p].granted
  BY DEF PurseSafe
<1>1. Accounted(purse[p], p) /\ PurseTypes /\ purse[p] \in PurseRows
  BY DEF PurseInv, PurseTypes
<1>2. TakenFrom(p) \in Nat
  BY <1>1, TakenSumType
<1>3. purse[p].returned <= purse[p].granted
  BY <1>1, <1>2 DEF Accounted, PurseRows
<1> QED BY <1>1, <1>3 DEF Accounted, PostedTo

\* A purse is never overdrawn, what was granted to it is held, spent or returned,
\* and a grant counts once, whatever grants, payments, refunds and returns meet
\* (PurseSpendAllowedTx, CreditProgramPurseTx, ReturnExpiredPurse).
THEOREM PursesAreSafe == PurseSpec => []PurseSafe
<1>1. PurseInit => PurseInv
  BY PurseAssumption, PurseInitInv
<1>2. PurseInv /\ [PurseNext]_purseVars => PurseInv'
  BY PurseAssumption, PurseNextInv
<1>3. PurseInv => PurseSafe
  BY PurseAssumption, PurseInvIsSafe
<1> QED BY <1>1, <1>2, <1>3, PTL DEF PurseSpec

-----------------------------------------------------------------------------
(* Data orders.  A worker that claimed an order holds it alone, and        *)
(* nothing brings it back to where another could claim it (HandsSound);    *)
(* its revenue and its payment follow its status (OrderSound).             *)

OrderStates == {"none", "draft", "awaiting_payment", "paid", "fulfilling", "fulfilled", "failed"}
OrderRows  == [status : OrderStates, ref : Refs \cup {"none"}, revenue : Nat]
WorkerRows == [todo : SUBSET Orders, at : SUBSET Orders,
               answer : {"none", "fulfilled", "failed", "pending"}, ref : Refs \cup {"none"}]
TextRows   == [status : {"none", "processing", "processed", "failed", "abandoned"},
               order : SUBSET Orders, made : Nat]

DataTypes ==
  /\ order \in [Orders -> OrderRows]
  /\ funds \in [Orders -> {"none", "draft", "succeeded", "failed", "refunded"}]
  /\ worker \in [Fulfillers -> WorkerRows]
  /\ shop.bought \in [Orders -> SUBSET Refs]
  /\ shop \in [bought : [Orders -> SUBSET Refs], asks : [Orders -> Int], calls : SUBSET (Orders \X Refs)]
  /\ text \in [Commands -> TextRows]

\* The orders in a worker's hands.
InHand(w) == worker[w].todo \cup worker[w].at

\* What an order's row says of its payment and of the provider.
OrderSound(o) ==
  /\ order[o].revenue = (IF order[o].status = "fulfilled" THEN 1 ELSE 0)
  /\ order[o].status = "fulfilled" => shop.bought[o] # {}
  /\ order[o].status \in {"paid", "fulfilling", "fulfilled", "failed"} => funds[o] \in {"succeeded", "refunded"}

\* Who holds an order holds it alone, and nobody can claim it meanwhile.
HandsSound ==
  /\ \A w \in Fulfillers : \A o \in InHand(w) : order[o].status \in {"fulfilling", "fulfilled", "failed"}
  /\ \A v, w \in Fulfillers : v # w => InHand(v) \cap InHand(w) = {}
  /\ \A w \in Fulfillers : worker[w].at # {} => \E o \in Orders : worker[w].at = {o}
  /\ \A w \in Fulfillers : worker[w].at # {} => worker[w].answer # "none" /\ worker[w].at \cap worker[w].todo = {}
  /\ \A w \in Fulfillers : worker[w].answer = "fulfilled" => \A o \in worker[w].at : shop.bought[o] # {}

TextSound(x) ==
  /\ text[x].status = "none" => text[x].made = 0
  /\ text[x].made = (IF text[x].order = {} THEN 0 ELSE 1)

DataInv ==
  /\ DataTypes /\ HandsSound
  /\ \A o \in Orders : OrderSound(o)
  /\ \A x \in Commands : TextSound(x)

LEMMA DataTypeFacts ==
  ASSUME DataTypes
  PROVE  /\ \A o \in Orders : order[o] \in OrderRows
         /\ \A w \in Fulfillers : worker[w] \in WorkerRows /\ InHand(w) \in SUBSET Orders
         /\ \A x \in Commands : text[x] \in TextRows
BY DEF DataTypes, InHand, WorkerRows

LEMMA DataInitInv ==
  ASSUME DataInit
  PROVE  DataInv
<1>1. DataTypes
  BY DEF DataInit, DataTypes, OrderRows, OrderStates, WorkerRows, TextRows, NoBatch
<1>2. HandsSound
  BY DEF DataInit, HandsSound, InHand, NoBatch
<1> QED BY <1>1, <1>2 DEF DataInit, DataInv, OrderSound, TextSound

\* A step on one order that no worker holds, or whose state it does not change to
\* one that can be claimed.
LEMMA OrderMoves ==
  ASSUME DataInv, NEW o \in Orders, DataTypes', UNCHANGED <<worker, shop>>,
         \A q \in Orders : q # o => order'[q] = order[q] /\ funds'[q] = funds[q],
         OrderSound(o)',
         order[o].status \in {"fulfilling", "fulfilled", "failed"}
           => order'[o].status \in {"fulfilling", "fulfilled", "failed"},
         \A x \in Commands : TextSound(x)'
  PROVE  DataInv'
<1>1. DataTypes /\ HandsSound
  BY DEF DataInv
<1>2. HandsSound'
  BY <1>1, DataTypeFacts DEF HandsSound, InHand
<1>3. ASSUME NEW q \in Orders PROVE OrderSound(q)'
  BY <1>3 DEF DataInv, OrderSound
<1> QED BY <1>2, <1>3 DEF DataInv

LEMMA TextStands == ASSUME DataInv, UNCHANGED text PROVE \A x \in Commands : TextSound(x)'
BY DEF DataInv, TextSound

\* The state machine lets nothing out of an end state, into one only from paid or
\* fulfilling, and back to paid only from fulfilling.
LEMMA TransitionFacts ==
  ASSUME NEW from, NEW to, CanTransition(from, to), from # to
  PROVE  /\ to \in {"fulfilled", "failed"} => from \in {"paid", "fulfilling"}
         /\ to = "paid" => from \in {"awaiting_payment", "fulfilling"}
         /\ from \notin {"fulfilled", "failed"}
BY DEF CanTransition, Transitions

\* What transitionDataOrderTx makes of a row.
LEMMA TransitionedRow ==
  ASSUME NEW r \in OrderRows, NEW to \in OrderStates, NEW ref \in Refs \cup {"none"}
  PROVE  /\ Transitioned(r, to, ref) \in OrderRows
         /\ Transitioned(r, to, ref).status = to
         /\ r.status = to => Transitioned(r, to, ref) = r
         /\ r.status # to /\ to = "fulfilled" => Transitioned(r, to, ref).revenue = r.revenue + 1
         /\ to # "fulfilled" => Transitioned(r, to, ref).revenue = r.revenue
<1>1. CASE r.status = to
  BY <1>1 DEF Transitioned
<1>2. CASE r.status # to
  <2> DEFINE a == [r EXCEPT !.status = to]
             b == [a EXCEPT !.ref = ref]
             m == r.revenue + (IF to = "fulfilled" THEN 1 ELSE 0)
  <2>1. Transitioned(r, to, ref) = [b EXCEPT !.revenue = m]
    BY <1>2 DEF Transitioned, OrderRows
  <2>2. m \in Nat /\ (to = "fulfilled" => m = r.revenue + 1) /\ (to # "fulfilled" => m = r.revenue)
    BY DEF OrderRows
  <2> HIDE DEF m
  <2>3. a \in OrderRows /\ a.status = to
    BY DEF OrderRows
  <2> HIDE DEF a
  <2>4. b \in OrderRows /\ b.status = to
    BY <2>3 DEF OrderRows
  <2> HIDE DEF b
  <2>5. [b EXCEPT !.revenue = m] \in OrderRows /\ [b EXCEPT !.revenue = m].status = to
        /\ [b EXCEPT !.revenue = m].revenue = m
    BY <2>2, <2>4 DEF OrderRows
  <2> QED BY <1>2, <2>1, <2>2, <2>5
<1> QED BY <1>1, <1>2

LEMMA DraftingKeeps ==
  ASSUME DataInv, NEW o \in Orders,
         \/ CreateDataOrder(o) \/ DraftDataPayment(o) \/ AttachDataOrderPayment(o)
         \/ PayDataOrder(o) \/ RefundDataOrder(o)
  PROVE  DataInv'
<1>1. DataTypes /\ OrderSound(o) /\ order[o] \in OrderRows
  BY DEF DataInv, DataTypes
<1>2. UNCHANGED <<worker, shop, text>>
  BY DEF CreateDataOrder, DraftDataPayment, AttachDataOrderPayment, PayDataOrder, RefundDataOrder
<1>3. /\ DataTypes'
      /\ \A q \in Orders : q # o => order'[q] = order[q] /\ funds'[q] = funds[q]
      /\ OrderSound(o)'
      /\ order[o].status \in {"fulfilling", "fulfilled", "failed"} => order'[o].status = order[o].status
  <2>1. CASE CreateDataOrder(o)
    BY <1>1, <1>2, <2>1 DEF CreateDataOrder, DataTypes, OrderRows, OrderStates, OrderSound
  <2>2. CASE DraftDataPayment(o)
    BY <1>1, <1>2, <2>2 DEF DraftDataPayment, DataTypes, OrderRows, OrderStates, OrderSound
  <2>3. CASE AttachDataOrderPayment(o)
    <3> DEFINE new == Transitioned(order[o], "awaiting_payment", "none")
    <3>1. new \in OrderRows /\ new.status = "awaiting_payment" /\ new.revenue = order[o].revenue
      BY <1>1, TransitionedRow DEF OrderStates
    <3>2. order' = [order EXCEPT ![o] = new] /\ order[o].status = "draft" /\ UNCHANGED funds
      BY <2>3 DEF AttachDataOrderPayment
    <3> HIDE DEF new
    <3>3. order' \in [Orders -> OrderRows] /\ order'[o] = new /\ \A q \in Orders : q # o => order'[q] = order[q]
      BY <1>1, <3>1, <3>2 DEF DataTypes
    <3>4. DataTypes'
      BY <1>1, <1>2, <3>2, <3>3 DEF DataTypes
    <3> QED BY <1>1, <1>2, <3>1, <3>2, <3>3, <3>4 DEF OrderSound
  <2>4. CASE PayDataOrder(o)
    BY <1>1, <1>2, <2>4 DEF PayDataOrder, DataTypes, OrderRows, OrderStates, OrderSound
  <2>5. CASE RefundDataOrder(o)
    BY <1>1, <1>2, <2>5 DEF RefundDataOrder, DataTypes, OrderRows, OrderStates, OrderSound
  <2> QED BY <2>1, <2>2, <2>3, <2>4, <2>5
<1>4. order[o].status \in {"fulfilling", "fulfilled", "failed"}
        => order'[o].status \in {"fulfilling", "fulfilled", "failed"}
  BY <1>3
<1> QED BY <1>2, <1>3, <1>4, OrderMoves, TextStands

LEMMA CallbackKeeps ==
  ASSUME DataInv, NEW o \in Orders, NEW ref \in Refs, ApplyProviderResult(o, ref)
  PROVE  DataInv'
<1>1. DataTypes /\ OrderSound(o) /\ order[o] \in OrderRows
  BY DEF DataInv, DataTypes
<1>2. UNCHANGED <<funds, worker, shop, text>>
  BY DEF ApplyProviderResult
<1>3. PICK to \in {"fulfilled", "failed"} :
        /\ to = "fulfilled" => shop.bought[o] # {}
        /\ CanTransition(order[o].status, to)
        /\ order' = [order EXCEPT ![o] = Transitioned(@, to, ref)]
  BY DEF ApplyProviderResult
<1>4. order[o].status # to => order[o].status \in {"paid", "fulfilling"}
  BY <1>3, TransitionFacts
<1>5. Transitioned(order[o], to, ref) \in OrderRows /\ Transitioned(order[o], to, ref).status = to
  <2>1. to \in OrderStates /\ ref \in Refs \cup {"none"}
    BY <1>3 DEF OrderStates
  <2> QED BY <1>1, <2>1, TransitionedRow
<1>6. DataTypes' /\ order'[o] = Transitioned(order[o], to, ref)
      /\ \A q \in Orders : q # o => order'[q] = order[q] /\ funds'[q] = funds[q]
  BY <1>1, <1>2, <1>3, <1>5 DEF DataTypes
<1>7. OrderSound(o)'
  <2>0. to \in OrderStates /\ ref \in Refs \cup {"none"}
    BY <1>3 DEF OrderStates
  <2>1. /\ order[o].status = to => order'[o] = order[o]
        /\ order[o].status # to /\ to = "fulfilled" => order'[o].revenue = order[o].revenue + 1
        /\ to # "fulfilled" => order'[o].revenue = order[o].revenue
        /\ order'[o].status = to
    BY <1>1, <1>5, <1>6, <2>0, TransitionedRow
  <2> QED BY <1>1, <1>2, <1>3, <1>4, <2>1 DEF OrderSound
<1> QED BY <1>2, <1>3, <1>5, <1>6, <1>7, OrderMoves, TextStands

LEMMA ClaimOrdersKeeps ==
  ASSUME DataInv, NEW w \in Fulfillers, ClaimDataOrders(w)
  PROVE  DataInv'
<1>1. DataTypes /\ HandsSound /\ \A o \in Orders : OrderSound(o) /\ order[o] \in OrderRows
  BY DEF DataInv, DataTypes
<1> DEFINE Claimed(r) == Transitioned(Transitioned(r, "paid", r.ref), "fulfilling", r.ref)
<1>2. PICK claimed \in SUBSET Fulfillable \ {{}} :
        /\ order' = [o \in Orders |-> IF o \in claimed THEN Claimed(order[o]) ELSE order[o]]
        /\ worker' = [worker EXCEPT ![w].todo = claimed]
  BY DEF ClaimDataOrders
<1>3. worker[w] = NoBatch /\ UNCHANGED <<funds, shop, text>>
  BY DEF ClaimDataOrders
<1>4. \A o \in claimed : /\ o \in Orders /\ order[o].status \in {"awaiting_payment", "paid"}
                       /\ funds[o] = "succeeded"
  BY <1>2 DEF Fulfillable
<1>5. \A o \in claimed : /\ Claimed(order[o]) \in OrderRows /\ Claimed(order[o]).status = "fulfilling"
                       /\ Claimed(order[o]).revenue = order[o].revenue
  <2> SUFFICES ASSUME NEW o \in claimed
               PROVE  /\ Claimed(order[o]) \in OrderRows /\ Claimed(order[o]).status = "fulfilling"
                      /\ Claimed(order[o]).revenue = order[o].revenue
    OBVIOUS
  <2> DEFINE r == order[o]
             a == Transitioned(r, "paid", r.ref)
  <2>1. r \in OrderRows /\ r.ref \in Refs \cup {"none"}
    BY <1>1, <1>4 DEF OrderRows
  <2> HIDE DEF r
  <2>0. "paid" \in OrderStates /\ "fulfilling" \in OrderStates
    BY DEF OrderStates
  <2>2. a \in OrderRows /\ a.revenue = r.revenue
    BY <2>0, <2>1, TransitionedRow
  <2>3. Claimed(r) = Transitioned(a, "fulfilling", r.ref)
    OBVIOUS
  <2> HIDE DEF a
  <2>4. /\ Transitioned(a, "fulfilling", r.ref) \in OrderRows
        /\ Transitioned(a, "fulfilling", r.ref).status = "fulfilling"
        /\ Transitioned(a, "fulfilling", r.ref).revenue = a.revenue
    BY <2>0, <2>1, <2>2, TransitionedRow
  <2>5. Claimed(r) \in OrderRows /\ Claimed(r).status = "fulfilling" /\ Claimed(r).revenue = r.revenue
    BY <2>2, <2>3, <2>4
  <2> QED BY <2>5 DEF r
<1> HIDE DEF Claimed
<1>6. /\ worker'[w] = [worker[w] EXCEPT !.todo = claimed]
      /\ \A v \in Fulfillers : v # w => worker'[v] = worker[v]
  BY <1>1, <1>2 DEF DataTypes
<1>7. DataTypes'
  <2>1. order' \in [Orders -> OrderRows]
    BY <1>1, <1>2, <1>5
  <2>2. worker' \in [Fulfillers -> WorkerRows]
    BY <1>1, <1>2, <1>4 DEF DataTypes, WorkerRows
  <2> QED BY <1>1, <1>3, <2>1, <2>2 DEF DataTypes
<1>8. InHand(w)' = claimed /\ (\A v \in Fulfillers : v # w => InHand(v)' = InHand(v))
  <2>1. worker'[w].todo = claimed /\ worker'[w].at = {}
    BY <1>3, <1>6 DEF NoBatch
  <2> QED BY <1>6, <2>1 DEF InHand
<1>9. \A v \in Fulfillers : InHand(v) \cap claimed = {}
  BY <1>1, <1>4 DEF HandsSound
<1>10. HandsSound'
  <2>1. \A v \in Fulfillers : \A o \in InHand(v)' : order'[o].status \in {"fulfilling", "fulfilled", "failed"}
    <3>1. \A o \in claimed : order'[o].status = "fulfilling"
      BY <1>2, <1>4, <1>5
    <3>2. \A v \in Fulfillers : InHand(v) \in SUBSET Orders
      BY <1>1, DataTypeFacts
    <3>3. ASSUME NEW v \in Fulfillers, v # w, NEW o \in InHand(v) PROVE order'[o] = order[o]
      BY <1>2, <1>9, <3>2, <3>3
    <3> QED BY <1>1, <1>8, <3>1, <3>3 DEF HandsSound
  <2>2. \A u, v \in Fulfillers : u # v => InHand(u)' \cap InHand(v)' = {}
    BY <1>1, <1>8, <1>9 DEF HandsSound
  <2>3. worker'[w].at = {} /\ worker'[w].answer = "none"
    BY <1>3, <1>6 DEF NoBatch
  <2>4. \A v \in Fulfillers : v # w => worker'[v] = worker[v]
    BY <1>6
  <2>5. /\ \A v \in Fulfillers : worker'[v].at # {} => \E o \in Orders : worker'[v].at = {o}
        /\ \A v \in Fulfillers : worker'[v].at # {} => worker'[v].answer # "none" /\ worker'[v].at \cap worker'[v].todo = {}
    BY <1>1, <2>3, <2>4 DEF HandsSound
  <2>6. \A v \in Fulfillers : worker'[v].answer = "fulfilled" => \A o \in worker'[v].at : shop'.bought[o] # {}
    BY <1>1, <1>3, <2>3, <2>4 DEF HandsSound
  <2> QED BY <2>1, <2>2, <2>5, <2>6 DEF HandsSound
<1>11. ASSUME NEW o \in Orders PROVE OrderSound(o)'
  <2>1. CASE o \in claimed
    <3>1. order'[o] = Claimed(order[o])
      BY <1>2, <2>1
    <3>2. order[o].revenue = 0
      BY <1>1, <1>4, <2>1 DEF OrderSound
    <3> QED BY <1>3, <1>4, <1>5, <2>1, <3>1, <3>2 DEF OrderSound
  <2>2. CASE o \notin claimed
    BY <1>1, <1>2, <1>3, <2>2 DEF OrderSound
  <2> QED BY <2>1, <2>2
<1> QED BY <1>3, <1>7, <1>10, <1>11, TextStands DEF DataInv

LEMMA AskKeeps ==
  ASSUME DataAssumption, DataInv, NEW w \in Fulfillers, NEW o \in Orders, FulfilData(w, o)
  PROVE  DataInv'
<1>1. DataTypes /\ HandsSound /\ \A q \in Orders : OrderSound(q) /\ order[q] \in OrderRows
  BY DEF DataInv, DataTypes
<1>2. PICK answer \in {"fulfilled", "failed", "pending"}, buys \in BOOLEAN, ref \in {Ref(o), "theirs"} :
       /\ answer = "fulfilled" => buys
       /\ shop' = [shop EXCEPT !.asks[o] = @ + 1,
                     !.bought[o] = IF buys THEN @ \union {Ref(o)} ELSE @,
                     !.calls = IF answer = "pending" THEN @ \union {<<o, ref>>} ELSE @]
       /\ worker' = [worker EXCEPT ![w] = [todo |-> @.todo \ {o}, at |-> {o}, answer |-> answer, ref |-> ref]]
  BY DEF FulfilData
<1>3. worker[w].at = {} /\ o \in worker[w].todo /\ UNCHANGED <<order, funds, text>>
  BY DEF FulfilData
<1>4. Ref(o) \in Refs /\ ref \in Refs
  BY <1>1 DEF Ref, Refs, OrderRows
<1>5. /\ worker'[w] = [todo |-> worker[w].todo \ {o}, at |-> {o}, answer |-> answer, ref |-> ref]
      /\ \A v \in Fulfillers : v # w => worker'[v] = worker[v]
  BY <1>1, <1>2 DEF DataTypes
<1>6. /\ \A q \in Orders : shop.bought[q] # {} => shop'.bought[q] # {}
      /\ buys => shop'.bought[o] # {}
  BY <1>1, <1>2 DEF DataTypes
<1>7. DataTypes'
  <2>1. worker' \in [Fulfillers -> WorkerRows]
    BY <1>1, <1>2, <1>4 DEF DataTypes, WorkerRows
  <2>2. shop' \in [bought : [Orders -> SUBSET Refs], asks : [Orders -> Int], calls : SUBSET (Orders \X Refs)]
    <3>1. /\ shop.bought \in [Orders -> SUBSET Refs] /\ shop.asks \in [Orders -> Int]
          /\ shop.calls \in SUBSET (Orders \X Refs)
      BY <1>1 DEF DataTypes
    <3> DEFINE B == [shop.bought EXCEPT ![o] = IF buys THEN @ \union {Ref(o)} ELSE @]
               A == [shop.asks EXCEPT ![o] = @ + 1]
               C == IF answer = "pending" THEN shop.calls \union {<<o, ref>>} ELSE shop.calls
    <3>2. B \in [Orders -> SUBSET Refs]
      BY <1>4, <3>1
    <3>3. A \in [Orders -> Int]
      BY <3>1
    <3>4. C \in SUBSET (Orders \X Refs)
      BY <1>4, <3>1
    <3>5. shop' = [bought |-> B, asks |-> A, calls |-> C]
      BY <1>1, <1>2 DEF DataTypes
    <3> HIDE DEF A, B, C
    <3> QED BY <3>2, <3>3, <3>4, <3>5
  <2> QED BY <1>1, <1>3, <2>1, <2>2 DEF DataTypes
<1>8. \A v \in Fulfillers : InHand(v)' = InHand(v)
  BY <1>3, <1>5 DEF InHand
<1>9. HandsSound'
  <2>1. /\ \A v \in Fulfillers : \A q \in InHand(v)' : order'[q].status \in {"fulfilling", "fulfilled", "failed"}
        /\ \A u, v \in Fulfillers : u # v => InHand(u)' \cap InHand(v)' = {}
    BY <1>1, <1>3, <1>8 DEF HandsSound
  <2>2. /\ worker'[w].at = {o} /\ worker'[w].answer = answer /\ o \notin worker'[w].todo
        /\ worker'[w].answer = "fulfilled" => shop'.bought[o] # {}
    BY <1>2, <1>5, <1>6
  <2>3. \A v \in Fulfillers : v # w => \A q \in worker[v].at : q \in Orders
    BY <1>1, DataTypeFacts DEF WorkerRows
  <2>4. \A v \in Fulfillers : worker'[v].at # {} => \E q \in Orders : worker'[v].at = {q}
    BY <1>1, <1>5, <2>2 DEF HandsSound
  <2>5. \A v \in Fulfillers : worker'[v].at # {} => worker'[v].answer # "none" /\ worker'[v].at \cap worker'[v].todo = {}
    BY <1>1, <1>5, <2>2 DEF HandsSound
  <2>6. \A v \in Fulfillers : worker'[v].answer = "fulfilled" => \A q \in worker'[v].at : shop'.bought[q] # {}
    BY <1>1, <1>5, <1>6, <2>2, <2>3 DEF HandsSound
  <2> QED BY <2>1, <2>4, <2>5, <2>6 DEF HandsSound
<1>10. ASSUME NEW q \in Orders PROVE OrderSound(q)'
  BY <1>1, <1>3, <1>6 DEF OrderSound
<1> QED BY <1>3, <1>7, <1>9, <1>10, TextStands DEF DataInv

\* A worker lets go of orders; what it keeps it had before.
LEMMA LetsGoOf ==
  ASSUME DataInv, NEW w \in Fulfillers, worker'[w] \in WorkerRows, UNCHANGED <<order, funds, shop, text>>,
         worker' = [worker EXCEPT ![w] = worker'[w]],
         worker'[w].todo \subseteq worker[w].todo, worker'[w].at = {}, worker'[w].answer = "none"
  PROVE  DataInv'
<1>1. DataTypes /\ HandsSound
  BY DEF DataInv
<1>2. DataTypes' /\ \A v \in Fulfillers : v # w => worker'[v] = worker[v]
  BY <1>1 DEF DataTypes
<1>3. \A v \in Fulfillers : InHand(v)' \subseteq InHand(v)
  BY <1>2 DEF InHand
<1>4. HandsSound'
  BY <1>1, <1>2, <1>3 DEF HandsSound
<1>5. ASSUME NEW q \in Orders PROVE OrderSound(q)'
  BY DEF DataInv, OrderSound
<1> QED BY <1>2, <1>4, <1>5, TextStands DEF DataInv

LEMMA DataRecordKeeps ==
  ASSUME DataInv, NEW w \in Fulfillers, RecordFulfilment(w)
  PROVE  DataInv'
<1> DEFINE o == Asked(w)
           to == IF worker[w].answer = "pending" THEN "paid" ELSE worker[w].answer
<1>1. DataTypes /\ HandsSound /\ worker[w] \in WorkerRows
  BY DEF DataInv, DataTypes
<1>2. /\ worker[w].at # {} /\ UNCHANGED <<funds, shop, text>>
      /\ IF CanTransition(order[o].status, to)
         THEN /\ order' = [order EXCEPT ![o] = Transitioned(@, to, worker[w].ref)]
              /\ worker' = [worker EXCEPT ![w] = Next1(w)]
         ELSE worker' = [worker EXCEPT ![w] = NoBatch] /\ UNCHANGED order
  BY DEF RecordFulfilment
<1>3. o \in Orders /\ worker[w].at = {o} /\ o \in InHand(w) /\ o \notin worker[w].todo
      /\ worker[w].answer # "none"
  BY <1>1, <1>2 DEF HandsSound, Asked, InHand
<1>4. to \in {"paid", "fulfilled", "failed"} /\ (to = "fulfilled" => shop.bought[o] # {})
  BY <1>1, <1>3 DEF HandsSound, WorkerRows
<1> HIDE DEF o, to
<1>5. CASE ~CanTransition(order[o].status, to)
  <2>1. worker'[w] = NoBatch /\ NoBatch \in WorkerRows /\ UNCHANGED order
    BY <1>1, <1>2, <1>5 DEF DataTypes, NoBatch, WorkerRows
  <2>2. worker' = [worker EXCEPT ![w] = worker'[w]]
    BY <1>1, <1>2, <1>5, <2>1 DEF DataTypes
  <2> QED BY <1>2, <2>1, <2>2, LetsGoOf DEF NoBatch
<1>6. CASE CanTransition(order[o].status, to)
  <2>1. /\ order' = [order EXCEPT ![o] = Transitioned(@, to, worker[w].ref)]
        /\ worker' = [worker EXCEPT ![w] = Next1(w)]
    BY <1>2, <1>6
  <2>2. /\ worker'[w].todo = worker[w].todo /\ worker'[w].at = {} /\ worker'[w].answer = "none"
        /\ worker'[w] \in WorkerRows
        /\ \A v \in Fulfillers : v # w => worker'[v] = worker[v]
    BY <1>1, <2>1 DEF DataTypes, Next1, WorkerRows
  <2>3. order[o] \in OrderRows /\ OrderSound(o) /\ order[o].status \in {"fulfilling", "fulfilled", "failed"}
    BY <1>1, <1>3 DEF DataInv, DataTypes, HandsSound
  <2>4. order[o].status # to => order[o].status = "fulfilling"
    BY <1>4, <1>6, <2>3, TransitionFacts
  <2>5. /\ Transitioned(order[o], to, worker[w].ref) \in OrderRows
        /\ order'[o] = Transitioned(order[o], to, worker[w].ref)
        /\ \A q \in Orders : q # o => order'[q] = order[q]
    <3>1. worker[w].ref \in Refs \cup {"none"} /\ to \in OrderStates
      BY <1>1, <1>4 DEF WorkerRows, OrderStates
    <3>2. Transitioned(order[o], to, worker[w].ref) \in OrderRows
      BY <2>3, <3>1, TransitionedRow
    <3> QED BY <1>1, <1>3, <2>1, <3>2 DEF DataTypes
  <2>6. DataTypes'
    BY <1>1, <1>2, <1>3, <2>1, <2>2, <2>5 DEF DataTypes
  <2>7. /\ InHand(w)' = InHand(w) \ {o}
        /\ \A v \in Fulfillers : v # w => InHand(v)' = InHand(v) /\ o \notin InHand(v)
    <3>1. InHand(w)' = worker[w].todo /\ InHand(w) = worker[w].todo \cup {o}
      BY <1>3, <2>2 DEF InHand
    <3>2. \A v \in Fulfillers : v # w => InHand(v)' = InHand(v) /\ o \notin InHand(v)
      BY <1>1, <1>3, <2>2 DEF InHand, HandsSound
    <3> QED BY <1>3, <3>1, <3>2
  <2>8. HandsSound'
    <3>1. /\ \A v \in Fulfillers : \A q \in InHand(v)' : order'[q].status \in {"fulfilling", "fulfilled", "failed"}
      <4>1. \A v \in Fulfillers : \A q \in InHand(v)' : q \in InHand(v) /\ q # o /\ q \in Orders
        BY <1>1, <2>7, DataTypeFacts
      <4> QED BY <1>1, <2>5, <4>1 DEF HandsSound
    <3>2. \A u, v \in Fulfillers : u # v => InHand(u)' \cap InHand(v)' = {}
      BY <1>1, <2>7 DEF HandsSound
    <3>3. UNCHANGED shop
      BY <1>2
    <3> QED BY <1>1, <2>2, <3>1, <3>2, <3>3 DEF HandsSound
  <2>9. ASSUME NEW q \in Orders PROVE OrderSound(q)'
    <3>1. CASE q # o
      BY <1>2, <2>5, <3>1 DEF DataInv, OrderSound
    <3>2. CASE q = o
      <4>1. worker[w].ref \in Refs \cup {"none"} /\ to \in OrderStates
        BY <1>1, <1>4 DEF WorkerRows, OrderStates
      <4>2. /\ order[o].status = to => order'[o] = order[o]
            /\ order[o].status # to /\ to = "fulfilled" => order'[o].revenue = order[o].revenue + 1
            /\ to # "fulfilled" => order'[o].revenue = order[o].revenue
            /\ order'[o].status = to
        BY <2>3, <2>5, <4>1, TransitionedRow
      <4>3. UNCHANGED <<funds, shop>>
        BY <1>2
      <4> QED BY <1>4, <2>3, <2>4, <3>2, <4>2, <4>3 DEF OrderSound
    <3> QED BY <3>1, <3>2
  <2> QED BY <1>2, <2>6, <2>8, <2>9, TextStands DEF DataInv
<1> QED BY <1>5, <1>6

LEMMA FulfillerDiesKeeps ==
  ASSUME DataInv, NEW w \in Fulfillers, FulfillerDies(w)
  PROVE  DataInv'
<1>1. worker'[w] = NoBatch /\ worker' = [worker EXCEPT ![w] = worker'[w]]
  BY DEF FulfillerDies, DataInv, DataTypes
<1>2. NoBatch \in WorkerRows
  BY DEF NoBatch, WorkerRows
<1>3. UNCHANGED <<order, funds, shop, text>>
  BY DEF FulfillerDies
<1>4. NoBatch.todo = {} /\ NoBatch.at = {} /\ NoBatch.answer = "none"
  BY DEF NoBatch
<1> QED BY <1>1, <1>2, <1>3, <1>4, LetsGoOf

LEMMA SMSKeeps ==
  ASSUME DataInv, NEW x \in Commands, ReserveSMSRequest(x) \/ CompleteSMSRequest(x) \/ SMSDies(x)
  PROVE  DataInv'
<1>1. DataTypes /\ TextSound(x) /\ text[x] \in TextRows
  BY DEF DataInv, DataTypes
<1>2. UNCHANGED <<order, funds, worker, shop>>
  BY DEF ReserveSMSRequest, CompleteSMSRequest, SMSDies
<1>3. /\ text' \in [Commands -> TextRows] /\ \A y \in Commands : y # x => text'[y] = text[y]
      /\ TextSound(x)'
  <2>1. CASE ReserveSMSRequest(x)
    BY <1>1, <2>1 DEF ReserveSMSRequest, Fresh, DataTypes, TextRows, TextSound
  <2>2. CASE CompleteSMSRequest(x)
    BY <1>1, <2>2 DEF CompleteSMSRequest, DataTypes, TextRows, TextSound
  <2>3. CASE SMSDies(x)
    BY <1>1, <2>3 DEF SMSDies, DataTypes, TextRows, TextSound
  <2> QED BY <2>1, <2>2, <2>3
<1>4. DataTypes' /\ HandsSound' /\ \A o \in Orders : OrderSound(o)'
  BY <1>1, <1>2, <1>3 DEF DataInv, DataTypes, HandsSound, OrderSound, InHand
<1>5. \A y \in Commands : TextSound(y)'
  BY <1>3 DEF DataInv, TextSound
<1> QED BY <1>4, <1>5 DEF DataInv

LEMMA OrderBySMSKeeps ==
  ASSUME DataInv, NEW x \in Commands, NEW o \in Orders, OrderBySMS(x, o)
  PROVE  DataInv'
<1>1. DataTypes /\ OrderSound(o) /\ order[o] \in OrderRows /\ TextSound(x) /\ text[x] \in TextRows
  BY DEF DataInv, DataTypes
<1>2. /\ order[o].status = "none" /\ order' = [order EXCEPT ![o].status = "draft"]
      /\ text[x].status = "processing" /\ text[x].order = {}
      /\ text' = [text EXCEPT ![x].order = {o}, ![x].made = @ + 1]
      /\ UNCHANGED <<funds, worker, shop>>
  BY DEF OrderBySMS
<1>3. DataTypes' /\ OrderSound(o)' /\ \A q \in Orders : q # o => order'[q] = order[q] /\ funds'[q] = funds[q]
  BY <1>1, <1>2 DEF DataTypes, OrderRows, OrderStates, TextRows, OrderSound
<1>4. \A y \in Commands : TextSound(y)'
  <2>1. TextSound(x)' /\ \A y \in Commands : y # x => text'[y] = text[y]
    BY <1>1, <1>2 DEF DataTypes, TextRows, TextSound
  <2> QED BY <2>1 DEF DataInv, TextSound
<1> QED BY <1>2, <1>3, <1>4, OrderMoves

LEMMA DataNextInv ==
  ASSUME DataAssumption, DataInv, [DataNext]_dataVars
  PROVE  DataInv'
<1>1. CASE UNCHANGED dataVars
  BY <1>1 DEF dataVars, DataInv, DataTypes, HandsSound, OrderSound, TextSound, InHand
<1>2. ASSUME NEW o \in Orders,
             \/ CreateDataOrder(o) \/ DraftDataPayment(o) \/ AttachDataOrderPayment(o)
             \/ PayDataOrder(o) \/ RefundDataOrder(o) \/ \E ref \in Refs : ApplyProviderResult(o, ref)
      PROVE  DataInv'
  BY <1>2, DraftingKeeps, CallbackKeeps
<1>3. ASSUME NEW w \in Fulfillers,
             \/ ClaimDataOrders(w) \/ RecordFulfilment(w) \/ FulfillerDies(w)
             \/ \E o \in Orders : FulfilData(w, o)
      PROVE  DataInv'
  BY <1>3, ClaimOrdersKeeps, DataRecordKeeps, FulfillerDiesKeeps, AskKeeps
<1>4. ASSUME NEW x \in Commands,
             \/ ReserveSMSRequest(x) \/ CompleteSMSRequest(x) \/ SMSDies(x)
             \/ \E o \in Orders : OrderBySMS(x, o)
      PROVE  DataInv'
  BY <1>4, SMSKeeps, OrderBySMSKeeps
<1> QED BY <1>1, <1>2, <1>3, <1>4 DEF DataNext

LEMMA DataInvIsSafe ==
  ASSUME DataInv
  PROVE  DataOrderSafe
<1>1. ASSUME NEW o \in Orders
      PROVE  Cardinality({w \in Fulfillers : o \in worker[w].todo \union worker[w].at}) <= 1
  <2> DEFINE H == {w \in Fulfillers : o \in worker[w].todo \union worker[w].at}
  <2>1. \A v, w \in H : v = w
    BY DEF DataInv, HandsSound, InHand
  <2>2. H = {} \/ \E w : H = {w}
    <3> HIDE DEF H
    <3> QED BY <2>1
  <2>3. Cardinality({}) = 0 /\ \A w : Cardinality({w}) = 1
    BY FS_EmptySet, FS_Singleton
  <2> HIDE DEF H
  <2>4. Cardinality(H) <= 1
    <3>1. CASE H = {}
      BY <2>3, <3>1
    <3>2. ASSUME NEW w, H = {w} PROVE Cardinality(H) <= 1
      <4>1. Cardinality({w}) = 1
        BY <2>3
      <4> QED BY <3>2, <4>1
    <3> QED BY <2>2, <3>1, <3>2
  <2> QED BY <2>4 DEF H
<1>2. \A x \in Commands : text[x].made <= 1
  BY DEF DataInv, TextSound
<1>3. ASSUME NEW o \in Orders
      PROVE  /\ order[o].revenue = (IF order[o].status = "fulfilled" THEN 1 ELSE 0)
             /\ order[o].revenue = 1 => shop.bought[o] # {}
             /\ order[o].status \in {"paid", "fulfilling", "fulfilled", "failed"} =>
                  funds[o] \in {"succeeded", "refunded"}
  BY DEF DataInv, OrderSound
<1> QED BY <1>1, <1>2, <1>3 DEF DataOrderSafe

\* The revenue of an order is recognised once and only when it was bought, an order
\* goes to the provider only once it was paid for, by one worker at a time, and a
\* text makes one order, for any orders, workers, texts, answers and deaths
\* (ClaimFulfillableDataOrders, transitionDataOrderTx, ApplyProviderResult).
THEOREM DataOrdersAreSafe == DataSpec => []DataOrderSafe
<1>1. DataInit => DataInv
  BY DataInitInv
<1>2. DataInv /\ [DataNext]_dataVars => DataInv'
  BY DataAssumption, DataNextInv
<1>3. DataInv => DataOrderSafe
  BY DataInvIsSafe
<1> QED BY <1>1, <1>2, <1>3, PTL DEF DataSpec

-----------------------------------------------------------------------------
(* The ledger.                                                             *)
(*                                                                         *)
(* Rooted is not inductive, because a commit brings in rows about which it *)
(* says nothing.  RootInv adds what holds of a transaction under way: its  *)
(* rows hang on committed rows or on its own, and so does the row it is    *)
(* about to insert.  A roll-back cannot break this, because nobody but the *)
(* transaction itself ever chained a row to an uncommitted one.            *)
(*                                                                         *)
(* BookSumsToZero needs what a transaction promises as well: what it has   *)
(* inserted and what it still will weighs nothing in any pair, from its    *)
(* first statement to its commit (Balanced).  A posting asks for a debit   *)
(* and a credit; a reversal asks for the opposite of entries that were     *)
(* committed, which weighed nothing themselves.                            *)

\* r is a record of a session's fields.
Shaped(r) == r \in [pc   : {r.pc},   todo  : {r.todo},  tail   : {r.tail},
                    mine : {r.mine}, locks : {r.locks}, shares : {r.shares}]

\* Row i is chained to the beginning or to an earlier row among ids.
Linked(i, ids) == book[i].prev \in ids \cup {0} /\ book[i].prev < i

\* The book is a sequence and sessions are records.
Shape ==
  /\ book \in Seq({book[i] : i \in Ids})
  /\ session = [s \in Sessions |-> session[s]]
  /\ \A s \in Sessions : Shaped(session[s])

\* Rows that are named are in the book.
Named ==
  /\ kept \subseteq Ids
  /\ \A s \in Sessions : session[s].mine \subseteq Ids

\* A tail that was read and not yet used is committed or the session's own.
TailVisible ==
  \A s \in Sessions : session[s].pc \in {"lock", "insert"} =>
    session[s].tail \in kept \cup session[s].mine \cup {0}

KeptLinked == \A i \in kept : Linked(i, kept)

MineLinked == \A s \in Sessions : \A i \in session[s].mine : Linked(i, kept \cup session[s].mine)

RootInv == Shape /\ Named /\ TailVisible /\ KeptLinked /\ MineLinked

\* The greatest of some ids is one of them, or 0.
LEMMA MaxOfIsOne ==
  ASSUME NEW ids
  PROVE  MaxOf(ids) \in ids \cup {0}
BY DEF MaxOf

\* A step that leaves the book and the committed rows alone and gives session s
\* a record with the same rows or none keeps RootInv, when the tail it has read
\* is one it may use.
LEMMA SessionStep ==
  ASSUME RootInv, UNCHANGED <<book, kept>>,
         NEW s \in Sessions, NEW r, Shaped(r),
         session' = [session EXCEPT ![s] = r],
         r.mine \in {{}, session[s].mine},
         r.pc \in {"lock", "insert"} => r.tail \in kept \cup r.mine \cup {0}
  PROVE  RootInv'
<1>1. \A o \in Sessions : session'[o] = IF o = s THEN r ELSE session[o]
  BY DEF RootInv, Shape
<1>2. Shape'
  <2>1. session' = [o \in Sessions |-> session'[o]]
    BY DEF RootInv, Shape
  <2>2. \A o \in Sessions : Shaped(session'[o])
    BY <1>1 DEF RootInv, Shape
  <2>3. (book \in Seq({book[i] : i \in Ids}))'
    BY DEF RootInv, Shape, Ids
  <2> QED  BY <2>1, <2>2, <2>3 DEF Shape, Shaped
<1>3. Named'
  BY <1>1 DEF RootInv, Named, Ids
<1>4. TailVisible'
  BY <1>1 DEF RootInv, TailVisible
<1>5. KeptLinked'
  BY DEF RootInv, KeptLinked, Linked
<1>6. MineLinked'
  BY <1>1 DEF RootInv, MineLinked, Linked
<1> QED  BY <1>2, <1>3, <1>4, <1>5, <1>6 DEF RootInv

LEMMA InsertStep ==
  ASSUME RootInv, NEW s \in Sessions, Insert(s)
  PROVE  RootInv'
<1> DEFINE new == Len(book) + 1
           row == NextRow(s)
<1>1. /\ book \in Seq({book[i] : i \in Ids})
      /\ session = [o \in Sessions |-> session[o]]
      /\ Shaped(session[s])
  BY DEF RootInv, Shape
<1>2. /\ book' = Append(book, row)
      /\ kept' = kept
      /\ session[s].pc = "insert"
  BY DEF Insert
<1>3. Len(book) \in Nat /\ Ids = 1 .. Len(book) /\ DOMAIN book = Ids
  BY <1>1 DEF Ids
<1>4. /\ book' \in Seq({book[i] : i \in Ids} \cup {row})
      /\ Len(book') = new
      /\ \A i \in Ids : book'[i] = book[i]
      /\ book'[new] = row
  BY <1>1, <1>2, <1>3
<1>5. Ids' = Ids \cup {new}
  BY <1>3, <1>4 DEF Ids
<1> DEFINE r == [session[s] EXCEPT
                  !.pc   = IF Head(session[s].todo).of = 0 THEN "pick" ELSE "refer",
                  !.todo = Tail(session[s].todo),
                  !.mine = @ \cup {new}]
<1>6. /\ session' = [session EXCEPT ![s] = r]
      /\ Shaped(r)
      /\ r.pc \in {"pick", "refer"}
      /\ r.mine = session[s].mine \cup {new}
  <2>1. Shaped(r) /\ r.pc \in {"pick", "refer"} /\ r.mine = session[s].mine \cup {new}
    BY <1>1 DEF Shaped
  <2>2. session' = [session EXCEPT ![s] = r]
    BY <1>1 DEF Insert
  <2> QED  BY <2>1, <2>2
<1> HIDE DEF r
<1>7. \A o \in Sessions : session'[o] = IF o = s THEN r ELSE session[o]
  BY <1>1, <1>6
<1>8. row.prev \in kept \cup session[s].mine \cup {0} /\ row.prev < new
  <2>1. row.prev = session[s].tail
    BY DEF NextRow, Stored
  <2>2. session[s].tail \in kept \cup session[s].mine \cup {0}
    BY <1>2 DEF RootInv, TailVisible
  <2>3. session[s].tail \in Ids \cup {0}
    BY <2>2 DEF RootInv, Named
  <2> QED  BY <1>3, <2>1, <2>2, <2>3
<1>9. Shape'
  <2>1. book' \in Seq({book'[i] : i \in Ids'})
    BY <1>3, <1>4, <1>5
  <2>2. session' = [o \in Sessions |-> session'[o]]
    BY <1>1, <1>6
  <2>3. \A o \in Sessions : Shaped(session'[o])
    BY <1>6, <1>7 DEF RootInv, Shape
  <2> QED  BY <2>1, <2>2, <2>3 DEF Shape, Shaped
<1>10. Named'
  BY <1>2, <1>5, <1>6, <1>7 DEF RootInv, Named
<1>11. TailVisible'
  BY <1>2, <1>6, <1>7 DEF RootInv, TailVisible
<1>12. KeptLinked'
  BY <1>2, <1>4 DEF RootInv, KeptLinked, Linked, Named
<1>13. MineLinked'
  <2> SUFFICES ASSUME NEW o \in Sessions, NEW i \in session'[o].mine
               PROVE  /\ book'[i].prev \in kept \cup session'[o].mine \cup {0}
                      /\ book'[i].prev < i
    BY <1>2 DEF MineLinked, Linked
  <2>1. CASE i \in session[o].mine
    BY <1>4, <1>6, <1>7, <2>1 DEF RootInv, MineLinked, Linked, Named
  <2>2. CASE o = s /\ i = new
    BY <1>4, <1>6, <1>7, <1>8, <2>2
  <2> QED  BY <1>6, <1>7, <2>1, <2>2
<1> QED  BY <1>9, <1>10, <1>11, <1>12, <1>13 DEF RootInv

LEMMA CommitStep ==
  ASSUME RootInv, NEW s \in Sessions, Commit(s)
  PROVE  RootInv'
<1>1. /\ book' = book
      /\ kept' = kept \cup session[s].mine
      /\ session' = [session EXCEPT ![s] = Idle]
  BY DEF Commit
<1>2. \A o \in Sessions : session'[o] = IF o = s THEN Idle ELSE session[o]
  BY <1>1 DEF RootInv, Shape
<1>3. Idle.pc = "idle" /\ Idle.mine = {} /\ Shaped(Idle)
  BY DEF Idle, Shaped
<1>4. Shape'
  <2>1. session' = [o \in Sessions |-> session'[o]]
    BY <1>1 DEF RootInv, Shape
  <2>2. \A o \in Sessions : Shaped(session'[o])
    BY <1>2, <1>3 DEF RootInv, Shape
  <2>3. (book \in Seq({book[i] : i \in Ids}))'
    BY <1>1 DEF RootInv, Shape, Ids
  <2> QED  BY <2>1, <2>2, <2>3 DEF Shape, Shaped
<1>5. Named'
  BY <1>1, <1>2, <1>3 DEF RootInv, Named, Ids
<1>6. TailVisible'
  BY <1>1, <1>2, <1>3 DEF RootInv, TailVisible
<1>7. KeptLinked'
  BY <1>1 DEF RootInv, KeptLinked, MineLinked, Linked
<1>8. MineLinked'
  BY <1>1, <1>2, <1>3 DEF RootInv, MineLinked, Linked
<1> QED  BY <1>4, <1>5, <1>6, <1>7, <1>8 DEF RootInv

LEMMA RootInvStep == RootInv /\ [Next]_vars => RootInv'
<1> SUFFICES ASSUME RootInv, [Next]_vars PROVE RootInv'
  OBVIOUS
<1>1. \A s \in Sessions : Shaped(session[s])
  BY DEF RootInv, Shape
<1>2. Shaped(Idle) /\ Idle.mine = {} /\ Idle.pc = "idle"
  BY DEF Idle, Shaped
<1>3. ASSUME NEW s \in Sessions, NEW todo, Begin(s, todo), UNCHANGED <<book, kept>>
      PROVE  RootInv'
  <2> DEFINE r == [Idle EXCEPT !.pc = "pick", !.todo = todo]
  <2>1. Shaped(r) /\ r.mine = {} /\ r.pc = "pick"
    BY DEF Idle, Shaped
  <2>2. session' = [session EXCEPT ![s] = r]
    BY <1>3 DEF Begin
  <2> HIDE DEF r
  <2> QED  BY <1>3, <2>1, <2>2, SessionStep
<1>4. ASSUME NEW s \in Sessions, NEW j \in Journals, NEW k \in 1 .. Pairs, PostPair(s, j, k)
      PROVE  RootInv'
  BY <1>3, <1>4 DEF PostPair
<1>5. ASSUME NEW s \in Sessions, NEW j \in Journals, NEW note \in Notes, ReverseJournal(s, j, note)
      PROVE  RootInv'
  BY <1>3, <1>5 DEF ReverseJournal
<1>6. ASSUME NEW s \in Sessions, PickTail(s)
      PROVE  RootInv'
  <2> DEFINE r == [session[s] EXCEPT !.pc = "lock", !.tail = LastVisible(s)]
  <2>1. Shaped(r) /\ r.mine = session[s].mine /\ r.tail = LastVisible(s)
    BY <1>1 DEF Shaped
  <2>2. session' = [session EXCEPT ![s] = r]
    BY <1>6 DEF PickTail, RootInv, Shape
  <2>3. LastVisible(s) \in kept \cup session[s].mine \cup {0}
    BY MaxOfIsOne DEF LastVisible
  <2>4. UNCHANGED <<book, kept>>
    BY <1>6 DEF PickTail
  <2> HIDE DEF r
  <2> QED  BY <2>1, <2>2, <2>3, <2>4, SessionStep
<1>7. ASSUME NEW s \in Sessions, LockTail(s)
      PROVE  RootInv'
  <2> DEFINE r == [session[s] EXCEPT !.pc = "insert", !.locks = @ \cup ({session[s].tail} \ {0})]
  <2>1. Shaped(r) /\ r.mine = session[s].mine /\ r.tail = session[s].tail
    BY <1>1 DEF Shaped
  <2>2. session' = [session EXCEPT ![s] = r]
    BY <1>7 DEF LockTail, RootInv, Shape
  <2>3. session[s].tail \in kept \cup session[s].mine \cup {0}
    BY <1>7 DEF LockTail, RootInv, TailVisible
  <2>4. UNCHANGED <<book, kept>>
    BY <1>7 DEF LockTail
  <2> HIDE DEF r
  <2> QED  BY <2>1, <2>2, <2>3, <2>4, SessionStep
<1>8. ASSUME NEW s \in Sessions, Refer(s)
      PROVE  RootInv'
  <2> DEFINE r == [session[s] EXCEPT !.pc = "pick",
                     !.shares = @ \cup {book[MaxOf(session[s].mine)].entry.of}]
  <2>1. Shaped(r) /\ r.mine = session[s].mine /\ r.pc = "pick"
    BY <1>1 DEF Shaped
  <2>2. session' = [session EXCEPT ![s] = r]
    BY <1>8 DEF Refer, RootInv, Shape
  <2>3. UNCHANGED <<book, kept>>
    BY <1>8 DEF Refer
  <2> HIDE DEF r
  <2> QED  BY <2>1, <2>2, <2>3, SessionStep
<1>9. ASSUME NEW s \in Sessions, HashTaken(s) \/ Abort(s)
      PROVE  RootInv'
  <2>1. session' = [session EXCEPT ![s] = Idle] /\ UNCHANGED <<book, kept>>
    BY <1>9 DEF HashTaken, Abort
  <2> QED  BY <1>2, <2>1, SessionStep
<1>10. CASE UNCHANGED vars
  BY <1>10 DEF vars, RootInv, Shape, Shaped, Ids, Named, TailVisible, KeptLinked, MineLinked, Linked
<1> QED
  BY <1>4, <1>5, <1>6, <1>7, <1>8, <1>9, <1>10, InsertStep, CommitStep DEF Next

LEMMA RootInvInit == Init => RootInv
<1> SUFFICES ASSUME Init PROVE RootInv
  OBVIOUS
<1>1. book = <<>> /\ kept = {} /\ session = [s \in Sessions |-> Idle]
  BY DEF Init
<1>2. Shape
  <2>1. book \in Seq({book[i] : i \in Ids})
    BY <1>1
  <2>2. \A s \in Sessions : Shaped(session[s])
    BY <1>1 DEF Idle, Shaped
  <2> QED  BY <1>1, <2>1, <2>2 DEF Shape
<1>3. Named /\ TailVisible /\ KeptLinked /\ MineLinked
  BY <1>1 DEF Idle, Named, TailVisible, KeptLinked, MineLinked
<1> QED  BY <1>2, <1>3 DEF RootInv

\* Every committed entry of the journal hangs on an earlier committed entry or
\* on the beginning, for any number of sessions, postings, reversals and
\* roll-backs (appendLedgerEntryTx).
THEOREM AlwaysRooted == Spec => []Rooted
<1>1. RootInv => Rooted
  BY DEF RootInv, KeptLinked, Linked, Rooted
<1> QED  BY <1>1, RootInvInit, RootInvStep, PTL DEF Spec
-----------------------------------------------------------------------------
(* The book sums to zero.  A debit of a pair weighs 1 and a credit -1; what *)
(* a transaction has appended and what it still has to append weigh nothing *)
(* together, so neither does what it commits.                               *)

Weight(e, j, k) == IF e.journal = j /\ e.pair = k THEN IF e.side = "debit" THEN 1 ELSE -1 ELSE 0
Weights(j, k)   == [i \in Ids |-> Weight(book[i].entry, j, k)]
Booked(ids, j, k) == SumFunctionOnSet(Weights(j, k), ids)
Ask(todo, j, k)   == [n \in DOMAIN todo |-> Weight(todo[n], j, k)]
AskedFor(todo, j, k) == SumFunctionOnSet(Ask(todo, j, k), DOMAIN todo)

\* The entries are entries, and a tail is only looked for to append behind it.
Typed == /\ book \in Seq(Rows)
         /\ \A s \in Sessions : /\ session[s].todo \in Seq(Entries)
                                /\ session[s].pc \in {"lock", "insert"} => session[s].todo # <<>>

\* A row belongs to one transaction, or is committed.
Apart == \A s \in Sessions : /\ session[s].mine \cap kept = {}
                             /\ \A t \in Sessions : s # t => session[s].mine \cap session[t].mine = {}

KeptEven == \A j \in Journals, k \in 1 .. Pairs : Booked(kept, j, k) = 0
Even(s)  == \A j \in Journals, k \in 1 .. Pairs :
              AskedFor(session[s].todo, j, k) + Booked(session[s].mine, j, k) = 0

\* What the steps keep besides RootInv.
Balanced == Typed /\ Apart /\ KeptEven /\ \A s \in Sessions : Even(s)

LEMMA WeightIsInt == \A e, j, k : Weight(e, j, k) \in Int
BY DEF Weight

LEMMA AskedEmpty ==
  ASSUME NEW j, NEW k PROVE AskedFor(<<>>, j, k) = 0
<1>1. DOMAIN <<>> = {}
  OBVIOUS
<1> QED BY <1>1, SumEmpty DEF AskedFor

LEMMA AskedHead ==
  ASSUME NEW todo \in Seq(Entries), todo # <<>>, NEW j, NEW k
  PROVE  AskedFor(todo, j, k) = Weight(Head(todo), j, k) + AskedFor(Tail(todo), j, k)
<1> DEFINE N == Len(todo)
           f == Ask(todo, j, k)
           g == Ask(Tail(todo), j, k)
           p == [n \in 1 .. (N - 1) |-> n + 1]
<1>1. /\ N \in Nat \ {0} /\ DOMAIN todo = 1 .. N /\ Head(todo) = todo[1]
      /\ DOMAIN Tail(todo) = 1 .. (N - 1) /\ \A n \in 1 .. (N - 1) : Tail(todo)[n] = todo[n + 1]
  OBVIOUS
<1>2. IsFiniteSet(1 .. N) /\ IsFiniteSet(1 .. (N - 1))
  BY <1>1, FS_Interval
<1>3. /\ \A n \in 1 .. N : f[n] = Weight(todo[n], j, k) /\ f[n] \in Int
      /\ \A n \in 1 .. (N - 1) : g[n] = f[p[n]] /\ g[n] \in Int
  BY <1>1, WeightIsInt DEF Ask
<1> HIDE DEF f, g
<1>4. Range(p) = (1 .. N) \ {1}
  <2>1. \A m \in (1 .. N) \ {1} : m - 1 \in 1 .. (N - 1) /\ p[m - 1] = m
    BY <1>1
  <2>2. \A n \in 1 .. (N - 1) : p[n] \in (1 .. N) \ {1}
    BY <1>1
  <2>3. Range(p) = {p[n] : n \in 1 .. (N - 1)}
    BY DEF Range
  <2> HIDE DEF p
  <2> QED BY <2>1, <2>2, <2>3
<1>5. SumFunctionOnSet(g, 1 .. (N - 1)) = SumFunctionOnSet(f, Range(p))
  <2>1. DOMAIN p = 1 .. (N - 1) /\ IsInjective(p)
    BY DEF IsInjective
  <2>2. \A n \in 1 .. (N - 1) : g[n] \in Int /\ f[p[n]] = g[n]
    BY <1>3
  <2> DEFINE D == 1 .. (N - 1)
  <2>3. IsFiniteSet(D) /\ DOMAIN p = D /\ IsInjective(p) /\ \A n \in D : g[n] \in Int /\ f[p[n]] = g[n]
    BY <1>2, <2>1, <2>2
  <2> HIDE DEF p, D
  <2>4. SumFunctionOnSet(g, D) = SumFunctionOnSet(f, Range(p))
    BY <2>3, SumImage
  <2> QED BY <2>4 DEF D
<1>6. SumFunctionOnSet(f, 1 .. N) = f[1] + SumFunctionOnSet(f, (1 .. N) \ {1})
  <2>1. 1 \in 1 .. N /\ \A n \in 1 .. N : f[n] \in Int
    BY <1>1, <1>3
  <2> HIDE DEF N
  <2> QED BY <1>2, <2>1, SumRemove
<1>7. f[1] = Weight(Head(todo), j, k)
  BY <1>1, <1>3
<1>8. AskedFor(todo, j, k) = SumFunctionOnSet(f, 1 .. N) /\ AskedFor(Tail(todo), j, k) = SumFunctionOnSet(g, 1 .. (N - 1))
  BY <1>1 DEF AskedFor, f, g
<1> QED BY <1>4, <1>5, <1>6, <1>7, <1>8

LEMMA AskedIsInt ==
  ASSUME NEW todo \in Seq(Entries), NEW j, NEW k PROVE AskedFor(todo, j, k) \in Int
<1> DEFINE f == Ask(todo, j, k)
<1>1. IsFiniteSet(1 .. Len(todo)) /\ DOMAIN todo = 1 .. Len(todo)
  BY FS_Interval
<1>2. \A n \in 1 .. Len(todo) : f[n] \in Int
  BY <1>1, WeightIsInt DEF Ask
<1> HIDE DEF f
<1>3. SumFunctionOnSet(f, 1 .. Len(todo)) \in Int
  <2> DEFINE D == 1 .. Len(todo)
  <2>1. IsFiniteSet(D) /\ \A n \in D : f[n] \in Int
    BY <1>1, <1>2
  <2> HIDE DEF D
  <2>2. SumFunctionOnSet(f, D) \in Int
    BY <2>1, SumInt
  <2> QED BY <2>2 DEF D
<1> QED BY <1>1, <1>3 DEF AskedFor, f

\* A debit and a credit of one pair.
LEMMA AskedPair ==
  ASSUME NEW i \in Journals, NEW n \in 1 .. Pairs, NEW j, NEW k
  PROVE  /\ BothSides(i, n) \in Seq(Entries) /\ BothSides(i, n) # <<>>
         /\ AskedFor(BothSides(i, n), j, k) = 0
<1> DEFINE d == Posting(i, n, "debit")
           c == Posting(i, n, "credit")
<1>1. d \in Entries /\ c \in Entries
  BY DEF Posting, Entries, Sides
<1>2. Weight(d, j, k) + Weight(c, j, k) = 0
  BY DEF Posting, Weight
<1>3. BothSides(i, n) = <<d, c>>
  BY DEF BothSides
<1> HIDE DEF d, c
<1> DEFINE both == <<d, c>>
           last == <<c>>
<1>4. /\ both \in Seq(Entries) /\ both # <<>> /\ Head(both) = d /\ Tail(both) = last
      /\ last \in Seq(Entries) /\ last # <<>> /\ Head(last) = c /\ Tail(last) = <<>>
  BY <1>1
<1>5. BothSides(i, n) = both
  BY <1>3
<1> HIDE DEF both, last
<1>6. AskedFor(last, j, k) = Weight(c, j, k) + AskedFor(<<>>, j, k)
  BY <1>4, AskedHead
<1>7. AskedFor(both, j, k) = Weight(d, j, k) + AskedFor(last, j, k)
  BY <1>4, AskedHead
<1>8. AskedFor(both, j, k) = 0
  BY <1>2, <1>6, <1>7, AskedEmpty, WeightIsInt
<1> QED BY <1>4, <1>5, <1>8

LEMMA OppositeWeight ==
  ASSUME Typed, NEW i \in Ids, NEW note \in Notes, NEW j, NEW k
  PROVE  /\ Reversal(i, note) \in Entries
         /\ Weight(Reversal(i, note), j, k) = -Weight(book[i].entry, j, k)
<1> DEFINE e == book[i].entry
<1>1. e \in Entries /\ i \in Nat
  <2>1. book \in Seq(Rows) /\ i \in 1 .. Len(book)
    BY DEF Typed, Ids
  <2>2. book[i] \in Rows /\ i \in Nat
    BY <2>1
  <2> QED BY <2>2 DEF Rows
<1>2. Reversal(i, note) = [e EXCEPT !.side = Opposite[e.side], !.of = i, !.note = note]
  BY DEF Reversal
<1> HIDE DEF e
<1>3. Opposite[e.side] \in Sides /\ (e.side = "debit" <=> Opposite[e.side] # "debit")
  BY <1>1 DEF Entries, Sides, Opposite
<1>4. /\ Reversal(i, note) \in Entries
      /\ Reversal(i, note).journal = e.journal /\ Reversal(i, note).pair = e.pair
      /\ Reversal(i, note).side = Opposite[e.side]
  BY <1>1, <1>2, <1>3 DEF Entries
<1>5. Weight(Reversal(i, note), j, k) = -Weight(e, j, k)
  BY <1>3, <1>4 DEF Weight
<1> QED BY <1>4, <1>5 DEF e

\* The reversals of some rows weigh the opposite of the rows.
LEMMA AskedReversals ==
  ASSUME Typed, NEW ids \in SUBSET Ids, IsFiniteSet(ids), NEW note \in Notes,
         NEW row \in InOrder(ids), NEW j, NEW k
  PROVE  LET todo == [n \in DOMAIN row |-> Reversal(row[n], note)]
         IN  todo \in Seq(Entries) /\ AskedFor(todo, j, k) = -Booked(ids, j, k)
<1> DEFINE N == Cardinality(ids)
           todo == [n \in DOMAIN row |-> Reversal(row[n], note)]
           f == Ask(todo, j, k)
           w == Weights(j, k)
           v == [n \in 1 .. N |-> w[row[n]]]
<1>1. N \in Nat /\ row \in [1 .. N -> ids] /\ \A m, n \in 1 .. N : m < n => row[m] < row[n]
  BY FS_CardinalityType DEF InOrder
<1>2. \A i \in ids : i \in Nat /\ i \in Ids
  BY DEF Ids
<1>3. \A m, n \in 1 .. N : row[m] = row[n] => m = n
  <2> SUFFICES ASSUME NEW m \in 1 .. N, NEW n \in 1 .. N, m < n PROVE row[m] # row[n]
    BY <1>1
  <2> QED BY <1>1, <1>2
<1>4. IsFiniteSet(1 .. N) /\ Cardinality(1 .. N) = N
  BY <1>1, FS_Interval
<1>5. Range(row) = ids
  <2>1. row \in Injection(1 .. N, ids)
    <3> HIDE DEF N
    <3> QED BY <1>1, <1>3 DEF Injection, IsInjective
  <2>2. row \in Surjection(1 .. N, ids)
    <3> HIDE DEF N
    <3>1. Cardinality(1 .. N) = Cardinality(ids)
      BY <1>4 DEF N
    <3> QED BY <2>1, <3>1, FS_Injection
  <2> QED BY <1>1, <2>2 DEF Surjection, Range
<1>6. \A n \in 1 .. N : Reversal(row[n], note) \in Entries /\ f[n] = -w[row[n]] /\ w[row[n]] \in Int
  <2> SUFFICES ASSUME NEW n \in 1 .. N
               PROVE  Reversal(row[n], note) \in Entries /\ f[n] = -w[row[n]] /\ w[row[n]] \in Int
    OBVIOUS
  <2>1. row[n] \in Ids /\ n \in DOMAIN row
    BY <1>1, <1>2
  <2>2. /\ Reversal(row[n], note) \in Entries
        /\ Weight(Reversal(row[n], note), j, k) = -Weight(book[row[n]].entry, j, k)
    BY <2>1, OppositeWeight
  <2>3. f[n] = Weight(Reversal(row[n], note), j, k) /\ w[row[n]] = Weight(book[row[n]].entry, j, k)
    BY <2>1 DEF Ask, Weights
  <2> QED BY <2>2, <2>3, WeightIsInt
<1>7. todo \in Seq(Entries) /\ DOMAIN todo = 1 .. N
  BY <1>1, <1>6
<1> HIDE DEF N, w, f, todo
<1>8. SumFunctionOnSet(v, 1 .. N) = SumFunctionOnSet(w, Range(row))
  <2>1. \A n \in 1 .. N : v[n] \in Int /\ w[row[n]] = v[n]
    BY <1>6
  <2>2. DOMAIN row = 1 .. N /\ IsInjective(row)
    BY <1>1, <1>3 DEF IsInjective
  <2> DEFINE D == 1 .. N
  <2>3. IsFiniteSet(D) /\ DOMAIN row = D /\ IsInjective(row) /\ \A n \in D : v[n] \in Int /\ w[row[n]] = v[n]
    BY <1>4, <2>1, <2>2
  <2> HIDE DEF v, D
  <2>4. SumFunctionOnSet(v, D) = SumFunctionOnSet(w, Range(row))
    BY <2>3, SumImage
  <2> QED BY <2>4 DEF D
<1>9. SumFunctionOnSet(f, 1 .. N) = -SumFunctionOnSet(v, 1 .. N)
  <2>1. \A n \in 1 .. N : v[n] \in Int /\ f[n] = -v[n]
    BY <1>6
  <2> HIDE DEF v
  <2> QED BY <1>4, <2>1, SumOpposite
<1>10. AskedFor(todo, j, k) = -Booked(ids, j, k)
  BY <1>5, <1>7, <1>8, <1>9 DEF AskedFor, Booked, f, w
<1> QED BY <1>7, <1>10 DEF todo

\* The rows named by an id have weights, and those weights have a sum.
LEMMA BookedIsInt ==
  ASSUME RootInv, NEW ids \in SUBSET Ids, NEW j, NEW k
  PROVE  /\ IsFiniteSet(ids)
         /\ \A i \in ids : Weights(j, k)[i] = Weight(book[i].entry, j, k) /\ Weights(j, k)[i] \in Int
         /\ Booked(ids, j, k) \in Int
<1>1. IsFiniteSet(Ids)
  <2>1. Len(book) \in Nat
    BY DEF RootInv, Shape
  <2> QED BY <2>1, FS_Interval DEF Ids
<1>2. IsFiniteSet(ids)
  BY <1>1, FS_Subset
<1>3. \A i \in ids : Weights(j, k)[i] = Weight(book[i].entry, j, k) /\ Weights(j, k)[i] \in Int
  BY WeightIsInt DEF Weights
<1>4. Booked(ids, j, k) \in Int
  <2> DEFINE w == Weights(j, k)
  <2>1. \A i \in ids : w[i] \in Int
    BY <1>3
  <2> HIDE DEF w
  <2>2. SumFunctionOnSet(w, ids) \in Int
    BY <1>2, <2>1, SumInt
  <2> QED BY <2>2 DEF w, Booked
<1> QED BY <1>2, <1>3, <1>4

LEMMA BookedUnion ==
  ASSUME RootInv, NEW a \in SUBSET Ids, NEW b \in SUBSET Ids, a \cap b = {}, NEW j, NEW k
  PROVE  Booked(a \cup b, j, k) = Booked(a, j, k) + Booked(b, j, k)
<1> DEFINE w == Weights(j, k)
<1>1. IsFiniteSet(a) /\ IsFiniteSet(b) /\ \A i \in a \cup b : w[i] \in Int
  BY BookedIsInt
<1> HIDE DEF w
<1>2. SumFunctionOnSet(w, a \cup b) = SumFunctionOnSet(w, a) + SumFunctionOnSet(w, b)
  BY <1>1, SumUnion
<1> QED BY <1>2 DEF w, Booked

\* Rows that are not of the pair.
LEMMA BookedNothing ==
  ASSUME RootInv, NEW ids \in SUBSET Ids, NEW j, NEW k,
         \A i \in ids : Weight(book[i].entry, j, k) = 0
  PROVE  Booked(ids, j, k) = 0
<1> DEFINE w == Weights(j, k)
<1>1. IsFiniteSet(ids) /\ \A i \in ids : w[i] = 0
  BY BookedIsInt
<1> HIDE DEF w
<1>2. SumFunctionOnSet(w, ids) = 0
  BY <1>1, SumZero
<1> QED BY <1>2 DEF w, Booked

\* The committed entries of one journal weigh nothing either.
LEMMA JournalEven ==
  ASSUME RootInv, KeptEven, NEW i \in Journals, NEW j \in Journals, NEW k \in 1 .. Pairs
  PROVE  Booked(EntriesOf(i), j, k) = 0
<1>1. kept \in SUBSET Ids /\ EntriesOf(i) \in SUBSET kept
  BY DEF RootInv, Named, EntriesOf
<1>2. CASE i = j
  <2> DEFINE others == kept \ EntriesOf(i)
  <2>1. \A h \in others : Weight(book[h].entry, j, k) = 0
    BY <1>2 DEF EntriesOf, Weight
  <2>2. /\ EntriesOf(i) \in SUBSET Ids /\ others \in SUBSET Ids
        /\ EntriesOf(i) \cap others = {} /\ EntriesOf(i) \cup others = kept
    BY <1>1
  <2> HIDE DEF others
  <2>3. Booked(EntriesOf(i) \cup others, j, k) = Booked(EntriesOf(i), j, k) + Booked(others, j, k)
    BY <2>2, BookedUnion
  <2>4. Booked(others, j, k) = 0 /\ Booked(EntriesOf(i), j, k) \in Int
    BY <2>1, <2>2, BookedNothing, BookedIsInt
  <2>5. Booked(kept, j, k) = 0
    BY DEF KeptEven
  <2>6. Booked(EntriesOf(i) \cup others, j, k) = 0
    BY <2>2, <2>5
  <2> QED BY <2>3, <2>4, <2>6
<1>3. CASE i # j
  <2>1. \A h \in EntriesOf(i) : Weight(book[h].entry, j, k) = 0
    BY <1>3 DEF EntriesOf, Weight
  <2> QED BY <1>1, <2>1, BookedNothing
<1> QED BY <1>2, <1>3
\* r may be the record of a session.
FitsTodo(r) == r.todo \in Seq(Entries) /\ (r.pc \in {"lock", "insert"} => r.todo # <<>>)

\* What r appended and what it still appends weigh nothing together.
EvenRecord(r) == \A j \in Journals, k \in 1 .. Pairs : AskedFor(r.todo, j, k) + Booked(r.mine, j, k) = 0

\* The committed rows and the book stay, s gets a record with its rows or none.
LEMMA BalancedStep ==
  ASSUME RootInv, Balanced, UNCHANGED <<book, kept>>,
         NEW s \in Sessions, NEW r, session' = [session EXCEPT ![s] = r],
         r.mine \in {{}, session[s].mine}, FitsTodo(r), EvenRecord(r)
  PROVE  Balanced'
<1>1. \A o \in Sessions : session'[o] = IF o = s THEN r ELSE session[o]
  BY DEF RootInv, Shape
<1>2. \A j, k : Weights(j, k)' = Weights(j, k)
  BY DEF Weights, Ids
<1>3. Typed'
  BY <1>1 DEF Balanced, Typed, FitsTodo
<1>4. Apart'
  BY <1>1 DEF Balanced, Apart
<1>5. KeptEven'
  BY <1>2 DEF Balanced, KeptEven, Booked
<1>6. \A o \in Sessions : Even(o)'
  BY <1>1, <1>2 DEF Balanced, Even, EvenRecord, Booked
<1> QED BY <1>3, <1>4, <1>5, <1>6 DEF Balanced

\* A transaction that begins: it has no rows and asks for what weighs nothing.
LEMMA BalancedBegin ==
  ASSUME RootInv, Balanced, UNCHANGED <<book, kept>>, NEW s \in Sessions, NEW todo \in Seq(Entries),
         Begin(s, todo), \A j \in Journals, k \in 1 .. Pairs : AskedFor(todo, j, k) = 0
  PROVE  Balanced'
<1> DEFINE r == [Idle EXCEPT !.pc = "pick", !.todo = todo]
<1>1. r.mine = {} /\ r.todo = todo /\ r.pc = "pick"
  BY DEF Idle
<1>2. session' = [session EXCEPT ![s] = r]
  BY DEF Begin
<1> HIDE DEF r
<1>3. FitsTodo(r)
  BY <1>1 DEF FitsTodo
<1>4. EvenRecord(r)
  <2>1. \A j, k : Booked({}, j, k) = 0
    BY SumEmpty DEF Booked
  <2> QED BY <1>1, <2>1 DEF EvenRecord
<1> QED BY <1>1, <1>2, <1>3, <1>4, BalancedStep

\* A transaction that ends without a commit.
LEMMA BalancedEnd ==
  ASSUME RootInv, Balanced, UNCHANGED <<book, kept>>, NEW s \in Sessions,
         session' = [session EXCEPT ![s] = Idle]
  PROVE  Balanced'
<1>1. Idle.mine = {} /\ Idle.todo = <<>> /\ Idle.pc = "idle"
  BY DEF Idle
<1>2. FitsTodo(Idle)
  BY <1>1 DEF FitsTodo
<1>3. EvenRecord(Idle)
  <2>1. \A j, k : Booked({}, j, k) = 0
    BY SumEmpty DEF Booked
  <2> QED BY <1>1, <2>1, AskedEmpty DEF EvenRecord
<1> QED BY <1>1, <1>2, <1>3, BalancedStep

\* The reversals of a journal weigh nothing, because its entries do.
LEMMA BalancedReversal ==
  ASSUME RootInv, Balanced, NEW s \in Sessions, NEW i \in Journals, NEW note \in Notes,
         ReverseJournal(s, i, note)
  PROVE  Balanced'
<1>1. UNCHANGED <<book, kept>>
  BY DEF ReverseJournal
<1>2. PICK row \in InOrder(EntriesOf(i)) : Begin(s, [n \in DOMAIN row |-> Reversal(row[n], note)])
  BY DEF ReverseJournal
<1> DEFINE todo == [n \in DOMAIN row |-> Reversal(row[n], note)]
<1>3. EntriesOf(i) \in SUBSET Ids /\ IsFiniteSet(EntriesOf(i))
  <2>1. EntriesOf(i) \in SUBSET Ids
    BY DEF RootInv, Named, EntriesOf
  <2> QED BY <2>1, BookedIsInt
<1>4. Typed /\ KeptEven
  BY DEF Balanced
<1>5. \A j, k : todo \in Seq(Entries) /\ AskedFor(todo, j, k) = -Booked(EntriesOf(i), j, k)
  BY <1>3, <1>4, AskedReversals
<1>6. \A j \in Journals, k \in 1 .. Pairs : Booked(EntriesOf(i), j, k) = 0
  BY <1>4, JournalEven
<1>7. \A j \in Journals, k \in 1 .. Pairs : AskedFor(todo, j, k) = 0
  BY <1>5, <1>6
<1>8. todo \in Seq(Entries)
  BY <1>5
<1>9. Begin(s, todo)
  BY <1>2
<1> HIDE DEF todo
<1> QED BY <1>1, <1>7, <1>8, <1>9, BalancedBegin
\* The entry at the head of what s asks for becomes the last row.
LEMMA InsertedRow ==
  ASSUME RootInv, Typed, NEW s \in Sessions, Insert(s)
  PROVE  /\ Ids' = Ids \cup {Len(book) + 1} /\ Len(book) + 1 \notin Ids
         /\ book' \in Seq(Rows)
         /\ \A i \in Ids : book'[i].entry = book[i].entry
         /\ book'[Len(book) + 1].entry = Head(session[s].todo)
         /\ session[s].todo \in Seq(Entries) /\ session[s].todo # <<>>
<1> DEFINE row == NextRow(s)
           todo == session[s].todo
<1>1. todo \in Seq(Entries) /\ todo # <<>> /\ book \in Seq(Rows)
  BY DEF Typed, Insert
<1>2. row.entry = Head(todo) /\ row \in Rows
  <2>1. Head(todo) \in Entries
    <3> HIDE DEF todo
    <3> QED BY <1>1
  <2>2. session[s].tail \in Nat
    BY DEF Insert, RootInv, TailVisible, Named, Ids
  <2>3. row = [entry |-> Head(todo), prev |-> session[s].tail]
    BY DEF NextRow, Stored
  <2> HIDE DEF row, todo
  <2> QED BY <2>1, <2>2, <2>3 DEF Rows
<1>3. book' = Append(book, row)
  BY DEF Insert
<1> HIDE DEF row
<1>4. book' \in Seq(Rows) /\ Len(book') = Len(book) + 1 /\ Len(book) \in Nat
  BY <1>1, <1>2, <1>3
<1>5. \A i \in 1 .. Len(book) : book'[i] = book[i]
  BY <1>1, <1>3
<1>6. book'[Len(book) + 1] = row
  BY <1>1, <1>3
<1> QED BY <1>1, <1>2, <1>4, <1>5, <1>6 DEF Ids

\* Old rows keep their weight when one is inserted.
LEMMA InsertedWeights ==
  ASSUME RootInv, Typed, NEW s \in Sessions, Insert(s), NEW j, NEW k, NEW ids \in SUBSET Ids
  PROVE  /\ SumFunctionOnSet(Weights(j, k)', ids) = Booked(ids, j, k)
         /\ SumFunctionOnSet(Weights(j, k)', ids \cup {Len(book) + 1})
              = Weight(Head(session[s].todo), j, k) + Booked(ids, j, k)
<1> DEFINE w == Weights(j, k)
           v == Weights(j, k)'
           new == Len(book) + 1
<1>1. \A i \in Ids : v[i] = Weight(book'[i].entry, j, k) /\ w[i] = Weight(book[i].entry, j, k)
  BY InsertedRow DEF Weights
<1>2. v[new] = Weight(Head(session[s].todo), j, k) /\ v[new] \in Int
  BY InsertedRow, WeightIsInt DEF Weights
<1>3. IsFiniteSet(ids) /\ new \notin ids /\ \A i \in ids : w[i] \in Int /\ v[i] = w[i]
  BY <1>1, InsertedRow, BookedIsInt
<1> HIDE DEF v, w, new
<1>4. SumFunctionOnSet(w, ids) = SumFunctionOnSet(v, ids)
  BY <1>3, SumAgree
<1>5. SumFunctionOnSet(v, ids \cup {new}) = v[new] + SumFunctionOnSet(v, ids)
  <2>1. \A i \in ids \cup {new} : v[i] \in Int
    BY <1>2, <1>3
  <2> QED BY <1>3, <2>1, SumAdd
<1> QED BY <1>2, <1>4, <1>5 DEF v, w, new, Booked

LEMMA BalancedInsert ==
  ASSUME RootInv, Balanced, NEW s \in Sessions, Insert(s)
  PROVE  Balanced'
<1> DEFINE new == Len(book) + 1
           mine == session[s].mine
           todo == session[s].todo
<1>0. Typed /\ Apart /\ KeptEven /\ \A o \in Sessions : Even(o)
  BY DEF Balanced
<1>1. /\ \A o \in Sessions \ {s} : session'[o] = session[o]
      /\ session'[s].mine = mine \cup {new} /\ session'[s].todo = Tail(todo)
      /\ session'[s].pc \in {"pick", "refer"}
      /\ kept' = kept
  <2>1. /\ session = [o \in Sessions |-> session[o]]
        /\ session[s] \in [pc   : {session[s].pc},   todo  : {session[s].todo},  tail   : {session[s].tail},
                           mine : {session[s].mine}, locks : {session[s].locks}, shares : {session[s].shares}]
    BY DEF RootInv, Shape, Shaped
  <2> QED BY <2>1 DEF Insert
<1>2. kept \in SUBSET Ids /\ \A o \in Sessions : session[o].mine \in SUBSET Ids
  BY DEF RootInv, Named
<1>3. todo \in Seq(Entries) /\ todo # <<>> /\ new \notin Ids /\ book' \in Seq(Rows)
  BY <1>0, InsertedRow
<1>4. Tail(todo) \in Seq(Entries)
  <2> HIDE DEF todo
  <2> QED BY <1>3
<1>5. Typed'
  BY <1>0, <1>1, <1>3, <1>4 DEF Typed
<1>6. Apart'
  <2> HIDE DEF new
  <2> QED BY <1>0, <1>1, <1>2, <1>3 DEF Apart
<1>7. KeptEven'
  <2> SUFFICES ASSUME NEW j \in Journals, NEW k \in 1 .. Pairs PROVE Booked(kept, j, k)' = 0
    BY DEF KeptEven
  <2>1. SumFunctionOnSet(Weights(j, k)', kept) = Booked(kept, j, k)
    BY <1>0, <1>2, InsertedWeights
  <2>2. Booked(kept, j, k)' = SumFunctionOnSet(Weights(j, k)', kept')
    BY DEF Booked
  <2> QED BY <1>0, <1>1, <2>1, <2>2 DEF KeptEven
<1>8. \A o \in Sessions : Even(o)'
  <2> SUFFICES ASSUME NEW o \in Sessions, NEW j \in Journals, NEW k \in 1 .. Pairs
               PROVE  AskedFor(session'[o].todo, j, k) + SumFunctionOnSet(Weights(j, k)', session'[o].mine) = 0
    BY DEF Even, Booked
  <2>1. AskedFor(session[o].todo, j, k) + Booked(session[o].mine, j, k) = 0
    BY <1>0 DEF Even
  <2>2. CASE o # s
    <3>1. SumFunctionOnSet(Weights(j, k)', session[o].mine) = Booked(session[o].mine, j, k)
      BY <1>0, <1>2, InsertedWeights
    <3> QED BY <1>1, <2>1, <2>2, <3>1
  <2>3. CASE o = s
    <3>1. SumFunctionOnSet(Weights(j, k)', mine \cup {new}) = Weight(Head(todo), j, k) + Booked(mine, j, k)
      BY <1>0, <1>2, InsertedWeights
    <3>2. AskedFor(todo, j, k) = Weight(Head(todo), j, k) + AskedFor(Tail(todo), j, k)
      <4> HIDE DEF todo
      <4> QED BY <1>3, AskedHead
    <3>3. AskedFor(Tail(todo), j, k) \in Int
      <4> HIDE DEF todo
      <4> QED BY <1>4, AskedIsInt
    <3>4. Weight(Head(todo), j, k) \in Int /\ Booked(mine, j, k) \in Int
      BY <1>2, WeightIsInt, BookedIsInt
    <3>5. AskedFor(todo, j, k) + Booked(mine, j, k) = 0
      BY <2>1, <2>3
    <3>6. AskedFor(session'[o].todo, j, k) = AskedFor(Tail(todo), j, k)
      BY <1>1, <2>3
    <3>7. SumFunctionOnSet(Weights(j, k)', session'[o].mine) = SumFunctionOnSet(Weights(j, k)', mine \cup {new})
      BY <1>1, <2>3
    <3> HIDE DEF todo, mine, new
    <3> QED BY <3>1, <3>2, <3>3, <3>4, <3>5, <3>6, <3>7
  <2> QED BY <2>2, <2>3
<1> QED BY <1>5, <1>6, <1>7, <1>8 DEF Balanced

LEMMA BalancedCommit ==
  ASSUME RootInv, Balanced, NEW s \in Sessions, Commit(s)
  PROVE  Balanced'
<1> DEFINE mine == session[s].mine
<1>0. Typed /\ Apart /\ KeptEven /\ \A o \in Sessions : Even(o)
  BY DEF Balanced
<1>1. book' = book /\ kept' = kept \cup mine /\ session[s].todo = <<>>
  BY DEF Commit
<1>2. \A o \in Sessions : session'[o] = IF o = s THEN Idle ELSE session[o]
  BY DEF Commit, RootInv, Shape
<1>3. Idle.mine = {} /\ Idle.todo = <<>> /\ Idle.pc = "idle"
  BY DEF Idle
<1>4. \A j, k : Weights(j, k)' = Weights(j, k)
  BY <1>1 DEF Weights, Ids
<1>5. Typed'
  BY <1>0, <1>1, <1>2, <1>3 DEF Typed
<1>6. Apart'
  BY <1>0, <1>1, <1>2, <1>3 DEF Apart
<1>7. KeptEven'
  <2> SUFFICES ASSUME NEW j \in Journals, NEW k \in 1 .. Pairs PROVE Booked(kept \cup mine, j, k) = 0
    BY <1>1, <1>4 DEF KeptEven, Booked
  <2>1. kept \in SUBSET Ids /\ mine \in SUBSET Ids /\ kept \cap mine = {}
    BY <1>0 DEF RootInv, Named, Apart
  <2>2. Booked(kept \cup mine, j, k) = Booked(kept, j, k) + Booked(mine, j, k)
    BY <2>1, BookedUnion
  <2>3. AskedFor(<<>>, j, k) + Booked(mine, j, k) = 0
    BY <1>0, <1>1 DEF Even
  <2>4. Booked(mine, j, k) \in Int /\ Booked(kept, j, k) = 0
    BY <1>0, <2>1, BookedIsInt DEF KeptEven
  <2>5. AskedFor(<<>>, j, k) = 0
    BY AskedEmpty
  <2> QED BY <2>2, <2>3, <2>4, <2>5
<1>8. \A o \in Sessions : Even(o)'
  <2> SUFFICES ASSUME NEW o \in Sessions, NEW j \in Journals, NEW k \in 1 .. Pairs
               PROVE  AskedFor(session'[o].todo, j, k) + Booked(session'[o].mine, j, k) = 0
    BY <1>4 DEF Even, Booked
  <2>1. CASE o = s
    <3>1. AskedFor(<<>>, j, k) = 0 /\ Booked({}, j, k) = 0
      BY AskedEmpty, SumEmpty DEF Booked
    <3>2. session'[o].todo = <<>> /\ session'[o].mine = {}
      BY <1>2, <1>3, <2>1
    <3>3. AskedFor(session'[o].todo, j, k) = 0 /\ Booked(session'[o].mine, j, k) = 0
      BY <3>1, <3>2
    <3> QED BY <3>3
  <2>2. CASE o # s
    BY <1>0, <1>2, <2>2 DEF Even
  <2> QED BY <2>1, <2>2
<1> QED BY <1>5, <1>6, <1>7, <1>8 DEF Balanced
LEMMA BalancedNext == RootInv /\ Balanced /\ [Next]_vars => Balanced'
<1> SUFFICES ASSUME RootInv, Balanced, [Next]_vars PROVE Balanced'
  OBVIOUS
<1>1. \A s \in Sessions : /\ Shaped(session[s])
                          /\ FitsTodo(session[s])
                          /\ EvenRecord(session[s])
  BY DEF RootInv, Shape, Balanced, Typed, FitsTodo, Even, EvenRecord
<1>2. ASSUME NEW s \in Sessions, NEW j \in Journals, NEW k \in 1 .. Pairs, PostPair(s, j, k)
      PROVE  Balanced'
  <2>1. UNCHANGED <<book, kept>> /\ Begin(s, BothSides(j, k))
    BY <1>2 DEF PostPair
  <2>2. \A i, n : BothSides(j, k) \in Seq(Entries) /\ AskedFor(BothSides(j, k), i, n) = 0
    BY AskedPair
  <2> QED BY <2>1, <2>2, BalancedBegin
<1>3. ASSUME NEW s \in Sessions, PickTail(s)
      PROVE  Balanced'
  <2> DEFINE r == [session[s] EXCEPT !.pc = "lock", !.tail = LastVisible(s)]
  <2>1. r.mine = session[s].mine /\ r.todo = session[s].todo
    BY <1>1 DEF Shaped
  <2>2. session' = [session EXCEPT ![s] = r] /\ session[s].todo # <<>>
    BY <1>3 DEF PickTail, RootInv, Shape
  <2>3. UNCHANGED <<book, kept>>
    BY <1>3 DEF PickTail
  <2> HIDE DEF r
  <2>4. FitsTodo(r) /\ EvenRecord(r)
    BY <1>1, <2>1, <2>2 DEF FitsTodo, EvenRecord
  <2> QED BY <2>1, <2>2, <2>3, <2>4, BalancedStep
<1>4. ASSUME NEW s \in Sessions, LockTail(s)
      PROVE  Balanced'
  <2> DEFINE r == [session[s] EXCEPT !.pc = "insert", !.locks = @ \cup ({session[s].tail} \ {0})]
  <2>1. r.mine = session[s].mine /\ r.todo = session[s].todo /\ session[s].todo # <<>>
    BY <1>1, <1>4 DEF Shaped, FitsTodo, LockTail
  <2>2. session' = [session EXCEPT ![s] = r]
    BY <1>4 DEF LockTail, RootInv, Shape
  <2>3. UNCHANGED <<book, kept>>
    BY <1>4 DEF LockTail
  <2> HIDE DEF r
  <2>4. FitsTodo(r) /\ EvenRecord(r)
    BY <1>1, <2>1 DEF FitsTodo, EvenRecord
  <2> QED BY <2>1, <2>2, <2>3, <2>4, BalancedStep
<1>5. ASSUME NEW s \in Sessions, Refer(s)
      PROVE  Balanced'
  <2> DEFINE r == [session[s] EXCEPT !.pc = "pick",
                     !.shares = @ \cup {book[MaxOf(session[s].mine)].entry.of}]
  <2>1. r.mine = session[s].mine /\ r.todo = session[s].todo /\ r.pc = "pick"
    BY <1>1 DEF Shaped
  <2>2. session' = [session EXCEPT ![s] = r]
    BY <1>5 DEF Refer, RootInv, Shape
  <2>3. UNCHANGED <<book, kept>>
    BY <1>5 DEF Refer
  <2> HIDE DEF r
  <2>4. FitsTodo(r) /\ EvenRecord(r)
    BY <1>1, <2>1 DEF FitsTodo, EvenRecord
  <2> QED BY <2>1, <2>2, <2>3, <2>4, BalancedStep
<1>6. ASSUME NEW s \in Sessions, HashTaken(s) \/ Abort(s)
      PROVE  Balanced'
  <2>1. session' = [session EXCEPT ![s] = Idle] /\ UNCHANGED <<book, kept>>
    BY <1>6 DEF HashTaken, Abort
  <2> QED BY <2>1, BalancedEnd
<1>7. CASE UNCHANGED vars
  <2>1. UNCHANGED <<book, kept, session>>
    BY <1>7 DEF vars
  <2>2. \A j, k : Weights(j, k)' = Weights(j, k)
    BY <2>1 DEF Weights, Ids
  <2>3. Typed' /\ Apart'
    BY <2>1 DEF Balanced, Typed, Apart
  <2>4. KeptEven' /\ \A s \in Sessions : Even(s)'
    BY <2>1, <2>2 DEF Balanced, KeptEven, Even, Booked
  <2> QED BY <2>3, <2>4 DEF Balanced
<1> QED
  BY <1>2, <1>3, <1>4, <1>5, <1>6, <1>7, BalancedReversal, BalancedInsert, BalancedCommit DEF Next

LEMMA BalancedInit == Init => Balanced
<1> SUFFICES ASSUME Init PROVE Balanced
  OBVIOUS
<1>1. book = <<>> /\ kept = {} /\ session = [s \in Sessions |-> Idle]
  BY DEF Init
<1>2. \A s \in Sessions : session[s].mine = {} /\ session[s].todo = <<>> /\ session[s].pc = "idle"
  BY <1>1 DEF Idle
<1>3. Typed /\ Apart
  <2>1. <<>> \in Seq(Rows) /\ <<>> \in Seq(Entries)
    OBVIOUS
  <2>2. Typed
    BY <1>1, <1>2, <2>1 DEF Typed
  <2>3. Apart
    BY <1>1, <1>2 DEF Apart
  <2> QED BY <2>2, <2>3
<1>4. \A j, k : Booked({}, j, k) = 0 /\ AskedFor(<<>>, j, k) = 0
  BY SumEmpty, AskedEmpty DEF Booked
<1>5. KeptEven
  BY <1>1, <1>4 DEF KeptEven
<1>6. \A s \in Sessions : Even(s)
  <2> SUFFICES ASSUME NEW s \in Sessions, NEW j, NEW k
               PROVE  AskedFor(session[s].todo, j, k) + Booked(session[s].mine, j, k) = 0
    BY DEF Even
  <2>1. AskedFor(session[s].todo, j, k) = 0 /\ Booked(session[s].mine, j, k) = 0
    BY <1>2, <1>4
  <2> QED BY <2>1
<1> QED BY <1>3, <1>5, <1>6 DEF Balanced

\* A sum of ones and minus ones is a difference of two counts.
LEMMA EvenIsCancelled == RootInv /\ Balanced => BookSumsToZero
<1> SUFFICES ASSUME RootInv, Balanced, NEW j \in Journals, NEW k \in 1 .. Pairs
             PROVE  LET pair == {i \in EntriesOf(j) : book[i].entry.pair = k}
                    IN  Cardinality(pair \cap OnSide("debit")) = Cardinality(pair \cap OnSide("credit"))
  BY DEF BookSumsToZero
<1> DEFINE pair == {i \in EntriesOf(j) : book[i].entry.pair = k}
           d == pair \cap OnSide("debit")
           c == pair \cap OnSide("credit")
           w == Weights(j, k)
<1>1. kept \in SUBSET Ids /\ IsFiniteSet(kept)
  <2>1. kept \in SUBSET Ids
    BY DEF RootInv, Named
  <2> QED BY <2>1, BookedIsInt
<1>2. d \in SUBSET kept /\ c \in SUBSET kept /\ d \cap c = {}
  BY DEF EntriesOf, OnSide
<1>3. \A i \in kept : w[i] = IF i \in d THEN 1 ELSE IF i \in c THEN -1 ELSE 0
  <2> SUFFICES ASSUME NEW i \in kept
               PROVE  w[i] = IF i \in d THEN 1 ELSE IF i \in c THEN -1 ELSE 0
    OBVIOUS
  <2>1. book[i].entry.side \in Sides
    <3>1. book \in Seq(Rows) /\ i \in 1 .. Len(book)
      BY <1>1 DEF Balanced, Typed, Ids
    <3>2. book[i] \in Rows
      BY <3>1
    <3> QED BY <3>2 DEF Rows, Entries
  <2>2. w[i] = Weight(book[i].entry, j, k)
    BY <1>1, BookedIsInt
  <2> HIDE DEF w
  <2> QED BY <2>1, <2>2 DEF Weight, EntriesOf, OnSide, Sides
<1>4. SumFunctionOnSet(w, kept) = 0
  BY DEF Balanced, KeptEven, Booked
<1>5. IsFiniteSet(d) /\ IsFiniteSet(c)
  BY <1>1, <1>2, FS_Subset
<1> HIDE DEF d, c, w
<1>6. Cardinality(d) \in Nat /\ Cardinality(c) \in Nat
  BY <1>5, FS_CardinalityType
<1>7. SumFunctionOnSet(w, kept) = Cardinality(d) - Cardinality(c)
  BY <1>1, <1>2, <1>3, SumOfSigns
<1>8. Cardinality(d) = Cardinality(c)
  BY <1>4, <1>6, <1>7
<1> QED BY <1>8 DEF d, c

\* The committed debits and credits of every pair cancel out at every moment,
\* for any number of journals, pairs, sessions, roll-backs and reversals, those
\* that reverse a journal twice included (postLedgerPair, PostLedgerReversal):
\* a transaction commits all it asked for, and that weighs nothing.
THEOREM BookAlwaysSumsToZero == Spec => []BookSumsToZero
<1>1. Init => RootInv /\ Balanced
  BY RootInvInit, BalancedInit
<1>2. RootInv /\ Balanced /\ [Next]_vars => (RootInv /\ Balanced)'
  BY RootInvStep, BalancedNext
<1> QED BY <1>1, <1>2, EvenIsCancelled, PTL DEF Spec
=============================================================================
