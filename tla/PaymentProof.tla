----------------------------- MODULE PaymentProof -----------------------------
(***************************************************************************)
(* Proofs about PaymentLifecycle for any payments, kinds, sessions,        *)
(* balance, tries and failures.                                            *)
(*                                                                         *)
(* None of the properties is inductive: a session that read a status acts  *)
(* on it later.  Inv says what the rows of one payment say of each other   *)
(* (Sound), what a session may still rely on when it goes on with payment  *)
(* p, wherever it stands (Relies), and which two sessions cannot meet on a *)
(* payment (Apart).  A step changes the rows of one payment and one        *)
(* session; what it does to the others is that the status moved along the  *)
(* lifecycle (Onward), which none of them notices (ReliesOnward).          *)
(***************************************************************************)
EXTENDS PaymentLifecycle, Sums, FiniteSetTheorems, TLAPS

\* The time a leaf may take on a slow machine.
USE SMTT(40), ZenonT(20)

WebhookStates == {"none", "sent", "received", "delivered", "processing", "processed", "failed"}
HookStates    == {"none", "pending", "done", "failed"}
GatewayStates == {"none", "open", "paid", "declined", "cancelled", "refunded"}
Allowances    == {"none", "in", "out"}
Postings      == [received : Nat, applied : Nat, settled : BOOLEAN, returned : {0, 1}]
Counted       == {"succeeded", "refunded"}
Collected     == {"paid", "refunded"}

Types ==
  /\ kind \in [Payments -> Kinds \cup {NoKind}]
  /\ status \in [Payments -> Statuses]
  /\ allowance \in [Payments -> Allowances]
  /\ gateway \in [Payments -> GatewayStates]
  /\ webhook \in [Payments -> [state : WebhookStates, tries : 0 .. MaxWebhookTries]]
  /\ hook \in [Payments -> [state : HookStates, tries : 0 .. MaxHookTries]]
  /\ journal \in [Payments -> Postings]
  /\ wallet \in Int
  /\ flow \in [Payments -> {"open", "reopened", "finished"}]
  /\ superseded \subseteq Payments
  /\ session = [s \in Sessions |-> session[s]]
  /\ failures \in 0 .. MaxFailures

\* What the rows of a payment say of each other: k is its kind, st its status,
\* al its allowance row, gw the transaction at the gateway, wh and hk the states
\* of the webhook and hook rows, j the postings.
Sound(k, st, al, gw, wh, hk, j) ==
  /\ k.provider # "wallet" =>
       /\ al # "out"
       /\ st \in Live \cup {"draft", "succeeded"} => al = "in"
       /\ st \in Unpaid => al = "none"
       /\ st \in Counted => gw \in Collected
  /\ k.provider = "wallet" => gw = "none" /\ wh = "none" /\ j.returned = 0 /\ k.purpose # "topup"
  /\ st \in {"none", "draft", "awaiting_confirmation"} => gw = "none"
  /\ st = "none" => wh = "none"
  /\ hk # "none" => st \in Counted
  /\ j.received = IF st = "succeeded" THEN 1 ELSE 0
  /\ st \notin Counted => j.applied = 0
  /\ st # "refunded" => j.returned = 0
  /\ k.purpose = "topup" => j.applied + j.returned <= 1

RowSound(p) == Sound(kind[p], status[p], allowance[p], gateway[p], webhook[p].state, hook[p].state, journal[p])

\* What a session with record r relies on when it goes on with payment p.
Relies(r, p, k, st, al, gw) ==
  /\ r.pc \in SessionPcs /\ {"pc", "p"} \subseteq DOMAIN r /\ r.p = p
  /\ st = "none" => r.pc \in {"create", "release"}
  /\ r.pc = "create" => st = "none" /\ (k.provider # "wallet" => al = "in")
  /\ r.pc = "submit" => st \in {"draft", "expired"}
  /\ r.pc = "release" => k.provider = "wallet" \/ st \in Unpaid \cup {"none"}
  /\ r.pc \in {"reserve", "debit", "debiting"} => k.provider = "wallet"
  /\ r.pc = "debiting" => st = "awaiting_confirmation"
  /\ r.pc \in {"checkout", "acknowledge", "verify", "processed", "retry", "apply"} => k.provider # "wallet"
  /\ r.pc \in {"verify", "apply", "ensure", "run", "post", "mark"} =>
       "source" \in DOMAIN r /\ (r.source = "worker" => k.provider # "wallet")
  /\ r.pc = "apply" =>
       /\ r.target \in {"succeeded", "failed", "abandoned", "pending"}
       /\ r.target = "succeeded" => gw \in Collected
  /\ r.pc \in {"ensure", "run", "post", "mark"} => st \in Counted
  /\ r.pc = "post" => k.purpose # "topup"

\* Two sessions on one payment: nobody else is there while it is created, and
\* one of them at most submits it, or debits it.
Apart(r, q) ==
  /\ r.pc # "create" /\ q.pc # "create"
  /\ ~(r.pc = "submit" /\ q.pc = "submit")
  /\ ~(r.pc = "debiting" /\ q.pc = "debiting")

Busy(s)  == session[s] # Idle
On(s, p) == Busy(s) /\ session[s].p = p

SessionsSound ==
  \A s \in Sessions : Busy(s) =>
    \E p \in Payments : Relies(session[s], p, kind[p], status[p], allowance[p], gateway[p])

SessionsApart ==
  \A s, t \in Sessions : \A p \in Payments :
    s # t /\ On(s, p) /\ On(t, p) => Apart(session[s], session[t])

Inv == Types /\ (\A p \in Payments : RowSound(p)) /\ SessionsSound /\ SessionsApart /\ WalletExplained

-----------------------------------------------------------------------------
(* How a step of one session on one payment keeps the invariant.           *)

\* The rows of every other payment are left alone.
Elsewhere(p) ==
  \A q \in Payments \ {p} :
    /\ kind'[q] = kind[q] /\ status'[q] = status[q] /\ allowance'[q] = allowance[q]
    /\ gateway'[q] = gateway[q] /\ webhook'[q] = webhook[q] /\ hook'[q] = hook[q]
    /\ journal'[q] = journal[q]

\* A payment leaves an integer in the wallet.
LEMMA EffectIsInt ==
  ASSUME Types, NEW p \in Payments PROVE Effect(p) \in Int
<1>1. journal[p].returned \in Int /\ journal[p].applied \in Int
  BY DEF Types, Postings
<1> QED BY <1>1 DEF Effect

LEMMA RowsKept ==
  ASSUME PaymentAssumption, Inv, Types', NEW p \in Payments, Elsewhere(p), RowSound(p)',
         wallet' - wallet = Effect(p)' - Effect(p)
  PROVE  (\A q \in Payments : RowSound(q))' /\ WalletExplained'
<1>1. \A q \in Payments \ {p} : RowSound(q)'
  BY DEF Inv, Elsewhere, RowSound
<1> DEFINE f == [q \in Payments |-> Effect(q)]
           g == [q \in Payments |-> Effect(q)']
           rest == Payments \ {p}
<1>2. Types /\ WalletExplained /\ IsFiniteSet(Payments) /\ IsFiniteSet(rest)
  BY FS_Subset DEF Inv, PaymentAssumption
<1>3. \A q \in rest : Effect(q)' = Effect(q)
  BY DEF Elsewhere, Effect, Provider, Purpose
<1>4. \A q \in Payments : f[q] \in Int
  BY <1>2, EffectIsInt
<1>5. \A q \in Payments : g[q] \in Int
  <2>1. Effect(p)' \in Int
    <3>1. journal'[p].returned \in Int /\ journal'[p].applied \in Int
      BY DEF Types, Postings
    <3> QED BY <3>1 DEF Effect
  <2> QED BY <1>3, <1>4, <2>1
<1>6. f[p] = Effect(p) /\ g[p] = Effect(p)' /\ \A q \in rest : g[q] = f[q] /\ f[q] \in Int /\ g[q] \in Int
  BY <1>3, <1>4, <1>5
<1>7. /\ WalletExplained <=> wallet = OpeningBalance + SumFunctionOnSet(f, Payments)
      /\ WalletExplained' <=> wallet' = OpeningBalance + SumFunctionOnSet(g, Payments)
  BY DEF WalletExplained
<1>8. Payments \ {p} = rest
  OBVIOUS
<1> HIDE DEF f, g, rest
<1>9. SumFunctionOnSet(f, Payments) = f[p] + SumFunctionOnSet(f, rest)
  BY <1>2, <1>4, <1>8, SumRemove
<1>10. SumFunctionOnSet(g, Payments) = g[p] + SumFunctionOnSet(g, rest)
  BY <1>2, <1>5, <1>8, SumRemove
<1>11. SumFunctionOnSet(f, rest) = SumFunctionOnSet(g, rest) /\ SumFunctionOnSet(f, rest) \in Int
  BY <1>2, <1>6, SumAgree, SumInt
<1>12. WalletExplained'
  <2>1. wallet \in Int /\ wallet' \in Int /\ OpeningBalance \in Int
    BY <1>2 DEF Types, PaymentAssumption
  <2>2. f[p] \in Int /\ g[p] \in Int
    BY <1>4, <1>5
  <2> QED BY <1>2, <1>6, <1>7, <1>9, <1>10, <1>11, <2>1, <2>2
<1> QED BY <1>1, <1>12

LEMMA SessionsKept ==
  ASSUME Inv, NEW p \in Payments, Elsewhere(p), NEW s \in Sessions, NEW r,
         session' = [session EXCEPT ![s] = r],
         \A t \in Sessions \ {s} : On(t, p) => Relies(session[t], p, kind'[p], status'[p], allowance'[p], gateway'[p]),
         \/ r = Idle
         \/ /\ Relies(r, p, kind'[p], status'[p], allowance'[p], gateway'[p])
            /\ \A t \in Sessions \ {s} : On(t, p) => Apart(r, session[t])
  PROVE  SessionsSound' /\ SessionsApart'
<1>1. session'[s] = r /\ \A t \in Sessions \ {s} : session'[t] = session[t]
  BY DEF Inv, Types
<1>2. SessionsSound'
  <2> SUFFICES ASSUME NEW t \in Sessions, session'[t] # Idle
               PROVE  \E q \in Payments : Relies(session'[t], q, kind'[q], status'[q], allowance'[q], gateway'[q])
    BY DEF SessionsSound, Busy
  <2>1. CASE t = s
    BY <1>1, <2>1
  <2>2. CASE t # s
    <3>1. PICK q \in Payments : Relies(session[t], q, kind[q], status[q], allowance[q], gateway[q])
      BY <1>1, <2>2 DEF Inv, SessionsSound, Busy
    <3>2. CASE q = p
      <4>1. On(t, p)
        BY <1>1, <2>2, <3>1, <3>2 DEF On, Busy, Relies
      <4> QED BY <1>1, <2>2, <4>1
    <3>3. CASE q # p
      BY <1>1, <2>2, <3>1, <3>3 DEF Elsewhere
    <3> QED BY <3>2, <3>3
  <2> QED BY <2>1, <2>2
<1>3. SessionsApart'
  <2> SUFFICES ASSUME NEW t \in Sessions, NEW u \in Sessions, NEW q \in Payments, t # u,
                      session'[t] # Idle, session'[t].p = q, session'[u] # Idle, session'[u].p = q
               PROVE  Apart(session'[t], session'[u])
    BY DEF SessionsApart, On, Busy
  <2>1. \A a, b : Apart(a, b) => Apart(b, a)
    BY DEF Apart
  <2>2. r # Idle => r.p = p
    BY DEF Relies
  <2>3. CASE t # s /\ u # s
    BY <1>1, <2>3 DEF Inv, SessionsApart, On, Busy
  <2>4. CASE t = s
    BY <1>1, <2>2, <2>4 DEF On, Busy
  <2>5. CASE u = s
    BY <1>1, <2>1, <2>2, <2>5 DEF On, Busy
  <2> QED BY <2>3, <2>4, <2>5
<1> QED BY <1>2, <1>3

\* The status moves along the lifecycle, or a wallet payment is debited.
Onward(st, to) ==
  \/ to = st
  \/ st \in DOMAIN Successors /\ to \in Successors[st]
  \/ st = "awaiting_confirmation" /\ to = "succeeded"

\* A session on the payment does not notice, unless it was about to take the
\* same step.
LEMMA ReliesOnward ==
  ASSUME NEW q, NEW p, NEW k, NEW st, NEW al, NEW gw, NEW to, NEW al2, NEW gw2,
         Relies(q, p, k, st, al, gw), q.pc # "create",
         Onward(st, to), gw \in Collected => gw2 \in Collected,
         to = st \/ q.pc # "debiting",
         to = st \/ to = "expired" \/ q.pc # "submit"
  PROVE  Relies(q, p, k, to, al2, gw2)
<1>1. CASE to = st
  BY <1>1 DEF Relies
<1>2. CASE to # st
  <2>1. /\ to # "none"
        /\ st \in {"draft", "awaiting_confirmation", "initialized", "pending", "succeeded"}
        /\ st = "succeeded" => to = "refunded"
        /\ st # "draft" => to # "draft"
        /\ to # "awaiting_confirmation" \/ st = "draft"
    BY <1>2 DEF Onward, Successors
  <2>2. q.pc # "create" /\ (q.pc = "submit" => to = "expired") /\ q.pc # "debiting"
    BY <1>2
  <2> QED BY <2>1, <2>2 DEF Relies, Counted, Unpaid
<1> QED BY <1>1, <1>2

\* A record that goes on to another place keeps its fields.
LEMMA StepRecord ==
  ASSUME NEW r, {"pc", "p"} \subseteq DOMAIN r, NEW x
  PROVE  /\ [r EXCEPT !.pc = x].pc = x /\ [r EXCEPT !.pc = x].p = r.p
         /\ DOMAIN [r EXCEPT !.pc = x] = DOMAIN r
         /\ "source" \in DOMAIN r => [r EXCEPT !.pc = x].source = r.source
OBVIOUS

LEMMA GotoTypes ==
  ASSUME Types, NEW s \in Sessions, NEW r, Goto(s, r)
  PROVE  session' = [t \in Sessions |-> session'[t]]
BY DEF Types, Goto

WebhookRows == [state : WebhookStates, tries : 0 .. MaxWebhookTries]
HookRows    == [state : HookStates, tries : 0 .. MaxHookTries]

\* The step gives payment p these rows and leaves every other payment alone.
Rows(p, k, st, al, gw, wh, hk, j) ==
  /\ kind' = [kind EXCEPT ![p] = k] /\ status' = [status EXCEPT ![p] = st]
  /\ allowance' = [allowance EXCEPT ![p] = al] /\ gateway' = [gateway EXCEPT ![p] = gw]
  /\ webhook' = [webhook EXCEPT ![p] = wh] /\ hook' = [hook EXCEPT ![p] = hk]
  /\ journal' = [journal EXCEPT ![p] = j]

\* The web flow and the bound on failures.
WebTypes == /\ flow \in [Payments -> {"open", "reopened", "finished"}]
            /\ superseded \subseteq Payments
            /\ failures \in 0 .. MaxFailures

EffectOf(k, st, j) == IF k.provider = "wallet" THEN IF st = "succeeded" THEN -1 ELSE 0
                      ELSE j.returned + IF k.purpose = "topup" THEN j.applied ELSE 0

LEMMA RowsKeep ==
  ASSUME PaymentAssumption, Inv, WebTypes', session' = [s \in Sessions |-> session'[s]], wallet' \in Int,
         NEW p \in Payments, NEW k \in Kinds \cup {NoKind}, NEW st \in Statuses, NEW al \in Allowances,
         NEW gw \in GatewayStates, NEW wh \in WebhookRows, NEW hk \in HookRows, NEW j \in Postings,
         Rows(p, k, st, al, gw, wh, hk, j), Sound(k, st, al, gw, wh.state, hk.state, j),
         wallet' - wallet = EffectOf(k, st, j) - EffectOf(kind[p], status[p], journal[p])
  PROVE  /\ Types' /\ (\A q \in Payments : RowSound(q))' /\ WalletExplained'
         /\ Elsewhere(p) /\ kind'[p] = k /\ status'[p] = st /\ allowance'[p] = al /\ gateway'[p] = gw
<1>1. Types
  BY DEF Inv
<1>2. /\ kind' \in [Payments -> Kinds \cup {NoKind}] /\ kind'[p] = k
      /\ status' \in [Payments -> Statuses] /\ status'[p] = st
      /\ allowance' \in [Payments -> Allowances] /\ allowance'[p] = al
      /\ gateway' \in [Payments -> GatewayStates] /\ gateway'[p] = gw
  BY <1>1 DEF Rows, Types
<1>3. /\ webhook' \in [Payments -> WebhookRows] /\ webhook'[p] = wh
      /\ hook' \in [Payments -> HookRows] /\ hook'[p] = hk
      /\ journal' \in [Payments -> Postings] /\ journal'[p] = j
  BY <1>1 DEF Rows, Types, WebhookRows, HookRows
<1>4. Types'
  BY <1>2, <1>3 DEF Types, WebTypes, WebhookRows, HookRows
<1>5. Elsewhere(p)
  BY <1>1 DEF Rows, Types, Elsewhere
<1>6. RowSound(p)'
  BY <1>2, <1>3 DEF RowSound
<1>7. Effect(p)' = EffectOf(k, st, j) /\ Effect(p) = EffectOf(kind[p], status[p], journal[p])
  BY <1>2, <1>3 DEF Effect, EffectOf, Provider, Purpose
<1>8. (\A q \in Payments : RowSound(q))' /\ WalletExplained'
  BY <1>4, <1>5, <1>6, <1>7, RowsKept
<1> QED BY <1>2, <1>4, <1>5, <1>8

\* The general step: payment p gets these rows and session s the record r.
LEMMA Keep ==
  ASSUME PaymentAssumption, Inv, WebTypes', wallet' \in Int, NEW s \in Sessions, NEW r, Goto(s, r),
         NEW p \in Payments, NEW k \in Kinds \cup {NoKind}, NEW st \in Statuses, NEW al \in Allowances,
         NEW gw \in GatewayStates, NEW wh \in WebhookRows, NEW hk \in HookRows, NEW j \in Postings,
         Rows(p, k, st, al, gw, wh, hk, j), Sound(k, st, al, gw, wh.state, hk.state, j),
         wallet' - wallet = EffectOf(k, st, j) - EffectOf(kind[p], status[p], journal[p]),
         \A t \in Sessions \ {s} : On(t, p) => Relies(session[t], p, k, st, al, gw),
         \/ r = Idle
         \/ /\ Relies(r, p, k, st, al, gw)
            /\ \A t \in Sessions \ {s} : On(t, p) => Apart(r, session[t])
  PROVE  Inv'
<1>1. Types
  BY DEF Inv
<1>2. session' = [t \in Sessions |-> session'[t]]
  BY <1>1, GotoTypes
<1>3. /\ Types' /\ (\A q \in Payments : RowSound(q))' /\ WalletExplained'
      /\ Elsewhere(p) /\ kind'[p] = k /\ status'[p] = st /\ allowance'[p] = al /\ gateway'[p] = gw
  BY <1>2, RowsKeep
<1>4. session' = [session EXCEPT ![s] = r]
  BY DEF Goto
<1>5. /\ \A t \in Sessions \ {s} : On(t, p) => Relies(session[t], p, kind'[p], status'[p], allowance'[p], gateway'[p])
      /\ \/ r = Idle
         \/ /\ Relies(r, p, kind'[p], status'[p], allowance'[p], gateway'[p])
            /\ \A t \in Sessions \ {s} : On(t, p) => Apart(r, session[t])
  BY <1>3
<1>6. SessionsSound' /\ SessionsApart'
  BY <1>3, <1>4, <1>5, SessionsKept
<1> QED BY <1>3, <1>6 DEF Inv

\* The rows of payment p as they are.
LEMMA RowsNow ==
  ASSUME Inv, NEW p \in Payments
  PROVE  /\ kind[p] \in Kinds \cup {NoKind} /\ status[p] \in Statuses /\ allowance[p] \in Allowances
         /\ gateway[p] \in GatewayStates /\ webhook[p] \in WebhookRows /\ hook[p] \in HookRows
         /\ journal[p] \in Postings /\ wallet \in Int
         /\ Sound(kind[p], status[p], allowance[p], gateway[p], webhook[p].state, hook[p].state, journal[p])
         /\ WebTypes
         /\ kind = [kind EXCEPT ![p] = kind[p]] /\ status = [status EXCEPT ![p] = status[p]]
         /\ allowance = [allowance EXCEPT ![p] = allowance[p]] /\ gateway = [gateway EXCEPT ![p] = gateway[p]]
         /\ webhook = [webhook EXCEPT ![p] = webhook[p]] /\ hook = [hook EXCEPT ![p] = hook[p]]
         /\ journal = [journal EXCEPT ![p] = journal[p]]
<1>1. Types /\ RowSound(p)
  BY DEF Inv
<1>2. /\ kind[p] \in Kinds \cup {NoKind} /\ status[p] \in Statuses /\ allowance[p] \in Allowances
      /\ gateway[p] \in GatewayStates /\ webhook[p] \in WebhookRows /\ hook[p] \in HookRows
      /\ journal[p] \in Postings /\ wallet \in Int /\ WebTypes
  BY <1>1 DEF Types, WebTypes, WebhookRows, HookRows
<1>3. /\ kind = [kind EXCEPT ![p] = kind[p]] /\ status = [status EXCEPT ![p] = status[p]]
      /\ allowance = [allowance EXCEPT ![p] = allowance[p]] /\ gateway = [gateway EXCEPT ![p] = gateway[p]]
  BY <1>1 DEF Types
<1>4. /\ webhook = [webhook EXCEPT ![p] = webhook[p]] /\ hook = [hook EXCEPT ![p] = hook[p]]
      /\ journal = [journal EXCEPT ![p] = journal[p]]
  BY <1>1 DEF Types
<1> QED BY <1>1, <1>2, <1>3, <1>4 DEF RowSound

LEMMA OtherRelies ==
  ASSUME Inv, NEW p \in Payments, NEW t \in Sessions, On(t, p)
  PROVE  Relies(session[t], p, kind[p], status[p], allowance[p], gateway[p])
<1>1. PICK q \in Payments : Relies(session[t], q, kind[q], status[q], allowance[q], gateway[q])
  BY DEF Inv, SessionsSound, On
<1>2. q = p
  BY <1>1 DEF On, Relies
<1> QED BY <1>1, <1>2

\* A session that is not idle works on a payment.
LEMMA WorksOn ==
  ASSUME Inv, NEW s \in Sessions, session[s].pc # "idle"
  PROVE  \E p \in Payments : /\ On(s, p) /\ session[s].p = p
                             /\ Relies(session[s], p, kind[p], status[p], allowance[p], gateway[p])
<1>1. Busy(s)
  BY DEF Busy, Idle
<1>2. PICK p \in Payments : Relies(session[s], p, kind[p], status[p], allowance[p], gateway[p])
  BY <1>1 DEF Inv, SessionsSound
<1> QED BY <1>1, <1>2 DEF On, Relies

LEMMA WebStays == ASSUME Inv, UNCHANGED <<flow, superseded, failures>> PROVE WebTypes'
BY DEF Inv, Types, WebTypes

\* Nobody minds a session that neither creates, submits nor debits.
LEMMA Joins ==
  ASSUME Inv, NEW p \in Payments, NEW s \in Sessions, status[p] # "none" \/ On(s, p),
         NEW r, r.pc \notin {"create", "submit", "debiting"}
  PROVE  \A t \in Sessions \ {s} : On(t, p) => Apart(r, session[t])
<1> SUFFICES ASSUME NEW t \in Sessions \ {s}, On(t, p) PROVE session[t].pc # "create"
  BY DEF Apart
<1>1. CASE status[p] # "none"
  BY <1>1, OtherRelies DEF Relies
<1>2. CASE On(s, p)
  BY <1>2 DEF Inv, SessionsApart, Apart
<1> QED BY <1>1, <1>2

\* A step that leaves what sessions look at alone.
LEMMA Aside ==
  ASSUME PaymentAssumption, Inv, WebTypes', NEW s \in Sessions, NEW p \in Payments, NEW r, Goto(s, r),
         UNCHANGED <<kind, status, allowance, gateway, journal, wallet>>,
         NEW wh \in WebhookRows, webhook' = [webhook EXCEPT ![p] = wh],
         NEW hk \in HookRows, hook' = [hook EXCEPT ![p] = hk],
         Sound(kind[p], status[p], allowance[p], gateway[p], wh.state, hk.state, journal[p]),
         \/ r = Idle
         \/ /\ Relies(r, p, kind[p], status[p], allowance[p], gateway[p])
            /\ \A t \in Sessions \ {s} : On(t, p) => Apart(r, session[t])
  PROVE  Inv'
<1> DEFINE k == kind[p]
           st == status[p]
           al == allowance[p]
           gw == gateway[p]
           j == journal[p]
<1>1. /\ k \in Kinds \cup {NoKind} /\ st \in Statuses /\ al \in Allowances /\ gw \in GatewayStates
      /\ j \in Postings /\ wallet \in Int
      /\ kind = [kind EXCEPT ![p] = k] /\ status = [status EXCEPT ![p] = st]
      /\ allowance = [allowance EXCEPT ![p] = al] /\ gateway = [gateway EXCEPT ![p] = gw]
      /\ journal = [journal EXCEPT ![p] = j]
  BY RowsNow
<1>2. EffectOf(k, st, j) \in Int
  BY <1>1 DEF EffectOf, Postings
<1>3. \A t \in Sessions \ {s} : On(t, p) => Relies(session[t], p, k, st, al, gw)
  BY OtherRelies
<1>4. Rows(p, k, st, al, gw, wh, hk, j)
  BY <1>1 DEF Rows
<1>5. EffectOf(kind[p], status[p], journal[p]) = EffectOf(k, st, j)
  OBVIOUS
<1>6. /\ Sound(k, st, al, gw, wh.state, hk.state, j)
      /\ \/ r = Idle
         \/ /\ Relies(r, p, k, st, al, gw)
            /\ \A t \in Sessions \ {s} : On(t, p) => Apart(r, session[t])
  OBVIOUS
<1> HIDE DEF k, st, al, gw, j
<1>7. wallet' \in Int /\ wallet' - wallet = EffectOf(k, st, j) - EffectOf(kind[p], status[p], journal[p])
  BY <1>1, <1>2, <1>5
<1> QED BY <1>1, <1>3, <1>4, <1>6, <1>7, Keep

\* A step of the session alone.
LEMMA Goes ==
  ASSUME PaymentAssumption, Inv, WebTypes', NEW s \in Sessions, NEW p \in Payments, NEW r, Goto(s, r),
         UNCHANGED <<kind, status, allowance, gateway, webhook, hook, journal, wallet>>,
         \/ r = Idle
         \/ /\ Relies(r, p, kind[p], status[p], allowance[p], gateway[p])
            /\ r.pc \notin {"create", "submit", "debiting"}
            /\ status[p] # "none" \/ On(s, p)
  PROVE  Inv'
<1> DEFINE wh == webhook[p]
           hk == hook[p]
<1>1. /\ wh \in WebhookRows /\ webhook' = [webhook EXCEPT ![p] = wh]
      /\ hk \in HookRows /\ hook' = [hook EXCEPT ![p] = hk]
      /\ Sound(kind[p], status[p], allowance[p], gateway[p], wh.state, hk.state, journal[p])
  BY RowsNow
<1>2. \/ r = Idle
      \/ /\ Relies(r, p, kind[p], status[p], allowance[p], gateway[p])
         /\ \A t \in Sessions \ {s} : On(t, p) => Apart(r, session[t])
  BY Joins
<1> HIDE DEF wh, hk
<1> QED BY <1>1, <1>2, Aside

-----------------------------------------------------------------------------
(* The actions.                                                            *)

\* Requests and jobs that only look before they start.
LEMMA LooksFirst ==
  ASSUME PaymentAssumption, Inv, NEW s \in Sessions, NEW p \in Payments,
         Initialize(s, p) \/ Cancel(s, p) \/ ListExpirable(s, p) \/ Confirm(s, p)
  PROVE  Inv'
<1>1. PICK pc \in {"checkout", "cancel", "expire", "reserve"} :
        /\ Do(s, pc, p) /\ status[p] # "none"
        /\ pc = "reserve" => Provider(p) = "wallet"
        /\ pc = "checkout" => Provider(p) # "wallet"
  BY DEF Initialize, Cancel, ListExpirable, Confirm, Live, Expirable
<1>2. UNCHANGED <<kind, status, allowance, gateway, webhook, hook, journal, wallet>> /\ WebTypes'
  BY RowsNow DEF Initialize, Cancel, ListExpirable, Confirm, money, web, WebTypes
<1> DEFINE r == [pc |-> pc, p |-> p]
<1>3. Goto(s, r) /\ r.pc \notin {"create", "submit", "debiting"}
  BY <1>1 DEF Do
<1>4. Relies(r, p, kind[p], status[p], allowance[p], gateway[p])
  BY <1>1 DEF Relies, SessionPcs, Provider
<1> HIDE DEF r
<1> QED BY <1>1, <1>2, <1>3, <1>4, Goes

\* Those that start to verify.
LEMMA StartsToVerify ==
  ASSUME PaymentAssumption, Inv, NEW s \in Sessions, NEW p \in Payments, Poll(s, p) \/ Reconcile(s, p)
  PROVE  Inv'
<1>1. PICK source \in {"return", "api", "reconciliation"} : Verifying(s, p, source)
  BY DEF Poll, Reconcile
<1>2. UNCHANGED <<kind, status, allowance, gateway, webhook, hook, journal, wallet>> /\ WebTypes'
  BY RowsNow DEF Poll, Reconcile, money, web, WebTypes
<1> DEFINE r == [pc |-> "verify", p |-> p, source |-> source, tries |-> 0]
<1>3. Goto(s, r) /\ r.pc \notin {"create", "submit", "debiting"} /\ status[p] # "none"
  BY <1>1 DEF Verifying, Poll, Reconcile, Unresolved
<1>4. Relies(r, p, kind[p], status[p], allowance[p], gateway[p])
  BY <1>3 DEF Relies, SessionPcs, Provider, Poll, Reconcile, Unresolved
<1> HIDE DEF r
<1> QED BY <1>2, <1>3, <1>4, Goes

LEMMA RetryHookStep ==
  ASSUME PaymentAssumption, Inv, NEW s \in Sessions, NEW p \in Payments, RetryHook(s, p)
  PROVE  Inv'
<1>1. UNCHANGED <<kind, status, allowance, gateway, webhook, hook, journal, wallet>> /\ WebTypes'
  BY RowsNow DEF RetryHook, money, web, WebTypes
<1>2. status[p] \in Counted
  BY RowsNow DEF RetryHook, HookDue, Sound
<1> DEFINE r == [pc |-> "run", p |-> p, source |-> "hooks", tries |-> hook[p].tries]
<1>3. Goto(s, r) /\ r.pc \notin {"create", "submit", "debiting"} /\ status[p] # "none"
  BY <1>2 DEF RetryHook, Counted
<1>4. Relies(r, p, kind[p], status[p], allowance[p], gateway[p])
  BY <1>2 DEF Relies, SessionPcs, Counted
<1> HIDE DEF r
<1> QED BY <1>1, <1>3, <1>4, Goes

\* The webhook is taken up by a request or by the worker.
LEMMA TakesWebhook ==
  ASSUME PaymentAssumption, Inv, NEW s \in Sessions, NEW p \in Payments,
         ReceiveWebhook(s, p) \/ ClaimWebhook(s, p)
  PROVE  Inv'
<1>1. UNCHANGED <<kind, status, allowance, gateway, hook, journal, wallet>> /\ WebTypes'
  BY RowsNow DEF ReceiveWebhook, ClaimWebhook, money, web, WebTypes
<1>2. webhook[p] \in WebhookRows /\ webhook[p].state # "none"
  BY RowsNow DEF ReceiveWebhook, ClaimWebhook
<1>3. Provider(p) # "wallet" /\ status[p] # "none"
  BY <1>2, RowsNow DEF Sound, Provider
<1>4. PICK wh \in WebhookRows : webhook' = [webhook EXCEPT ![p] = wh]
  <2>1. CASE ReceiveWebhook(s, p)
    <3> DEFINE wh == [webhook[p] EXCEPT !.state = "received"]
    <3>1. wh \in WebhookRows
      BY <1>2 DEF WebhookRows, WebhookStates
    <3>2. webhook' = [webhook EXCEPT ![p] = wh]
      BY <2>1 DEF ReceiveWebhook
    <3> HIDE DEF wh
    <3> QED BY <3>1, <3>2
  <2>2. CASE ClaimWebhook(s, p)
    <3> DEFINE wh == [state |-> "processing", tries |-> webhook[p].tries + 1]
    <3>1. wh \in WebhookRows
      BY <1>2, <2>2 DEF ClaimWebhook, WebhookRows, WebhookStates, PaymentAssumption
    <3>2. webhook' = [webhook EXCEPT ![p] = wh]
      BY <2>2 DEF ClaimWebhook
    <3> HIDE DEF wh
    <3> QED BY <3>1, <3>2
  <2> QED BY <2>1, <2>2
<1>5. PICK r : /\ Goto(s, r) /\ r.pc \notin {"create", "submit", "debiting"}
               /\ Relies(r, p, kind[p], status[p], allowance[p], gateway[p])
  <2>1. CASE ReceiveWebhook(s, p)
    <3> DEFINE r == [pc |-> "acknowledge", p |-> p]
    <3>1. Goto(s, r)
      BY <2>1 DEF ReceiveWebhook, Do
    <3>2. Relies(r, p, kind[p], status[p], allowance[p], gateway[p]) /\ r.pc = "acknowledge"
      BY <1>3 DEF Relies, SessionPcs, Provider
    <3> HIDE DEF r
    <3> QED BY <3>1, <3>2
  <2>2. CASE ClaimWebhook(s, p)
    <3> DEFINE r == [pc |-> "verify", p |-> p, source |-> "worker", tries |-> webhook[p].tries]
    <3>1. Goto(s, r)
      BY <2>2 DEF ClaimWebhook
    <3>2. Relies(r, p, kind[p], status[p], allowance[p], gateway[p]) /\ r.pc = "verify"
      BY <1>3 DEF Relies, SessionPcs, Provider
    <3> HIDE DEF r
    <3> QED BY <3>1, <3>2
  <2> QED BY <2>1, <2>2
<1>6. \A t \in Sessions \ {s} : On(t, p) => Apart(r, session[t])
  BY <1>3, <1>5, Joins
<1> DEFINE hk == hook[p]
<1>7. hk \in HookRows /\ hook' = [hook EXCEPT ![p] = hk]
  BY <1>1, RowsNow
<1>8. Sound(kind[p], status[p], allowance[p], gateway[p], wh.state, hk.state, journal[p])
  BY <1>3, RowsNow DEF Sound, Provider
<1> HIDE DEF hk
<1>9. wh \in WebhookRows /\ webhook' = [webhook EXCEPT ![p] = wh]
  BY <1>4
<1>10. Goto(s, r) /\ Relies(r, p, kind[p], status[p], allowance[p], gateway[p])
  BY <1>5
<1> QED BY <1>1, <1>6, <1>7, <1>8, <1>9, <1>10, Aside

\* A new payment is named and its allowance reserved.
LEMMA DraftStep ==
  ASSUME PaymentAssumption, Inv, NEW s \in Sessions, NEW p \in Payments, Draft(s, p)
  PROVE  Inv'
<1>1. /\ UNCHANGED <<status, gateway, webhook, hook, journal, wallet>> /\ WebTypes'
      /\ Do(s, "create", p) /\ status[p] = "none" /\ allowance[p] = "none"
      /\ \A t \in Sessions : session[t] # Idle => session[t].p # p
  BY RowsNow DEF Draft, money, web, WebTypes
<1>2. PICK k \in Kinds : /\ kind' = [kind EXCEPT ![p] = k]
                         /\ allowance' = IF k.provider = "wallet" THEN allowance
                                         ELSE [allowance EXCEPT ![p] = "in"]
  BY DEF Draft
<1> DEFINE al == IF k.provider = "wallet" THEN "none" ELSE "in"
           st == status[p]
           gw == gateway[p]
           wh == webhook[p]
           hk == hook[p]
           j == journal[p]
           r == [pc |-> "create", p |-> p]
<1>3. /\ st \in Statuses /\ gw \in GatewayStates /\ wh \in WebhookRows /\ hk \in HookRows /\ j \in Postings
      /\ status' = [status EXCEPT ![p] = st] /\ gateway' = [gateway EXCEPT ![p] = gw]
      /\ webhook' = [webhook EXCEPT ![p] = wh] /\ hook' = [hook EXCEPT ![p] = hk]
      /\ journal' = [journal EXCEPT ![p] = j] /\ wallet \in Int
      /\ allowance = [allowance EXCEPT ![p] = allowance[p]]
      /\ Sound(kind[p], st, allowance[p], gw, wh.state, hk.state, j)
  BY <1>1, RowsNow
<1>4. al \in Allowances /\ k \in Kinds \cup {NoKind} /\ allowance' = [allowance EXCEPT ![p] = al]
  BY <1>1, <1>2, <1>3 DEF Allowances
<1>5. j.applied = 0 /\ j.returned = 0 /\ st = "none" /\ gw = "none" /\ wh.state = "none" /\ hk.state = "none"
  BY <1>1, <1>3 DEF Sound, Counted
<1>6. Goto(s, r) /\ Relies(r, p, k, st, al, gw)
  BY <1>1, <1>5 DEF Do, Relies, SessionPcs
<1>7. \A t \in Sessions \ {s} : ~On(t, p)
  BY <1>1 DEF On, Busy
<1>8. k.provider = "wallet" => k.purpose # "topup"
  BY DEF PaymentAssumption, AllKinds
<1>9. Sound(k, st, al, gw, wh.state, hk.state, j)
  BY <1>3, <1>5, <1>8 DEF Sound, Counted, Live, Unpaid
<1>10. EffectOf(k, st, j) = 0 /\ EffectOf(kind[p], status[p], journal[p]) = 0
  BY <1>5 DEF EffectOf
<1>11. Rows(p, k, st, al, gw, wh, hk, j)
  BY <1>2, <1>3, <1>4 DEF Rows
<1> HIDE DEF al, st, gw, wh, hk, j, r
<1>12. wallet' \in Int /\ wallet' - wallet = EffectOf(k, st, j) - EffectOf(kind[p], status[p], journal[p])
  BY <1>1, <1>3, <1>10
<1> QED BY <1>1, <1>3, <1>4, <1>6, <1>7, <1>9, <1>11, <1>12, Keep

\* A session that goes on to another place where it relies on nothing new.
LEMMA StepsOn ==
  ASSUME PaymentAssumption, Inv, WebTypes', NEW s \in Sessions, NEW p \in Payments, On(s, p),
         NEW x \in SessionPcs \ {"create", "submit", "debiting"}, Step(s, x),
         UNCHANGED <<kind, status, allowance, gateway, webhook, hook, journal, wallet>>,
         Relies([session[s] EXCEPT !.pc = x], p, kind[p], status[p], allowance[p], gateway[p])
  PROVE  Inv'
<1> DEFINE r == [session[s] EXCEPT !.pc = x]
<1>1. Goto(s, r)
  BY DEF Step
<1>2. r.pc = x
  BY OtherRelies, StepRecord DEF Relies
<1> HIDE DEF r
<1>3. Relies(r, p, kind[p], status[p], allowance[p], gateway[p])
  BY DEF r
<1> QED BY <1>1, <1>2, <1>3, Goes

\* The record's facts after such a step.
LEMMA StepRelies ==
  ASSUME NEW r, NEW p, NEW k, NEW st, NEW al, NEW gw, Relies(r, p, k, st, al, gw),
         NEW x \in SessionPcs, NEW st2, NEW al2
  PROVE  LET n == [r EXCEPT !.pc = x]
         IN  /\ n.pc = x /\ n.p = p
             /\ (x = "release" /\ (k.provider = "wallet" \/ st2 \in Unpaid \cup {"none"})) => Relies(n, p, k, st2, al2, gw)
             /\ (x \in {"debit", "debiting"} /\ k.provider = "wallet" /\ st2 = "awaiting_confirmation") => Relies(n, p, k, st2, al2, gw)
             /\ (x = "debit" /\ k.provider = "wallet" /\ st2 # "none") => Relies(n, p, k, st2, al2, gw)
             /\ (x \in {"processed", "retry"} /\ k.provider # "wallet" /\ st2 # "none") => Relies(n, p, k, st2, al2, gw)
             /\ (x \in {"claim", "refund"} /\ st2 # "none") => Relies(n, p, k, st2, al2, gw)
             /\ /\ x \in {"ensure", "run", "mark"} \/ (x = "post" /\ k.purpose # "topup")
                /\ st2 \in Counted /\ r.pc \in {"verify", "apply", "ensure", "run", "post", "mark"}
                => Relies(n, p, k, st2, al2, gw)
<1> DEFINE n == [r EXCEPT !.pc = x]
<1>1. {"pc", "p"} \subseteq DOMAIN r /\ r.p = p
  BY DEF Relies
<1>2. n.pc = x /\ n.p = p /\ DOMAIN n = DOMAIN r /\ ("source" \in DOMAIN r => n.source = r.source)
  BY <1>1, StepRecord
<1>3. r.pc \in {"verify", "apply", "ensure", "run", "post", "mark"} =>
        "source" \in DOMAIN r /\ (r.source = "worker" => k.provider # "wallet")
  BY DEF Relies
<1> HIDE DEF n
<1>4. (x = "release" /\ (k.provider = "wallet" \/ st2 \in Unpaid \cup {"none"})) => Relies(n, p, k, st2, al2, gw)
  BY <1>1, <1>2 DEF Relies
<1>5. (x \in {"debit", "debiting"} /\ k.provider = "wallet" /\ st2 = "awaiting_confirmation") => Relies(n, p, k, st2, al2, gw)
  BY <1>1, <1>2 DEF Relies
<1>6. (x = "debit" /\ k.provider = "wallet" /\ st2 # "none") => Relies(n, p, k, st2, al2, gw)
  BY <1>1, <1>2 DEF Relies
<1>7. (x \in {"processed", "retry"} /\ k.provider # "wallet" /\ st2 # "none") => Relies(n, p, k, st2, al2, gw)
  BY <1>1, <1>2 DEF Relies
<1>8. (x \in {"claim", "refund"} /\ st2 # "none") => Relies(n, p, k, st2, al2, gw)
  BY <1>1, <1>2 DEF Relies
<1>9. /\ x \in {"ensure", "run", "mark"} \/ (x = "post" /\ k.purpose # "topup")
      /\ st2 \in Counted /\ r.pc \in {"verify", "apply", "ensure", "run", "post", "mark"}
      => Relies(n, p, k, st2, al2, gw)
  BY <1>1, <1>2, <1>3 DEF Relies, Counted
<1> QED BY <1>2, <1>4, <1>5, <1>6, <1>7, <1>8, <1>9 DEF n

\* The payment's status moves without success; its reservation goes when it
\* ends unpaid.
LEMMA Moved ==
  ASSUME PaymentAssumption, Inv, WebTypes', NEW s \in Sessions, NEW p \in Payments, On(s, p),
         NEW to \in {"awaiting_confirmation", "pending", "failed", "abandoned", "expired"},
         Moves(p, to), Transition(p, to), UNCHANGED <<kind, gateway, webhook, hook, wallet>>,
         ~Locked(p), to = "expired" \/ status[p] # "draft" \/ session[s].pc = "submit",
         NEW r, Goto(s, r),
         \/ r = Idle
         \/ /\ \A al : Relies(r, p, kind[p], to, al, gateway[p])
            /\ r.pc \notin {"create", "submit", "debiting"}
  PROVE  Inv'
<1> DEFINE k == kind[p]
           st == status[p]
           al == IF Releases(to) /\ allowance[p] = "in" THEN "none" ELSE allowance[p]
           gw == gateway[p]
           wh == webhook[p]
           hk == hook[p]
           j == journal[p]
<1>1. /\ k \in Kinds \cup {NoKind} /\ allowance[p] \in Allowances /\ gw \in GatewayStates
      /\ wh \in WebhookRows /\ hk \in HookRows /\ j \in Postings /\ wallet \in Int
      /\ kind' = [kind EXCEPT ![p] = k] /\ gateway' = [gateway EXCEPT ![p] = gw]
      /\ webhook' = [webhook EXCEPT ![p] = wh] /\ hook' = [hook EXCEPT ![p] = hk]
      /\ journal = [journal EXCEPT ![p] = j] /\ allowance = [allowance EXCEPT ![p] = allowance[p]]
      /\ Sound(k, st, allowance[p], gw, wh.state, hk.state, j)
  BY RowsNow
<1>2. /\ st \in {"draft", "awaiting_confirmation", "initialized", "pending"} /\ Onward(st, to)
      /\ to = "awaiting_confirmation" => st = "draft"
  BY DEF Moves, CanTransition, Successors, Onward
<1>3. al \in Allowances /\ allowance' = [allowance EXCEPT ![p] = al]
  BY <1>1 DEF Transition, Allowances
<1>4. status' = [status EXCEPT ![p] = to] /\ journal' = [journal EXCEPT ![p] = j] /\ to \in Statuses
  BY <1>1 DEF Transition, Statuses, Live, Unpaid
<1>5. Sound(k, to, al, gw, wh.state, hk.state, j)
  BY <1>1, <1>2 DEF Sound, Counted, Live, Unpaid, Releases, Allowances
<1>6. EffectOf(k, to, j) = 0 /\ EffectOf(k, st, j) = 0
  BY <1>1, <1>2 DEF Sound, Counted, EffectOf
<1>7. ASSUME NEW t \in Sessions \ {s}, On(t, p)
      PROVE  Relies(session[t], p, k, to, al, gw)
  <2>1. Relies(session[t], p, k, st, allowance[p], gw)
    BY <1>7, OtherRelies
  <2>2. Apart(session[s], session[t])
    BY <1>7 DEF Inv, SessionsApart
  <2>3. session[t].pc # "debiting"
    BY <1>7 DEF Locked, At, On
  <2>4. session[t].pc # "create" /\ (session[s].pc = "submit" => session[t].pc # "submit")
    BY <2>2 DEF Apart
  <2>5. to = "expired" \/ session[t].pc # "submit"
    BY <1>2, <2>1, <2>4 DEF Relies
  <2> HIDE DEF k, st, al, gw
  <2> QED BY <1>2, <2>1, <2>3, <2>4, <2>5, ReliesOnward
<1>8. \A t \in Sessions \ {s} : r # Idle /\ On(t, p) => Apart(r, session[t])
  BY Joins
<1>9. Rows(p, k, to, al, gw, wh, hk, j)
  BY <1>1, <1>3, <1>4 DEF Rows
<1>10. r = Idle \/ (Relies(r, p, k, to, al, gw) /\ \A t \in Sessions \ {s} : On(t, p) => Apart(r, session[t]))
  BY <1>8
<1>11. wallet' \in Int /\ wallet' - wallet = EffectOf(k, to, j) - EffectOf(kind[p], status[p], journal[p])
  BY <1>1, <1>6
<1> HIDE DEF k, st, al, gw, wh, hk, j
<1> QED BY <1>1, <1>3, <1>4, <1>5, <1>7, <1>9, <1>10, <1>11, Keep

LEMMA CreateStep ==
  ASSUME PaymentAssumption, Inv, NEW s \in Sessions, Create(s)
  PROVE  Inv'
<1>0. session[s].pc = "create" /\ WebTypes'
  BY WebStays DEF Create, At, web
<1>1. PICK p \in Payments :
        /\ On(s, p) /\ Relies(session[s], p, kind[p], status[p], allowance[p], gateway[p])
        /\ \A t \in Sessions \ {s} : ~On(t, p)
  <2>1. PICK p \in Payments :
          On(s, p) /\ Relies(session[s], p, kind[p], status[p], allowance[p], gateway[p])
    BY <1>0, WorksOn
  <2> QED BY <1>0, <2>1 DEF Inv, SessionsApart, Apart
<1>2. session[s].p = p /\ status[p] = "none" /\ (Provider(p) # "wallet" => allowance[p] = "in")
  BY <1>0, <1>1 DEF On, Relies, Provider
<1>3. CASE Step(s, "release") /\ UNCHANGED status
  <2>1. UNCHANGED <<kind, status, allowance, gateway, webhook, hook, journal, wallet>>
    BY <1>3 DEF Create, money
  <2>2. Relies([session[s] EXCEPT !.pc = "release"], p, kind[p], status[p], allowance[p], gateway[p])
    <3>1. "release" \in SessionPcs /\ status[p] \in Unpaid \cup {"none"}
      BY <1>2 DEF SessionPcs
    <3> QED BY <1>1, <3>1, StepRelies
  <2>3. "release" \in SessionPcs \ {"create", "submit", "debiting"}
    BY DEF SessionPcs
  <2> QED BY <1>0, <1>1, <1>3, <2>1, <2>2, <2>3, StepsOn
<1>4. CASE status' = [status EXCEPT ![p] = "draft"] /\ Step(s, "submit")
  <2> DEFINE k == kind[p]
             al == allowance[p]
             gw == gateway[p]
             wh == webhook[p]
             hk == hook[p]
             j == journal[p]
             r == [session[s] EXCEPT !.pc = "submit"]
  <2>1. UNCHANGED <<kind, allowance, gateway, webhook, hook, journal, wallet>>
    BY DEF Create, money
  <2>2. /\ k \in Kinds \cup {NoKind} /\ al \in Allowances /\ gw \in GatewayStates
        /\ wh \in WebhookRows /\ hk \in HookRows /\ j \in Postings /\ wallet \in Int
        /\ kind' = [kind EXCEPT ![p] = k] /\ allowance' = [allowance EXCEPT ![p] = al]
        /\ gateway' = [gateway EXCEPT ![p] = gw] /\ webhook' = [webhook EXCEPT ![p] = wh]
        /\ hook' = [hook EXCEPT ![p] = hk] /\ journal' = [journal EXCEPT ![p] = j]
        /\ Sound(k, "none", al, gw, wh.state, hk.state, j)
    BY <1>2, <2>1, RowsNow
  <2>3. "draft" \in Statuses /\ Rows(p, k, "draft", al, gw, wh, hk, j)
    BY <1>4, <2>2 DEF Rows, Statuses
  <2>4. Sound(k, "draft", al, gw, wh.state, hk.state, j)
    BY <1>2, <2>2 DEF Sound, Counted, Live, Unpaid, Provider
  <2>5. EffectOf(k, "draft", j) = 0 /\ EffectOf(k, "none", j) = 0
    BY <2>2 DEF Sound, Counted, EffectOf
  <2>6. Goto(s, r) /\ Relies(r, p, k, "draft", al, gw)
    <3>1. {"pc", "p"} \subseteq DOMAIN session[s] /\ session[s].p = p
      BY <1>1 DEF Relies
    <3>2. {"pc", "p"} \subseteq DOMAIN r /\ r.pc = "submit" /\ r.p = p
      BY <3>1, StepRecord
    <3>3. Goto(s, r)
      BY <1>4 DEF Step
    <3> HIDE DEF r
    <3> QED BY <3>2, <3>3 DEF Relies, SessionPcs
  <2>7. wallet' \in Int /\ wallet' - wallet = EffectOf(k, "draft", j) - EffectOf(kind[p], status[p], journal[p])
    BY <1>2, <2>1, <2>2, <2>5
  <2>8. /\ \A t \in Sessions \ {s} : On(t, p) => Relies(session[t], p, k, "draft", al, gw)
        /\ Relies(r, p, k, "draft", al, gw) /\ \A t \in Sessions \ {s} : On(t, p) => Apart(r, session[t])
    BY <1>1, <2>6
  <2>9. WebTypes'
    BY <1>0
  <2> HIDE DEF k, al, gw, wh, hk, j, r
  <2> QED BY <2>2, <2>3, <2>4, <2>6, <2>7, <2>8, <2>9, Keep
<1> QED BY <1>2, <1>3, <1>4 DEF Create

LEMMA SubmitStep ==
  ASSUME PaymentAssumption, Inv, NEW s \in Sessions, Submit(s)
  PROVE  Inv'
<1>0. session[s].pc = "submit" /\ WebTypes'
  BY WebStays DEF Submit, At, web
<1>1. PICK p \in Payments :
        On(s, p) /\ Relies(session[s], p, kind[p], status[p], allowance[p], gateway[p])
  BY <1>0, WorksOn
<1>2. session[s].p = p /\ status[p] \in {"draft", "expired"}
  BY <1>0, <1>1 DEF On, Relies
<1>3. CASE Moves(p, "awaiting_confirmation")
  <2>1. Transition(p, "awaiting_confirmation") /\ Goto(s, Idle)
    BY <1>2, <1>3 DEF Submit
  <2>2. status[p] = "draft"
    BY <1>2, <1>3 DEF Moves, CanTransition, Successors
  <2>3. ~Locked(p)
    <3>1. ASSUME NEW t \in Sessions, session[t].pc = "debiting", session[t].p = p PROVE FALSE
      <4>1. On(t, p)
        BY <3>1 DEF On, Busy, Idle
      <4> QED BY <2>2, <3>1, <4>1, OtherRelies DEF Relies
    <3> QED BY <3>1 DEF Locked, At
  <2>4. UNCHANGED <<kind, gateway, webhook, hook, wallet>>
    BY DEF Submit
  <2> QED BY <1>0, <1>1, <1>3, <2>1, <2>3, <2>4, Moved
<1>4. CASE ~Moves(p, "awaiting_confirmation")
  <2>1. Step(s, "release") /\ UNCHANGED <<kind, status, allowance, gateway, webhook, hook, journal, wallet>>
    BY <1>2, <1>4 DEF Submit
  <2>2. status[p] = "expired"
    BY <1>2, <1>4 DEF Moves, CanTransition, Successors
  <2>3. "release" \in SessionPcs \ {"create", "submit", "debiting"} /\ status[p] \in Unpaid \cup {"none"}
    BY <2>2 DEF SessionPcs, Unpaid
  <2>4. Relies([session[s] EXCEPT !.pc = "release"], p, kind[p], status[p], allowance[p], gateway[p])
    BY <1>1, <2>3, StepRelies
  <2> QED BY <1>0, <1>1, <2>1, <2>3, <2>4, StepsOn
<1> QED BY <1>3, <1>4

\* The reservation is given back, or taken for a wallet payment.
LEMMA Reserves ==
  ASSUME PaymentAssumption, Inv, WebTypes', NEW s \in Sessions, NEW p \in Payments, On(s, p),
         NEW al \in Allowances, allowance' = [allowance EXCEPT ![p] = al],
         UNCHANGED <<kind, status, gateway, webhook, hook, journal, wallet>>,
         Provider(p) = "wallet" \/ (al = "none" /\ status[p] \in Unpaid \cup {"none"}),
         NEW r, Goto(s, r),
         r = Idle \/ (Relies(r, p, kind[p], status[p], al, gateway[p]) /\ r.pc \notin {"create", "submit", "debiting"})
  PROVE  Inv'
<1> DEFINE k == kind[p]
           st == status[p]
           gw == gateway[p]
           wh == webhook[p]
           hk == hook[p]
           j == journal[p]
<1>1. /\ k \in Kinds \cup {NoKind} /\ st \in Statuses /\ gw \in GatewayStates
      /\ wh \in WebhookRows /\ hk \in HookRows /\ j \in Postings /\ wallet \in Int
      /\ kind' = [kind EXCEPT ![p] = k] /\ status' = [status EXCEPT ![p] = st]
      /\ gateway' = [gateway EXCEPT ![p] = gw] /\ webhook' = [webhook EXCEPT ![p] = wh]
      /\ hook' = [hook EXCEPT ![p] = hk] /\ journal' = [journal EXCEPT ![p] = j]
      /\ Sound(k, st, allowance[p], gw, wh.state, hk.state, j)
  BY RowsNow
<1>2. Rows(p, k, st, al, gw, wh, hk, j)
  BY <1>1 DEF Rows
<1>3. Sound(k, st, al, gw, wh.state, hk.state, j)
  BY <1>1 DEF Sound, Live, Unpaid, Counted, Provider
<1>4. ASSUME NEW t \in Sessions \ {s}, On(t, p)
      PROVE  Relies(session[t], p, k, st, al, gw)
  <2>1. Relies(session[t], p, k, st, allowance[p], gw)
    BY <1>4, OtherRelies
  <2>2. session[t].pc # "create"
    BY <1>4 DEF Inv, SessionsApart, Apart
  <2> QED BY <2>1, <2>2, ReliesOnward DEF Onward
<1>5. r = Idle \/ (Relies(r, p, k, st, al, gw) /\ \A t \in Sessions \ {s} : On(t, p) => Apart(r, session[t]))
  BY Joins
<1>6. EffectOf(k, st, j) \in Int
  BY <1>1 DEF EffectOf, Postings
<1>7. EffectOf(kind[p], status[p], journal[p]) = EffectOf(k, st, j)
  OBVIOUS
<1> HIDE DEF k, st, gw, wh, hk, j
<1>8. wallet' \in Int /\ wallet' - wallet = EffectOf(k, st, j) - EffectOf(kind[p], status[p], journal[p])
  BY <1>1, <1>6, <1>7
<1> QED BY <1>1, <1>2, <1>3, <1>4, <1>5, <1>8, Keep

LEMMA ReleaseStep ==
  ASSUME PaymentAssumption, Inv, NEW s \in Sessions, Release(s)
  PROVE  Inv'
<1>0. session[s].pc = "release" /\ WebTypes'
  BY WebStays DEF Release, At, web
<1>1. PICK p \in Payments :
        On(s, p) /\ Relies(session[s], p, kind[p], status[p], allowance[p], gateway[p])
  BY <1>0, WorksOn
<1>2. /\ allowance' = [allowance EXCEPT ![p] = "none"] /\ Goto(s, Idle)
      /\ UNCHANGED <<kind, status, gateway, webhook, hook, journal, wallet>>
  BY <1>1 DEF Release, On, money
<1>3. Provider(p) = "wallet" \/ status[p] \in Unpaid \cup {"none"}
  BY <1>0, <1>1 DEF Relies, Provider
<1>4. "none" \in Allowances
  BY DEF Allowances
<1> QED BY <1>0, <1>1, <1>2, <1>3, <1>4, Reserves

LEMMA ReserveOutStep ==
  ASSUME PaymentAssumption, Inv, NEW s \in Sessions, ReserveOut(s)
  PROVE  Inv'
<1>0. session[s].pc = "reserve" /\ WebTypes'
  BY WebStays DEF ReserveOut, At, web
<1>1. PICK p \in Payments :
        On(s, p) /\ Relies(session[s], p, kind[p], status[p], allowance[p], gateway[p])
  BY <1>0, WorksOn
<1>2. session[s].p = p /\ Provider(p) = "wallet" /\ status[p] # "none"
  BY <1>0, <1>1 DEF On, Relies, Provider
<1>3. UNCHANGED <<kind, status, gateway, webhook, hook, journal, wallet>>
  BY DEF ReserveOut, money
<1>4. CASE allowance' = [allowance EXCEPT ![p] = "out"] /\ Step(s, "debit")
  <2> DEFINE r == [session[s] EXCEPT !.pc = "debit"]
  <2>1. Goto(s, r) /\ "out" \in Allowances /\ "debit" \in SessionPcs
    BY <1>4 DEF Step, Allowances, SessionPcs
  <2>2. Relies(r, p, kind[p], status[p], "out", gateway[p]) /\ r.pc = "debit"
    BY <1>1, <1>2, <2>1, StepRelies DEF Provider
  <2> HIDE DEF r
  <2> QED BY <1>0, <1>1, <1>2, <1>3, <1>4, <2>1, <2>2, Reserves
<1>5. CASE Goto(s, Idle) /\ UNCHANGED allowance
  BY <1>0, <1>1, <1>3, <1>5, Goes
<1> QED BY <1>2, <1>4, <1>5 DEF ReserveOut

LEMMA SetCheckoutStep ==
  ASSUME PaymentAssumption, Inv, NEW s \in Sessions, SetCheckout(s)
  PROVE  Inv'
<1>0. session[s].pc = "checkout" /\ WebTypes' /\ Goto(s, Idle)
  BY WebStays DEF SetCheckout, At, web
<1>1. PICK p \in Payments :
        On(s, p) /\ session[s].p = p /\ Relies(session[s], p, kind[p], status[p], allowance[p], gateway[p])
  BY <1>0, WorksOn
<1>2. UNCHANGED <<kind, allowance, webhook, hook, journal, wallet>>
  BY DEF SetCheckout, money
<1>3. CASE status[p] # "awaiting_confirmation"
  <2>1. UNCHANGED <<status, gateway>>
    BY <1>1, <1>3 DEF SetCheckout
  <2> QED BY <1>0, <1>1, <1>2, <2>1, Goes
<1>4. CASE status[p] = "awaiting_confirmation"
  <2> DEFINE k == kind[p]
             al == allowance[p]
             wh == webhook[p]
             hk == hook[p]
             j == journal[p]
  <2>1. status' = [status EXCEPT ![p] = "initialized"] /\ gateway' = [gateway EXCEPT ![p] = "open"]
    BY <1>1, <1>4 DEF SetCheckout
  <2>2. /\ k \in Kinds \cup {NoKind} /\ al \in Allowances
        /\ wh \in WebhookRows /\ hk \in HookRows /\ j \in Postings /\ wallet \in Int
        /\ kind' = [kind EXCEPT ![p] = k] /\ allowance' = [allowance EXCEPT ![p] = al]
        /\ webhook' = [webhook EXCEPT ![p] = wh] /\ hook' = [hook EXCEPT ![p] = hk]
        /\ journal' = [journal EXCEPT ![p] = j]
        /\ Sound(k, "awaiting_confirmation", al, gateway[p], wh.state, hk.state, j)
    BY <1>2, <1>4, RowsNow
  <2>3. k.provider # "wallet"
    BY <1>0, <1>1 DEF Relies
  <2>4. /\ "initialized" \in Statuses /\ "open" \in GatewayStates
        /\ Rows(p, k, "initialized", al, "open", wh, hk, j)
    BY <2>1, <2>2 DEF Rows, Statuses, Live, GatewayStates
  <2>5. Sound(k, "initialized", al, "open", wh.state, hk.state, j) /\ gateway[p] = "none"
    BY <2>2, <2>3 DEF Sound, Counted, Live, Unpaid
  <2>6. EffectOf(k, "initialized", j) = 0 /\ EffectOf(k, "awaiting_confirmation", j) = 0
    BY <2>2 DEF Sound, Counted, EffectOf
  <2>7. ASSUME NEW t \in Sessions \ {s}, On(t, p)
        PROVE  Relies(session[t], p, k, "initialized", al, "open")
    <3>1. Relies(session[t], p, k, "awaiting_confirmation", al, "none")
      BY <1>4, <2>5, <2>7, OtherRelies
    <3>2. Onward("awaiting_confirmation", "initialized")
      BY DEF Onward, Successors
    <3>3. session[t].pc \notin {"create", "submit", "debiting"}
      BY <2>3, <3>1 DEF Relies
    <3>4. "none" \in Collected => "open" \in Collected
      BY DEF Collected
    <3> HIDE DEF k, al
    <3> QED BY <3>1, <3>2, <3>3, <3>4, ReliesOnward
  <2>8. wallet' \in Int /\ wallet' - wallet = EffectOf(k, "initialized", j) - EffectOf(kind[p], status[p], journal[p])
    BY <1>2, <1>4, <2>2, <2>6
  <2>9. WebTypes' /\ Goto(s, Idle)
    BY <1>0
  <2> HIDE DEF k, al, wh, hk, j
  <2> QED BY <2>2, <2>4, <2>5, <2>7, <2>8, <2>9, Keep
<1> QED BY <1>3, <1>4

LEMMA EndStep ==
  ASSUME PaymentAssumption, Inv, NEW s \in Sessions,
         End(s, "cancel", "abandoned") \/ End(s, "expire", "expired")
  PROVE  Inv'
<1>0. session[s].pc \in {"cancel", "expire"} /\ WebTypes' /\ Goto(s, Idle)
  BY WebStays DEF End, At, web
<1>1. PICK p \in Payments :
        On(s, p) /\ session[s].p = p /\ Relies(session[s], p, kind[p], status[p], allowance[p], gateway[p])
  BY <1>0, WorksOn
<1>2. PICK to \in {"abandoned", "expired"} : End(s, session[s].pc, to)
  BY DEF End, At
<1>3. ~Locked(p) /\ UNCHANGED <<kind, gateway, webhook, hook, wallet>>
  BY <1>1, <1>2 DEF End
<1>4. CASE Moves(p, to)
  <2>1. Transition(p, to)
    BY <1>1, <1>2, <1>4 DEF End
  <2>2. to = "expired" \/ status[p] # "draft"
    BY <1>4 DEF Moves, CanTransition, Successors
  <2>3. to \in {"awaiting_confirmation", "pending", "failed", "abandoned", "expired"}
    OBVIOUS
  <2> QED BY <1>0, <1>1, <1>3, <1>4, <2>1, <2>2, <2>3, Moved
<1>5. CASE ~Moves(p, to)
  <2>1. UNCHANGED <<status, allowance, journal>>
    BY <1>1, <1>2, <1>5 DEF End
  <2> QED BY <1>0, <1>1, <1>3, <2>1, Goes
<1> QED BY <1>4, <1>5

\* The webhook row gets another state.
LEMMA WebhookRow ==
  ASSUME Inv, NEW p \in Payments, NEW state \in WebhookStates, webhook' = [webhook EXCEPT ![p].state = state]
  PROVE  \E wh \in WebhookRows : webhook' = [webhook EXCEPT ![p] = wh]
<1> DEFINE wh == [webhook[p] EXCEPT !.state = state]
<1>1. webhook[p] \in WebhookRows
  BY RowsNow
<1>2. wh \in WebhookRows /\ webhook' = [webhook EXCEPT ![p] = wh]
  BY <1>1 DEF WebhookRows
<1> HIDE DEF wh
<1> QED BY <1>2

SideRows(p, wh, hk) == /\ webhook' = [webhook EXCEPT ![p] = wh] /\ hook' = [hook EXCEPT ![p] = hk]
                       /\ UNCHANGED <<kind, status, allowance, gateway, journal, wallet>>

LEMMA SideStep ==
  ASSUME PaymentAssumption, Inv, WebTypes', NEW s \in Sessions, NEW p \in Payments, NEW r, Goto(s, r),
         NEW wh \in WebhookRows, NEW hk \in HookRows, SideRows(p, wh, hk),
         Sound(kind[p], status[p], allowance[p], gateway[p], wh.state, hk.state, journal[p]),
         \/ r = Idle
         \/ /\ Relies(r, p, kind[p], status[p], allowance[p], gateway[p])
            /\ \A t \in Sessions \ {s} : On(t, p) => Apart(r, session[t])
  PROVE  Inv'
<1>1. /\ webhook' = [webhook EXCEPT ![p] = wh] /\ hook' = [hook EXCEPT ![p] = hk]
      /\ UNCHANGED <<kind, status, allowance, gateway, journal, wallet>>
  BY DEF SideRows
<1> QED BY <1>1, Aside

LEMMA WebhookMoves ==
  ASSUME PaymentAssumption, Inv, WebTypes', NEW s \in Sessions, NEW p \in Payments, On(s, p),
         Provider(p) # "wallet", status[p] # "none",
         NEW wh \in WebhookRows, webhook' = [webhook EXCEPT ![p] = wh],
         UNCHANGED <<kind, status, allowance, gateway, hook, journal, wallet>>,
         NEW r, Goto(s, r),
         \/ r = Idle
         \/ /\ Relies(r, p, kind[p], status[p], allowance[p], gateway[p])
            /\ r.pc \notin {"create", "submit", "debiting"}
  PROVE  Inv'
<1> DEFINE hk == hook[p]
<1>1. hk \in HookRows /\ SideRows(p, wh, hk)
  BY RowsNow DEF SideRows
<1>2. Sound(kind[p], status[p], allowance[p], gateway[p], wh.state, hk.state, journal[p])
  BY RowsNow DEF Sound, Provider
<1>3. r = Idle \/ (/\ Relies(r, p, kind[p], status[p], allowance[p], gateway[p])
                   /\ \A t \in Sessions \ {s} : On(t, p) => Apart(r, session[t]))
  BY Joins
<1> HIDE DEF hk
<1> QED BY <1>1, <1>2, <1>3, SideStep

LEMMA AcknowledgeStep ==
  ASSUME PaymentAssumption, Inv, NEW s \in Sessions, Acknowledge(s)
  PROVE  Inv'
<1>0. session[s].pc = "acknowledge" /\ WebTypes'
  BY WebStays DEF Acknowledge, At, web
<1>1. PICK p \in Payments :
        On(s, p) /\ session[s].p = p /\ Relies(session[s], p, kind[p], status[p], allowance[p], gateway[p])
  BY <1>0, WorksOn
<1>2. Provider(p) # "wallet" /\ status[p] # "none"
  BY <1>0, <1>1 DEF Relies, Provider
<1>3. PICK wh \in WebhookRows : webhook' = [webhook EXCEPT ![p] = wh]
  <2>1. webhook' = [webhook EXCEPT ![p].state = "delivered"] /\ "delivered" \in WebhookStates
    BY <1>1 DEF Acknowledge, WebhookStates
  <2> QED BY <2>1, WebhookRow
<1>6. UNCHANGED <<kind, status, allowance, gateway, hook, journal, wallet>>
  BY DEF Acknowledge, money
<1> DEFINE r == [pc |-> "verify", p |-> p, source |-> "webhook", tries |-> 0]
<1>4. Goto(s, r) /\ r.pc = "verify"
  BY <1>1 DEF Acknowledge, Verifying
<1>5. Relies(r, p, kind[p], status[p], allowance[p], gateway[p])
  BY <1>2 DEF Relies, SessionPcs, Provider
<1> HIDE DEF r
<1> QED BY <1>0, <1>1, <1>2, <1>3, <1>4, <1>5, <1>6, WebhookMoves

LEMMA CloseWebhookStep ==
  ASSUME PaymentAssumption, Inv, NEW s \in Sessions, CloseWebhook(s)
  PROVE  Inv'
<1>0. session[s].pc \in {"processed", "retry"} /\ WebTypes' /\ Goto(s, Idle)
  BY WebStays DEF CloseWebhook, web
<1>1. PICK p \in Payments :
        On(s, p) /\ session[s].p = p /\ Relies(session[s], p, kind[p], status[p], allowance[p], gateway[p])
  BY <1>0, WorksOn
<1>2. Provider(p) # "wallet" /\ status[p] # "none"
  BY <1>0, <1>1 DEF Relies, Provider
<1>3. PICK wh \in WebhookRows : webhook' = [webhook EXCEPT ![p] = wh]
  <2>1. PICK state \in WebhookStates : webhook' = [webhook EXCEPT ![p].state = state]
    BY <1>1 DEF CloseWebhook, WebhookStates
  <2> QED BY <2>1, WebhookRow
<1>4. UNCHANGED <<kind, status, allowance, gateway, hook, journal, wallet>>
  BY DEF CloseWebhook, money
<1> QED BY <1>0, <1>1, <1>2, <1>3, <1>4, WebhookMoves

\* What the gateway answers is what it did, and it does not take it back.
LEMMA VerifyAnswersStep ==
  ASSUME PaymentAssumption, Inv, NEW s \in Sessions, VerifyAnswers(s)
  PROVE  Inv'
<1>0. session[s].pc = "verify" /\ WebTypes'
  BY WebStays DEF VerifyAnswers, At, web
<1>1. PICK p \in Payments :
        On(s, p) /\ session[s].p = p /\ Relies(session[s], p, kind[p], status[p], allowance[p], gateway[p])
  BY <1>0, WorksOn
<1>2. UNCHANGED <<kind, status, allowance, gateway, webhook, hook, journal, wallet>>
  BY DEF VerifyAnswers, money
<1> DEFINE target == MapGatewayStatus(gateway[p])
           source == session[s].source
           r == [pc |-> "apply", p |-> p, source |-> source, tries |-> session[s].tries, target |-> target]
<1>3. target \in {"succeeded", "failed", "abandoned", "pending"} /\ (target = "succeeded" => gateway[p] \in Collected)
  BY DEF MapGatewayStatus, Collected
<1>4. Goto(s, r)
  BY <1>1 DEF VerifyAnswers
<1>5. kind[p].provider # "wallet" /\ status[p] # "none"
  BY <1>0, <1>1 DEF Relies
<1> HIDE DEF target, source
<1>6. Relies(r, p, kind[p], status[p], allowance[p], gateway[p]) /\ r.pc = "apply"
  BY <1>3, <1>5 DEF Relies, SessionPcs
<1> HIDE DEF r
<1> QED BY <1>0, <1>1, <1>2, <1>4, <1>6, Goes

\* Where VerifyAndApply leaves its session.
LEMMA Returns ==
  ASSUME Inv, NEW s \in Sessions, NEW p \in Payments, On(s, p), NEW view,
         session[s].pc \in {"verify", "apply", "ensure", "run", "post", "mark"},
         Return(s, view) \/ Fail(s)
  PROVE  \E r : /\ Goto(s, r)
                /\ \/ r = Idle
                   \/ /\ r.pc \notin {"create", "submit", "debiting"}
                      /\ \A st, al : st # "none" => Relies(r, p, kind[p], st, al, gateway[p])
<1>1. Relies(session[s], p, kind[p], status[p], allowance[p], gateway[p]) /\ session[s].p = p
  BY OtherRelies DEF On
<1>2. CASE Goto(s, Idle)
  BY <1>2
<1>3. CASE Goto(s, [pc |-> "flow", p |-> p, view |-> view])
  <2> DEFINE r == [pc |-> "flow", p |-> p, view |-> view]
  <2>1. Goto(s, r) /\ r.pc = "flow" /\ \A st, al : st # "none" => Relies(r, p, kind[p], st, al, gateway[p])
    BY <1>3 DEF Relies, SessionPcs
  <2> HIDE DEF r
  <2> QED BY <2>1
<1>4. CASE session[s].source = "worker" /\ \E x \in {"processed", "retry"} : Step(s, x)
  <2>1. PICK x \in {"processed", "retry"} : Step(s, x)
    BY <1>4
  <2> DEFINE r == [session[s] EXCEPT !.pc = x]
  <2>2. kind[p].provider # "wallet" /\ x \in SessionPcs
    BY <1>1, <1>4 DEF Relies, SessionPcs
  <2>3. Goto(s, r)
    BY <2>1 DEF Step
  <2>4. r.pc = x /\ \A st, al : st # "none" => Relies(r, p, kind[p], st, al, gateway[p])
    BY <1>1, <2>2, StepRelies
  <2> HIDE DEF r
  <2> QED BY <2>3, <2>4
<1> QED BY <1>1, <1>2, <1>3, <1>4 DEF Return, Fail

LEMMA VerifyErrorsStep ==
  ASSUME PaymentAssumption, Inv, NEW s \in Sessions, VerifyErrors(s)
  PROVE  Inv'
<1>0. session[s].pc = "verify" /\ Fail(s)
  BY DEF VerifyErrors, At
<1>1. PICK p \in Payments :
        On(s, p) /\ session[s].p = p /\ Relies(session[s], p, kind[p], status[p], allowance[p], gateway[p])
  BY <1>0, WorksOn
<1>2. UNCHANGED <<kind, status, allowance, gateway, webhook, hook, journal, wallet>>
  BY DEF VerifyErrors, money
<1>3. WebTypes'
  BY DEF VerifyErrors, web, Inv, Types, WebTypes, PaymentAssumption
<1>4. status[p] # "none"
  BY <1>0, <1>1 DEF Relies
<1>5. PICK r : /\ Goto(s, r)
               /\ \/ r = Idle
                  \/ /\ r.pc \notin {"create", "submit", "debiting"}
                     /\ \A st, al : st # "none" => Relies(r, p, kind[p], st, al, gateway[p])
  BY <1>0, <1>1, Returns
<1>6. r = Idle \/ (/\ Relies(r, p, kind[p], status[p], allowance[p], gateway[p])
                   /\ r.pc \notin {"create", "submit", "debiting"})
  BY <1>4, <1>5
<1> QED BY <1>1, <1>2, <1>3, <1>5, <1>6, Goes

\* A payment that succeeds is posted as received.
LEMMA ReceivedRow ==
  ASSUME NEW j \in Postings
  PROVE  LET n == [j EXCEPT !.received = @ + 1]
         IN  /\ n \in Postings /\ n.received = j.received + 1 /\ n.applied = j.applied
             /\ n.returned = j.returned
BY DEF Postings

\* The gateway's answer is applied, and it is a success.
LEMMA Succeeds ==
  ASSUME PaymentAssumption, Inv, WebTypes', NEW s \in Sessions, NEW p \in Payments, On(s, p),
         session[s].pc = "apply", gateway[p] \in Collected,
         Moves(p, "succeeded"), Transition(p, "succeeded"), Step(s, "ensure"), ~Locked(p),
         UNCHANGED <<kind, gateway, webhook, hook, wallet>>
  PROVE  Inv'
<1> DEFINE k == kind[p]
           st == status[p]
           al == allowance[p]
           gw == gateway[p]
           wh == webhook[p]
           hk == hook[p]
           j == journal[p]
           n == [j EXCEPT !.received = @ + 1]
           r == [session[s] EXCEPT !.pc = "ensure"]
<1>1. /\ k \in Kinds \cup {NoKind} /\ st \in Statuses /\ al \in Allowances /\ gw \in GatewayStates
      /\ wh \in WebhookRows /\ hk \in HookRows /\ j \in Postings /\ wallet \in Int
      /\ kind' = [kind EXCEPT ![p] = k] /\ allowance = [allowance EXCEPT ![p] = al]
      /\ gateway' = [gateway EXCEPT ![p] = gw] /\ webhook' = [webhook EXCEPT ![p] = wh]
      /\ hook' = [hook EXCEPT ![p] = hk]
      /\ Sound(k, st, al, gw, wh.state, hk.state, j)
  BY RowsNow
<1>2. /\ n \in Postings /\ n.received = j.received + 1 /\ n.applied = j.applied /\ n.returned = j.returned
  BY <1>1, ReceivedRow
<1>3. st \in {"initialized", "pending"} /\ Onward(st, "succeeded")
  BY DEF Moves, CanTransition, Successors, Onward
<1>4. /\ status' = [status EXCEPT ![p] = "succeeded"] /\ "succeeded" \in Statuses
      /\ allowance' = [allowance EXCEPT ![p] = al]
  BY <1>1 DEF Transition, Releases, Unpaid, Statuses
<1>5. journal' = [journal EXCEPT ![p] = n]
  BY DEF Transition, Inv, Types
<1>6. k.provider # "wallet"
  BY OtherRelies DEF Relies
<1> HIDE DEF n
<1>7. Sound(k, "succeeded", al, gw, wh.state, hk.state, n)
  BY <1>1, <1>2, <1>3, <1>6 DEF Sound, Counted, Live, Unpaid, Postings
<1>8. EffectOf(k, st, j) = 0 /\ EffectOf(k, "succeeded", n) = 0
  BY <1>1, <1>2, <1>3, <1>6 DEF Sound, Counted, EffectOf
<1>9. ASSUME NEW t \in Sessions \ {s}, On(t, p)
      PROVE  Relies(session[t], p, k, "succeeded", al, gw)
  <2>1. Relies(session[t], p, k, st, al, gw)
    BY <1>9, OtherRelies
  <2>2. session[t].pc \notin {"create", "submit", "debiting"}
    BY <1>3, <1>6, <2>1 DEF Relies
  <2> HIDE DEF k, st, al, gw
  <2> QED BY <1>3, <2>1, <2>2, ReliesOnward
<1>10. Goto(s, r)
  BY DEF Step
<1>11. Relies(r, p, k, "succeeded", al, gw) /\ r.pc = "ensure"
  <2>1. Relies(session[s], p, k, st, al, gw) /\ "ensure" \in SessionPcs /\ "succeeded" \in Counted
    BY OtherRelies DEF SessionPcs, Counted
  <2> HIDE DEF k, st, al, gw
  <2> QED BY <2>1, StepRelies
<1> HIDE DEF r
<1>12. \A t \in Sessions \ {s} : On(t, p) => Apart(r, session[t])
  BY <1>11, Joins
<1>13. Rows(p, k, "succeeded", al, gw, wh, hk, n)
  BY <1>1, <1>4, <1>5 DEF Rows
<1>14. wallet' \in Int /\ wallet' - wallet = EffectOf(k, "succeeded", n) - EffectOf(kind[p], status[p], journal[p])
  BY <1>1, <1>8
<1> HIDE DEF k, st, al, gw, wh, hk, j
<1> QED BY <1>1, <1>2, <1>4, <1>7, <1>9, <1>10, <1>11, <1>12, <1>13, <1>14, Keep

\* The answer of the gateway is applied: to a payment that can take it, or to
\* nobody.
LEMMA ApplyStep ==
  ASSUME PaymentAssumption, Inv, NEW s \in Sessions, Apply(s)
  PROVE  Inv'
<1>0. session[s].pc = "apply" /\ WebTypes'
  BY WebStays DEF Apply, At, web
<1>1. PICK p \in Payments :
        On(s, p) /\ session[s].p = p /\ Relies(session[s], p, kind[p], status[p], allowance[p], gateway[p])
  BY <1>0, WorksOn
<1>2. PICK to \in {"succeeded", "failed", "abandoned", "pending"} :
        session[s].target = to /\ (to = "succeeded" => gateway[p] \in Collected)
  BY <1>0, <1>1 DEF Relies
<1>3. ~Locked(p) /\ UNCHANGED <<kind, gateway, webhook, hook, wallet>>
  BY <1>1 DEF Apply
<1>4. status[p] # "none"
  BY <1>0, <1>1 DEF Relies
<1>5. CASE Moves(p, to) /\ to = "succeeded"
  <2>1. Transition(p, "succeeded") /\ Step(s, "ensure")
    BY <1>1, <1>2, <1>5 DEF Apply
  <2> QED BY <1>0, <1>1, <1>2, <1>3, <1>5, <2>1, Succeeds
<1>6. CASE Moves(p, to) /\ to # "succeeded"
  <2>1. Transition(p, to) /\ Return(s, to)
    BY <1>1, <1>2, <1>6 DEF Apply
  <2>2. PICK r : /\ Goto(s, r)
                 /\ \/ r = Idle
                    \/ /\ r.pc \notin {"create", "submit", "debiting"}
                       /\ \A st, al : st # "none" => Relies(r, p, kind[p], st, al, gateway[p])
    BY <1>0, <1>1, <2>1, Returns
  <2>3. to \in {"awaiting_confirmation", "pending", "failed", "abandoned", "expired"} /\ to # "none"
    BY <1>6
  <2>4. r = Idle \/ (/\ \A al : Relies(r, p, kind[p], to, al, gateway[p])
                     /\ r.pc \notin {"create", "submit", "debiting"})
    BY <2>2, <2>3
  <2>5. to = "expired" \/ status[p] # "draft"
    BY <1>6, <2>3 DEF Moves, CanTransition, Successors
  <2> QED BY <1>0, <1>1, <1>3, <1>6, <2>1, <2>2, <2>3, <2>4, <2>5, Moved
<1>7. CASE ~Moves(p, to)
  <2>1. UNCHANGED <<status, allowance, journal>> /\ (Return(s, to) \/ Fail(s))
    BY <1>1, <1>2, <1>7 DEF Apply
  <2>2. PICK r : /\ Goto(s, r)
                 /\ \/ r = Idle
                    \/ /\ r.pc \notin {"create", "submit", "debiting"}
                       /\ \A st, al : st # "none" => Relies(r, p, kind[p], st, al, gateway[p])
    BY <1>0, <1>1, <2>1, Returns
  <2>3. r = Idle \/ (/\ Relies(r, p, kind[p], status[p], allowance[p], gateway[p])
                     /\ r.pc \notin {"create", "submit", "debiting"})
    BY <1>4, <2>2
  <2> QED BY <1>0, <1>1, <1>3, <2>1, <2>2, <2>3, Goes
<1> QED BY <1>5, <1>6, <1>7

\* The hook row of a payment that succeeded gets these values.
LEMMA HookMoves ==
  ASSUME PaymentAssumption, Inv, WebTypes', NEW s \in Sessions, NEW p \in Payments, On(s, p),
         status[p] \in Counted, NEW hk \in HookRows, hook' = [hook EXCEPT ![p] = hk],
         UNCHANGED <<kind, status, allowance, gateway, webhook, journal, wallet>>,
         NEW r, Goto(s, r),
         \/ r = Idle
         \/ /\ Relies(r, p, kind[p], status[p], allowance[p], gateway[p])
            /\ r.pc \notin {"create", "submit", "debiting"}
  PROVE  Inv'
<1> DEFINE wh == webhook[p]
<1>1. wh \in WebhookRows /\ webhook' = [webhook EXCEPT ![p] = wh]
  BY RowsNow
<1>2. Sound(kind[p], status[p], allowance[p], gateway[p], wh.state, hk.state, journal[p])
  BY RowsNow DEF Sound
<1>3. r = Idle \/ (/\ Relies(r, p, kind[p], status[p], allowance[p], gateway[p])
                   /\ \A t \in Sessions \ {s} : On(t, p) => Apart(r, session[t]))
  BY Joins
<1> HIDE DEF wh
<1>4. UNCHANGED <<kind, status, allowance, gateway, journal, wallet>>
  OBVIOUS
<1> QED BY <1>1, <1>2, <1>3, <1>4, Aside

LEMMA EnsureStep ==
  ASSUME PaymentAssumption, Inv, NEW s \in Sessions, Ensure(s)
  PROVE  Inv'
<1>0. session[s].pc = "ensure" /\ WebTypes'
  BY WebStays DEF Ensure, At, web
<1>1. PICK p \in Payments :
        On(s, p) /\ session[s].p = p /\ Relies(session[s], p, kind[p], status[p], allowance[p], gateway[p])
  BY <1>0, WorksOn
<1>2. status[p] \in Counted
  BY <1>0, <1>1 DEF Relies
<1>3. PICK hk \in HookRows : hook' = [hook EXCEPT ![p] = hk]
  <2> DEFINE new == [hook[p] EXCEPT !.state = "pending"]
  <2>1. hook[p] \in HookRows /\ hook = [hook EXCEPT ![p] = hook[p]]
    BY RowsNow
  <2>2. new \in HookRows
    BY <2>1 DEF HookRows, HookStates
  <2>3. hook' = [hook EXCEPT ![p] = new] \/ hook' = hook
    BY <1>1 DEF Ensure
  <2> HIDE DEF new
  <2> QED BY <2>1, <2>2, <2>3
<1>4. UNCHANGED <<kind, status, allowance, gateway, webhook, journal, wallet>>
  BY DEF Ensure, money
<1> DEFINE r == [session[s] EXCEPT !.pc = "run"]
<1>5. Goto(s, r) /\ "run" \in SessionPcs
  BY DEF Ensure, Step, SessionPcs
<1>6. Relies(r, p, kind[p], status[p], allowance[p], gateway[p]) /\ r.pc = "run"
  BY <1>0, <1>1, <1>2, <1>5, StepRelies
<1> HIDE DEF r
<1> QED BY <1>0, <1>1, <1>2, <1>3, <1>4, <1>5, <1>6, HookMoves

LEMMA MarkStep ==
  ASSUME PaymentAssumption, Inv, NEW s \in Sessions, MarkDone(s) \/ MarkFailed(s)
  PROVE  Inv'
<1>0. session[s].pc \in {"mark", "run", "post"} /\ WebTypes' /\ Return(s, "succeeded")
  BY WebStays DEF MarkDone, MarkFailed, At, web
<1>1. PICK p \in Payments :
        On(s, p) /\ session[s].p = p /\ Relies(session[s], p, kind[p], status[p], allowance[p], gateway[p])
  BY <1>0, WorksOn
<1>2. status[p] \in Counted /\ status[p] # "none"
  BY <1>0, <1>1 DEF Relies, Counted
<1>3. UNCHANGED <<kind, status, allowance, gateway, webhook, journal, wallet>>
  BY DEF MarkDone, MarkFailed, money
<1>4. PICK hk \in HookRows : hook' = [hook EXCEPT ![p] = hk]
  <2>0. hook[p] \in HookRows
    BY RowsNow
  <2>1. CASE MarkDone(s)
    <3> DEFINE new == [hook[p] EXCEPT !.state = "done"]
    <3>1. new \in HookRows
      BY <2>0 DEF HookRows, HookStates
    <3>2. hook' = [hook EXCEPT ![p] = new]
      BY <1>1, <2>1 DEF MarkDone
    <3> HIDE DEF new
    <3> QED BY <3>1, <3>2
  <2>2. CASE MarkFailed(s)
    <3>1. PICK x \in {"failed", "pending"} :
            hook' = [hook EXCEPT ![p] = [state |-> x, tries |-> @.tries + 1]] /\ hook[p].tries < MaxHookTries
      BY <1>1, <2>2 DEF MarkFailed
    <3> DEFINE new == [state |-> x, tries |-> hook[p].tries + 1]
    <3>2. new \in HookRows
      BY <2>0, <3>1 DEF HookRows, HookStates, PaymentAssumption
    <3>3. hook' = [hook EXCEPT ![p] = new]
      BY <3>1
    <3> HIDE DEF new
    <3> QED BY <3>2, <3>3
  <2> QED BY <2>1, <2>2
<1>5. PICK r : /\ Goto(s, r)
               /\ \/ r = Idle
                  \/ /\ r.pc \notin {"create", "submit", "debiting"}
                     /\ \A st, al : st # "none" => Relies(r, p, kind[p], st, al, gateway[p])
  BY <1>0, <1>1, Returns
<1>6. r = Idle \/ (/\ Relies(r, p, kind[p], status[p], allowance[p], gateway[p])
                   /\ r.pc \notin {"create", "submit", "debiting"})
  BY <1>2, <1>5
<1> QED BY <1>0, <1>1, <1>2, <1>3, <1>4, <1>5, <1>6, HookMoves
\* The step posts to payment p, which succeeded, and may refund it.
PostRows(p, st, j) ==
  /\ status' = [status EXCEPT ![p] = st] /\ journal' = [journal EXCEPT ![p] = j]
  /\ UNCHANGED <<kind, allowance, gateway, webhook, hook>>

LEMMA Posts ==
  ASSUME PaymentAssumption, Inv, WebTypes', NEW s \in Sessions, NEW p \in Payments,
         status[p] \in Counted, NEW st \in Counted, st = status[p] \/ st = "refunded",
         NEW j \in Postings, PostRows(p, st, j),
         j.received = IF st = "succeeded" THEN 1 ELSE 0,
         Provider(p) = "wallet" \/ st # "refunded" => j.returned = 0,
         Purpose(p) = "topup" => j.applied + j.returned <= 1,
         wallet' \in Int, wallet' - wallet = EffectOf(kind[p], st, j) - EffectOf(kind[p], status[p], journal[p]),
         NEW r, Goto(s, r),
         \/ r = Idle
         \/ /\ Relies(r, p, kind[p], st, allowance[p], gateway[p])
            /\ r.pc \notin {"create", "submit", "debiting"}
  PROVE  Inv'
<1> DEFINE k == kind[p]
           al == allowance[p]
           gw == gateway[p]
           wh == webhook[p]
           hk == hook[p]
<1>1. /\ k \in Kinds \cup {NoKind} /\ al \in Allowances /\ gw \in GatewayStates
      /\ wh \in WebhookRows /\ hk \in HookRows /\ wallet \in Int
      /\ kind = [kind EXCEPT ![p] = k] /\ allowance = [allowance EXCEPT ![p] = al]
      /\ gateway = [gateway EXCEPT ![p] = gw] /\ webhook = [webhook EXCEPT ![p] = wh]
      /\ hook = [hook EXCEPT ![p] = hk]
      /\ Sound(k, status[p], al, gw, wh.state, hk.state, journal[p])
  BY RowsNow
<1>2. st \in Statuses /\ Rows(p, k, st, al, gw, wh, hk, j)
  BY <1>1 DEF Rows, PostRows, Statuses, Counted
<1>3. Sound(k, st, al, gw, wh.state, hk.state, j)
  BY <1>1 DEF Sound, Counted, Live, Unpaid, Provider, Purpose
<1>4. Onward(status[p], st)
  BY DEF Onward, Successors, Counted
<1>5. ASSUME NEW t \in Sessions \ {s}, On(t, p)
      PROVE  Relies(session[t], p, k, st, al, gw)
  <2>1. Relies(session[t], p, k, status[p], al, gw)
    BY <1>5, OtherRelies
  <2>2. session[t].pc \notin {"create", "submit", "debiting"}
    BY <2>1 DEF Relies, Counted
  <2> HIDE DEF k, al, gw
  <2> QED BY <1>4, <2>1, <2>2, ReliesOnward
<1>6. r = Idle \/ (Relies(r, p, k, st, al, gw) /\ \A t \in Sessions \ {s} : On(t, p) => Apart(r, session[t]))
  BY Joins DEF Counted
<1> HIDE DEF k, al, gw, wh, hk
<1>7. wallet' - wallet = EffectOf(k, st, j) - EffectOf(kind[p], status[p], journal[p])
  BY DEF k
<1> QED BY <1>1, <1>2, <1>3, <1>5, <1>6, <1>7, Keep

\* The hook of a top-up credits the wallet once; any other looks first.
LEMMA RunHookStep ==
  ASSUME PaymentAssumption, Inv, NEW s \in Sessions, RunHook(s)
  PROVE  Inv'
<1>0. session[s].pc = "run" /\ WebTypes'
  BY WebStays DEF RunHook, At, web
<1>1. PICK p \in Payments :
        On(s, p) /\ session[s].p = p /\ Relies(session[s], p, kind[p], status[p], allowance[p], gateway[p])
  BY <1>0, WorksOn
<1>2. status[p] \in Counted /\ UNCHANGED <<kind, status, allowance, gateway, webhook, hook>>
  BY <1>0, <1>1 DEF Relies, RunHook
<1>3. CASE Purpose(p) = "topup" /\ Creditable(p)
  <2> DEFINE j == [journal[p] EXCEPT !.applied = @ + 1]
             r == [session[s] EXCEPT !.pc = "mark"]
  <2>1. /\ journal[p] \in Postings /\ wallet \in Int /\ status = [status EXCEPT ![p] = status[p]]
        /\ Sound(kind[p], status[p], allowance[p], gateway[p], webhook[p].state, hook[p].state, journal[p])
    BY RowsNow
  <2>2. status[p] = "succeeded" /\ journal[p].applied = 0 /\ journal[p].returned = 0 /\ journal[p].received = 1
    BY <1>3, <2>1 DEF Creditable, Sound
  <2>3. /\ j \in Postings /\ j.applied = 1 /\ j.returned = 0 /\ j.received = 1
    BY <2>1, <2>2 DEF Postings
  <2>4. journal' = [journal EXCEPT ![p].applied = @ + 1] /\ wallet' = wallet + 1 /\ Goto(s, r)
    BY <1>1, <1>3 DEF RunHook, ApplyWalletTopup, ApplyCollectionSplits, ApplyIndividualPaySettlement, LookFirst, Step
  <2>5. journal' = [journal EXCEPT ![p] = j]
    BY <2>4 DEF Inv, Types
  <2>6. Relies(r, p, kind[p], status[p], allowance[p], gateway[p]) /\ r.pc = "mark"
    <3>1. "mark" \in SessionPcs
      BY DEF SessionPcs
    <3> QED BY <1>0, <1>1, <1>2, <3>1, StepRelies
  <2>7. kind[p].provider # "wallet" /\ kind[p].purpose = "topup"
    BY <1>3, <2>1 DEF Sound, Purpose
  <2> HIDE DEF j, r
  <2>8. EffectOf(kind[p], status[p], j) = 1 /\ EffectOf(kind[p], status[p], journal[p]) = 0
    BY <2>2, <2>3, <2>7 DEF EffectOf
  <2>9. PostRows(p, status[p], j)
    BY <1>2, <2>1, <2>5 DEF PostRows
  <2>10. wallet' \in Int /\ wallet' - wallet = EffectOf(kind[p], status[p], j) - EffectOf(kind[p], status[p], journal[p])
    BY <2>1, <2>4, <2>8
  <2>11. /\ j.received = IF status[p] = "succeeded" THEN 1 ELSE 0
         /\ Provider(p) = "wallet" \/ status[p] # "refunded" => j.returned = 0
         /\ Purpose(p) = "topup" => j.applied + j.returned <= 1
    BY <2>2, <2>3
  <2> QED BY <1>0, <1>1, <1>2, <2>3, <2>4, <2>6, <2>9, <2>10, <2>11, Posts
<1>4. CASE ~(Purpose(p) = "topup" /\ Creditable(p))
  <2>1. PICK x \in {"mark", "post"} : Step(s, x) /\ (x = "post" => kind[p].purpose # "topup")
    BY <1>1 DEF RunHook, ApplyWalletTopup, ApplyCollectionSplits, ApplyIndividualPaySettlement, LookFirst, Purpose
  <2>2. UNCHANGED <<kind, status, allowance, gateway, webhook, hook, journal, wallet>>
    BY <1>1, <1>2, <1>4 DEF RunHook, ApplyWalletTopup, ApplyCollectionSplits, ApplyIndividualPaySettlement, LookFirst, money
  <2>3. x \in SessionPcs \ {"create", "submit", "debiting"}
    BY DEF SessionPcs
  <2>4. Relies([session[s] EXCEPT !.pc = x], p, kind[p], status[p], allowance[p], gateway[p])
    BY <1>0, <1>1, <1>2, <2>1, <2>3, StepRelies
  <2> QED BY <1>0, <1>1, <2>1, <2>2, <2>3, <2>4, StepsOn
<1> QED BY <1>3, <1>4

LEMMA PostHookStep ==
  ASSUME PaymentAssumption, Inv, NEW s \in Sessions, PostHook(s)
  PROVE  Inv'
<1>0. session[s].pc = "post" /\ WebTypes'
  BY WebStays DEF PostHook, At, web
<1>1. PICK p \in Payments :
        On(s, p) /\ session[s].p = p /\ Relies(session[s], p, kind[p], status[p], allowance[p], gateway[p])
  BY <1>0, WorksOn
<1>2. /\ status[p] \in Counted /\ kind[p].purpose # "topup"
      /\ UNCHANGED <<kind, status, allowance, gateway, webhook, hook, wallet>>
  BY <1>0, <1>1 DEF Relies, PostHook
<1> DEFINE n == journal[p].applied + 1
           j == [journal[p] EXCEPT !.applied = n, !.settled = TRUE]
           r == [session[s] EXCEPT !.pc = "mark"]
<1>3. /\ journal[p] \in Postings /\ wallet \in Int /\ status = [status EXCEPT ![p] = status[p]]
      /\ Sound(kind[p], status[p], allowance[p], gateway[p], webhook[p].state, hook[p].state, journal[p])
  BY RowsNow
<1>4. /\ j \in Postings /\ j.returned = journal[p].returned /\ j.received = journal[p].received
  <2>1. n \in Nat
    BY <1>3 DEF Postings
  <2> HIDE DEF n
  <2> QED BY <1>3, <2>1 DEF Postings
<1>5. /\ journal' = [journal EXCEPT ![p].applied = @ + 1, ![p].settled = TRUE] /\ Goto(s, r)
  BY <1>1 DEF PostHook, Step
<1>6. journal' = [journal EXCEPT ![p] = j]
  BY <1>5 DEF Inv, Types
<1>7. Relies(r, p, kind[p], status[p], allowance[p], gateway[p]) /\ r.pc = "mark"
  <2>1. "mark" \in SessionPcs
    BY DEF SessionPcs
  <2> QED BY <1>0, <1>1, <1>2, <2>1, StepRelies
<1> HIDE DEF j, r
<1>8. EffectOf(kind[p], status[p], j) = EffectOf(kind[p], status[p], journal[p]) /\ EffectOf(kind[p], status[p], j) \in Int
  BY <1>2, <1>3, <1>4 DEF EffectOf, Postings
<1>9. PostRows(p, status[p], j)
  BY <1>2, <1>3, <1>6 DEF PostRows
<1>10. wallet' \in Int /\ wallet' - wallet = EffectOf(kind[p], status[p], j) - EffectOf(kind[p], status[p], journal[p])
  BY <1>2, <1>3, <1>8
<1>11. /\ j.received = IF status[p] = "succeeded" THEN 1 ELSE 0
       /\ Provider(p) = "wallet" \/ status[p] # "refunded" => j.returned = 0
       /\ Purpose(p) = "topup" => j.applied + j.returned <= 1
  BY <1>2, <1>3, <1>4 DEF Sound, Provider, Purpose
<1> QED BY <1>0, <1>1, <1>2, <1>4, <1>5, <1>7, <1>9, <1>10, <1>11, Posts

\* A refund: what the payment left in the wallet is made undone there, and what
\* never touched it is put in.
LEMMA Refunds ==
  ASSUME PaymentAssumption, Inv, WebTypes', NEW s \in Sessions, NEW p \in Payments,
         status[p] = "succeeded", RefundPayment(p),
         UNCHANGED <<kind, allowance, gateway, webhook, hook>>,
         NEW r, Goto(s, r), r = Idle \/ r = [pc |-> "dispatch", p |-> p]
  PROVE  Inv'
<1> DEFINE j == [journal[p] EXCEPT !.received = 0,
                   !.applied  = IF Purpose(p) = "individual" THEN @ ELSE 0,
                   !.returned = IF WalletTouched(p) THEN 0 ELSE 1]
<1>1. /\ journal[p] \in Postings /\ wallet \in Int
      /\ Sound(kind[p], status[p], allowance[p], gateway[p], webhook[p].state, hook[p].state, journal[p])
  BY RowsNow
<1>2. /\ j \in Postings /\ j.received = 0 /\ j.returned = (IF WalletTouched(p) THEN 0 ELSE 1)
      /\ j.applied = IF Purpose(p) = "individual" THEN journal[p].applied ELSE 0
  BY <1>1 DEF Postings
<1>3. journal' = [journal EXCEPT ![p].received = 0,
                                 ![p].applied  = IF Purpose(p) = "individual" THEN @ ELSE 0,
                                 ![p].returned = IF WalletTouched(p) THEN 0 ELSE 1]
  BY DEF RefundPayment
<1>4. journal' = [journal EXCEPT ![p] = j]
  BY <1>3 DEF Inv, Types
<1> HIDE DEF j
<1>5. PostRows(p, "refunded", j)
  BY <1>4 DEF PostRows, RefundPayment
<1>6. journal[p].returned = 0 /\ journal[p].applied \in Nat
  BY <1>1 DEF Sound, Postings
<1>7. /\ Provider(p) = "wallet" => Purpose(p) # "topup" /\ WalletTouched(p)
      /\ Purpose(p) # "topup" => (WalletTouched(p) <=> Provider(p) = "wallet")
      /\ Purpose(p) = "topup" => (WalletTouched(p) <=> journal[p].applied > 0)
  BY <1>1 DEF Sound, WalletTouched, Provider, Purpose
<1>8. EffectOf(kind[p], "refunded", j) - EffectOf(kind[p], status[p], journal[p])
        = IF Purpose(p) = "topup" /\ WalletTouched(p) THEN -journal[p].applied ELSE 1
  <2>1. CASE Provider(p) = "wallet"
    BY <1>7, <2>1 DEF EffectOf, Provider
  <2>2. CASE Provider(p) # "wallet" /\ Purpose(p) # "topup"
    <3>1. EffectOf(kind[p], "refunded", j) = j.returned /\ EffectOf(kind[p], status[p], journal[p]) = journal[p].returned
      BY <1>2, <1>6, <2>2 DEF EffectOf, Provider, Purpose, Postings
    <3> QED BY <1>2, <1>6, <1>7, <2>2, <3>1
  <2>3. CASE Provider(p) # "wallet" /\ Purpose(p) = "topup"
    <3>1. /\ EffectOf(kind[p], "refunded", j) = j.returned + j.applied
          /\ EffectOf(kind[p], status[p], journal[p]) = journal[p].returned + journal[p].applied
      BY <2>3 DEF EffectOf, Provider, Purpose
    <3>2. j.applied = 0
      BY <1>2, <2>3
    <3> QED BY <1>2, <1>6, <1>7, <2>3, <3>1, <3>2
  <2> QED BY <2>1, <2>2, <2>3
<1>9. wallet' \in Int /\ wallet' - wallet = EffectOf(kind[p], "refunded", j) - EffectOf(kind[p], status[p], journal[p])
  <2> DEFINE d == IF Purpose(p) = "topup" /\ WalletTouched(p) THEN -journal[p].applied ELSE 1
  <2>1. wallet' = wallet + d /\ d \in Int
    BY <1>6 DEF RefundPayment
  <2> HIDE DEF d
  <2>2. wallet' \in Int /\ wallet' - wallet = d
    BY <1>1, <2>1
  <2> QED BY <1>8, <2>2 DEF d
<1>10. r = Idle \/ (/\ Relies(r, p, kind[p], "refunded", allowance[p], gateway[p])
                    /\ r.pc \notin {"create", "submit", "debiting"})
  BY DEF Relies, SessionPcs, Counted
<1>11. /\ j.received = IF "refunded" = "succeeded" THEN 1 ELSE 0
       /\ Provider(p) = "wallet" => j.returned = 0
       /\ Purpose(p) = "topup" => j.applied + j.returned <= 1
  BY <1>2, <1>7
<1>12. status[p] \in Counted /\ "refunded" \in Counted
  BY DEF Counted
<1> QED BY <1>2, <1>5, <1>9, <1>10, <1>11, <1>12, Posts

LEMMA RefundSteps ==
  ASSUME PaymentAssumption, Inv, NEW s \in Sessions,
         Refund(s) \/ \E p \in Payments : ApproveRefund(s, p)
  PROVE  Inv'
<1>1. CASE Refund(s)
  <2>0. session[s].pc = "refund" /\ WebTypes' /\ Goto(s, Idle)
    BY <1>1, WebStays DEF Refund, At, web
  <2>1. PICK p \in Payments :
          On(s, p) /\ session[s].p = p /\ Relies(session[s], p, kind[p], status[p], allowance[p], gateway[p])
    BY <2>0, WorksOn
  <2>2. UNCHANGED <<kind, allowance, gateway, webhook, hook>>
    BY <1>1 DEF Refund
  <2>3. CASE status[p] = "succeeded"
    <3>1. RefundPayment(p)
      BY <1>1, <2>1, <2>3 DEF Refund
    <3> QED BY <2>0, <2>2, <2>3, <3>1, Refunds
  <2>4. CASE status[p] # "succeeded"
    <3>1. UNCHANGED <<status, journal, wallet>>
      BY <1>1, <2>1, <2>4 DEF Refund, money
    <3> QED BY <2>0, <2>1, <2>2, <3>1, Goes
  <2> QED BY <2>3, <2>4
<1>2. CASE \E p \in Payments : ApproveRefund(s, p)
  <2>1. PICK p \in Payments : ApproveRefund(s, p)
    BY <1>2
  <2> DEFINE r == [pc |-> "dispatch", p |-> p]
  <2>2. /\ status[p] = "succeeded" /\ RefundPayment(p) /\ WebTypes' /\ Goto(s, r)
        /\ UNCHANGED <<kind, allowance, gateway, webhook, hook>>
    BY <2>1, WebStays DEF ApproveRefund, web, Do
  <2>3. r = Idle \/ r = [pc |-> "dispatch", p |-> p]
    OBVIOUS
  <2> HIDE DEF r
  <2> QED BY <2>2, <2>3, Refunds
<1> QED BY <1>1, <1>2

\* The confirmation that finds the payment waiting holds its row from there on.
LEMMA DebitStep ==
  ASSUME PaymentAssumption, Inv, NEW s \in Sessions, Debit(s)
  PROVE  Inv'
<1>0. session[s].pc = "debit" /\ WebTypes'
  BY WebStays DEF Debit, At, web
<1>1. PICK p \in Payments :
        On(s, p) /\ session[s].p = p /\ Relies(session[s], p, kind[p], status[p], allowance[p], gateway[p])
  BY <1>0, WorksOn
<1>2. /\ UNCHANGED <<kind, status, allowance, gateway, webhook, hook, journal, wallet>>
      /\ ~Locked(p) /\ kind[p].provider = "wallet"
  BY <1>0, <1>1 DEF Debit, money, Relies
<1>3. CASE Goto(s, Idle)
  BY <1>0, <1>1, <1>2, <1>3, Goes
<1>4. CASE Step(s, "release")
  <2>1. "release" \in SessionPcs \ {"create", "submit", "debiting"}
    BY DEF SessionPcs
  <2>2. Relies([session[s] EXCEPT !.pc = "release"], p, kind[p], status[p], allowance[p], gateway[p])
    BY <1>1, <1>2, <2>1, StepRelies
  <2> QED BY <1>0, <1>1, <1>2, <1>4, <2>1, <2>2, StepsOn
<1>5. CASE status[p] = "awaiting_confirmation" /\ Step(s, "debiting")
  <2> DEFINE r == [session[s] EXCEPT !.pc = "debiting"]
             wh == webhook[p]
             hk == hook[p]
  <2>1. Goto(s, r) /\ "debiting" \in SessionPcs
    BY <1>5 DEF Step, SessionPcs
  <2>2. Relies(r, p, kind[p], status[p], allowance[p], gateway[p]) /\ r.pc = "debiting"
    BY <1>1, <1>2, <1>5, <2>1, StepRelies
  <2>3. /\ wh \in WebhookRows /\ hk \in HookRows /\ SideRows(p, wh, hk)
        /\ Sound(kind[p], status[p], allowance[p], gateway[p], wh.state, hk.state, journal[p])
    BY <1>2, RowsNow DEF SideRows
  <2> HIDE DEF r, wh, hk
  <2>4. ASSUME NEW t \in Sessions \ {s}, On(t, p) PROVE Apart(r, session[t])
    <3>1. session[t].pc # "debiting"
      BY <1>2, <2>4 DEF Locked, At, On
    <3>2. session[t].pc # "create"
      BY <1>1, <2>4 DEF Inv, SessionsApart, Apart
    <3> QED BY <2>2, <3>1, <3>2 DEF Apart
  <2> QED BY <1>0, <2>1, <2>2, <2>3, <2>4, SideStep
<1> QED BY <1>1, <1>3, <1>4, <1>5 DEF Debit

\* The debit is posted with the success; nobody else holds the row.
LEMMA DebitedStep ==
  ASSUME PaymentAssumption, Inv, NEW s \in Sessions, Debited(s)
  PROVE  Inv'
<1>0. session[s].pc = "debiting" /\ WebTypes'
  BY WebStays DEF Debited, At, web
<1>1. PICK p \in Payments :
        On(s, p) /\ session[s].p = p /\ Relies(session[s], p, kind[p], status[p], allowance[p], gateway[p])
  BY <1>0, WorksOn
<1>2. status[p] = "awaiting_confirmation" /\ kind[p].provider = "wallet"
  BY <1>0, <1>1 DEF Relies
<1>3. /\ Transition(p, "succeeded") /\ wallet' = wallet - 1
      /\ UNCHANGED <<kind, gateway, webhook, hook>>
  BY <1>1 DEF Debited
<1> DEFINE k == kind[p]
           al == allowance[p]
           gw == gateway[p]
           wh == webhook[p]
           hk == hook[p]
           j == journal[p]
           n == [j EXCEPT !.received = @ + 1]
           r == [pc |-> "ensure", p |-> p, source |-> "wallet", tries |-> 0]
<1>4. /\ k \in Kinds \cup {NoKind} /\ al \in Allowances /\ gw \in GatewayStates
      /\ wh \in WebhookRows /\ hk \in HookRows /\ j \in Postings /\ wallet \in Int
      /\ kind' = [kind EXCEPT ![p] = k] /\ allowance = [allowance EXCEPT ![p] = al]
      /\ gateway' = [gateway EXCEPT ![p] = gw] /\ webhook' = [webhook EXCEPT ![p] = wh]
      /\ hook' = [hook EXCEPT ![p] = hk]
      /\ Sound(k, "awaiting_confirmation", al, gw, wh.state, hk.state, j)
  BY <1>2, <1>3, RowsNow
<1>5. /\ n \in Postings /\ n.received = j.received + 1 /\ n.applied = j.applied /\ n.returned = j.returned
  BY <1>4, ReceivedRow
<1>6. /\ status' = [status EXCEPT ![p] = "succeeded"] /\ "succeeded" \in Statuses
      /\ allowance' = [allowance EXCEPT ![p] = al]
  BY <1>3, <1>4 DEF Transition, Releases, Unpaid, Statuses
<1>7. journal' = [journal EXCEPT ![p] = n]
  BY <1>3 DEF Transition, Inv, Types
<1> HIDE DEF n
<1>8. Sound(k, "succeeded", al, gw, wh.state, hk.state, n)
  BY <1>2, <1>4, <1>5 DEF Sound, Counted, Live, Unpaid, Postings
<1>9. EffectOf(k, "awaiting_confirmation", j) = 0 /\ EffectOf(k, "succeeded", n) = -1
  BY <1>2 DEF EffectOf
<1>10. ASSUME NEW t \in Sessions \ {s}, On(t, p)
       PROVE  Relies(session[t], p, k, "succeeded", al, gw)
  <2>1. Relies(session[t], p, k, "awaiting_confirmation", al, gw)
    BY <1>2, <1>10, OtherRelies
  <2>2. Apart(session[s], session[t])
    BY <1>1, <1>10 DEF Inv, SessionsApart
  <2>3. session[t].pc \notin {"create", "submit", "debiting"}
    BY <1>0, <2>1, <2>2 DEF Relies, Apart
  <2>4. Onward("awaiting_confirmation", "succeeded")
    BY DEF Onward
  <2> HIDE DEF k, al, gw
  <2> QED BY <2>1, <2>3, <2>4, ReliesOnward
<1>11. Goto(s, r)
  BY <1>1 DEF Debited
<1>12. Relies(r, p, k, "succeeded", al, gw) /\ r.pc = "ensure"
  BY DEF Relies, SessionPcs, Counted
<1> HIDE DEF r
<1>13. \A t \in Sessions \ {s} : On(t, p) => Apart(r, session[t])
  BY <1>1, <1>12, Joins
<1>14. Rows(p, k, "succeeded", al, gw, wh, hk, n)
  BY <1>4, <1>6, <1>7 DEF Rows
<1>15. wallet' \in Int /\ wallet' - wallet = EffectOf(k, "succeeded", n) - EffectOf(kind[p], status[p], journal[p])
  BY <1>2, <1>3, <1>4, <1>9
<1> HIDE DEF k, al, gw, wh, hk, j
<1> QED BY <1>0, <1>4, <1>5, <1>6, <1>8, <1>10, <1>11, <1>12, <1>13, <1>14, <1>15, Keep

LEMMA FlowSteps ==
  ASSUME PaymentAssumption, Inv, NEW s \in Sessions, Flow(s) \/ ClaimFlow(s)
  PROVE  Inv'
<1>0. session[s].pc \in {"flow", "claim"}
  BY DEF Flow, ClaimFlow, At
<1>1. PICK p \in Payments :
        On(s, p) /\ session[s].p = p /\ Relies(session[s], p, kind[p], status[p], allowance[p], gateway[p])
  BY <1>0, WorksOn
<1>2. UNCHANGED <<kind, status, allowance, gateway, webhook, hook, journal, wallet>>
  BY DEF Flow, ClaimFlow, money
<1>3. WebTypes'
  <2>1. WebTypes
    BY RowsNow
  <2>2. CASE Flow(s)
    <3>1. failures' = failures /\ (UNCHANGED <<flow, superseded>> \/
            (flow' = [flow EXCEPT ![p] = "reopened"] /\ superseded' = superseded \cup {p}))
      BY <1>1, <2>2 DEF Flow, web
    <3> QED BY <2>1, <3>1 DEF WebTypes
  <2>3. CASE ClaimFlow(s)
    <3>1. UNCHANGED <<failures, superseded>> /\ (flow' = flow \/ flow' = [flow EXCEPT ![p] = "finished"])
      BY <1>1, <2>3 DEF ClaimFlow
    <3> QED BY <2>1, <3>1 DEF WebTypes
  <2> QED BY <2>2, <2>3
<1>4. CASE Goto(s, Idle)
  BY <1>1, <1>2, <1>3, <1>4, Goes
<1>5. CASE \E x \in {"refund", "claim"} : Step(s, x)
  <2>1. PICK x \in {"refund", "claim"} : Step(s, x)
    BY <1>5
  <2>2. x \in SessionPcs \ {"create", "submit", "debiting"} /\ status[p] # "none"
    BY <1>0, <1>1 DEF SessionPcs, Relies
  <2>3. Relies([session[s] EXCEPT !.pc = x], p, kind[p], status[p], allowance[p], gateway[p])
    BY <1>1, <2>2, StepRelies
  <2> QED BY <1>1, <1>2, <1>3, <2>1, <2>2, <2>3, StepsOn
<1> QED BY <1>4, <1>5 DEF Flow, ClaimFlow

\* The transaction at the gateway goes on to state gw2; sessions notice nothing.
LEMMA GatewayOnward ==
  ASSUME Inv, NEW p \in Payments, NEW gw2, gateway[p] \in Collected => gw2 \in Collected,
         NEW t \in Sessions, On(t, p)
  PROVE  Relies(session[t], p, kind[p], status[p], allowance[p], gw2)
<1>1. Relies(session[t], p, kind[p], status[p], allowance[p], gateway[p])
  BY OtherRelies
<1> QED BY <1>1 DEF Relies

LEMMA DispatchRefundStep ==
  ASSUME PaymentAssumption, Inv, NEW s \in Sessions, DispatchRefund(s)
  PROVE  Inv'
<1>0. session[s].pc = "dispatch" /\ WebTypes' /\ Goto(s, Idle)
  BY WebStays DEF DispatchRefund, At, web
<1>1. PICK p \in Payments :
        On(s, p) /\ session[s].p = p /\ Relies(session[s], p, kind[p], status[p], allowance[p], gateway[p])
  BY <1>0, WorksOn
<1>2. UNCHANGED <<kind, status, allowance, webhook, hook, journal, wallet>>
  BY DEF DispatchRefund, money
<1>3. CASE gateway' = gateway
  BY <1>0, <1>1, <1>2, <1>3, Goes
<1>4. CASE gateway[p] = "paid" /\ gateway' = [gateway EXCEPT ![p] = "refunded"]
  <2> DEFINE k == kind[p]
             st == status[p]
             al == allowance[p]
             wh == webhook[p]
             hk == hook[p]
             j == journal[p]
  <2>1. /\ k \in Kinds \cup {NoKind} /\ st \in Statuses /\ al \in Allowances
        /\ wh \in WebhookRows /\ hk \in HookRows /\ j \in Postings /\ wallet \in Int
        /\ kind' = [kind EXCEPT ![p] = k] /\ status' = [status EXCEPT ![p] = st]
        /\ allowance' = [allowance EXCEPT ![p] = al] /\ webhook' = [webhook EXCEPT ![p] = wh]
        /\ hook' = [hook EXCEPT ![p] = hk] /\ journal' = [journal EXCEPT ![p] = j]
        /\ Sound(k, st, al, "paid", wh.state, hk.state, j)
    BY <1>2, <1>4, RowsNow
  <2>2. "refunded" \in GatewayStates /\ Rows(p, k, st, al, "refunded", wh, hk, j)
    BY <1>4, <2>1 DEF Rows, GatewayStates
  <2>3. Sound(k, st, al, "refunded", wh.state, hk.state, j)
    BY <2>1 DEF Sound, Collected
  <2>4. \A t \in Sessions \ {s} : On(t, p) => Relies(session[t], p, k, st, al, "refunded")
    BY GatewayOnward DEF Collected
  <2>5. EffectOf(k, st, j) \in Int
    BY <2>1 DEF EffectOf, Postings
  <2>6. EffectOf(kind[p], status[p], journal[p]) = EffectOf(k, st, j) /\ WebTypes' /\ Goto(s, Idle)
    BY <1>0
  <2> HIDE DEF k, st, al, wh, hk, j
  <2>7. wallet' \in Int /\ wallet' - wallet = EffectOf(k, st, j) - EffectOf(kind[p], status[p], journal[p])
    BY <1>2, <2>1, <2>5, <2>6
  <2> QED BY <2>1, <2>2, <2>3, <2>4, <2>6, <2>7, Keep
<1> QED BY <1>1, <1>3, <1>4 DEF DispatchRefund

LEMMA CrashStep ==
  ASSUME PaymentAssumption, Inv, NEW s \in Sessions, Crash(s)
  PROVE  Inv'
<1>1. PICK p \in Payments : Relies(session[s], p, kind[p], status[p], allowance[p], gateway[p])
  BY DEF Crash, Inv, SessionsSound, Busy
<1>2. /\ UNCHANGED <<kind, status, allowance, gateway, webhook, hook, journal, wallet>>
      /\ Goto(s, Idle)
  BY DEF Crash, money
<1>3. WebTypes'
  BY DEF Crash, web, Inv, Types, WebTypes, PaymentAssumption
<1> QED BY <1>1, <1>2, <1>3, Goes

\* The customer, or the bank, at the gateway: no session takes part.
LEMMA CustomerPaysStep ==
  ASSUME PaymentAssumption, Inv, NEW p \in Payments, CustomerPays(p)
  PROVE  Inv'
<1>1. PICK gw \in {"paid", "declined", "cancelled"} : gateway' = [gateway EXCEPT ![p] = gw]
  BY DEF CustomerPays
<1> DEFINE k == kind[p]
           st == status[p]
           al == allowance[p]
           wh == [webhook[p] EXCEPT !.state = "sent"]
           hk == hook[p]
           j == journal[p]
<1>2. /\ k \in Kinds \cup {NoKind} /\ st \in Statuses /\ al \in Allowances
      /\ webhook[p] \in WebhookRows /\ hk \in HookRows /\ j \in Postings /\ wallet \in Int
      /\ kind' = [kind EXCEPT ![p] = k] /\ status' = [status EXCEPT ![p] = st]
      /\ allowance' = [allowance EXCEPT ![p] = al]
      /\ hook' = [hook EXCEPT ![p] = hk] /\ journal' = [journal EXCEPT ![p] = j]
      /\ Sound(k, st, al, "open", webhook[p].state, hk.state, j)
      /\ gateway[p] = "open"
  BY RowsNow DEF CustomerPays, money
<1>3. wh \in WebhookRows /\ wh.state = "sent"
  BY <1>2 DEF WebhookRows, WebhookStates
<1>4. webhook' = [webhook EXCEPT ![p] = wh]
  BY DEF CustomerPays
<1> HIDE DEF wh
<1>5. gw \in GatewayStates /\ Rows(p, k, st, al, gw, wh, hk, j)
  BY <1>1, <1>2, <1>4 DEF Rows, GatewayStates
<1>6. Sound(k, st, al, gw, wh.state, hk.state, j)
  BY <1>2, <1>3 DEF Sound, Collected
<1>7. EffectOf(k, st, j) \in Int
  BY <1>2 DEF EffectOf, Postings
<1>8. WebTypes' /\ session' = session /\ wallet' = wallet /\ session' = [s \in Sessions |-> session'[s]]
  BY RowsNow DEF CustomerPays, web, money, WebTypes, Inv, Types
<1>9. EffectOf(kind[p], status[p], journal[p]) = EffectOf(k, st, j)
  OBVIOUS
<1>10. \A t \in Sessions : On(t, p) => Relies(session[t], p, k, st, al, gw)
  BY <1>2, GatewayOnward DEF Collected
<1> HIDE DEF k, st, al, hk, j
<1>11. wallet' \in Int /\ wallet' - wallet = EffectOf(k, st, j) - EffectOf(kind[p], status[p], journal[p])
  BY <1>2, <1>7, <1>8, <1>9
<1>12. /\ Types' /\ (\A q \in Payments : RowSound(q))' /\ WalletExplained'
       /\ Elsewhere(p) /\ kind'[p] = k /\ status'[p] = st /\ allowance'[p] = al /\ gateway'[p] = gw
  BY <1>2, <1>3, <1>5, <1>6, <1>8, <1>11, RowsKeep
<1>13. SessionsSound'
  <2> SUFFICES ASSUME NEW t \in Sessions, session[t] # Idle
               PROVE  \E q \in Payments : Relies(session[t], q, kind'[q], status'[q], allowance'[q], gateway'[q])
    BY <1>8 DEF SessionsSound, Busy
  <2>1. PICK q \in Payments : Relies(session[t], q, kind[q], status[q], allowance[q], gateway[q])
    BY DEF Inv, SessionsSound, Busy
  <2>2. CASE q = p
    <3>1. On(t, p)
      BY <2>1, <2>2 DEF On, Busy, Relies
    <3> QED BY <1>10, <1>12, <3>1
  <2>3. CASE q # p
    BY <1>12, <2>1, <2>3 DEF Elsewhere
  <2> QED BY <2>2, <2>3
<1>14. SessionsApart'
  BY <1>8 DEF Inv, SessionsApart, On, Busy
<1> QED BY <1>12, <1>13, <1>14 DEF Inv

-----------------------------------------------------------------------------
(* The theorems.                                                           *)

LEMMA InitInv ==
  ASSUME PaymentAssumption, Init
  PROVE  Inv
<1>1. Types
  BY DEF Init, Types, Statuses, Allowances, GatewayStates, WebhookStates, HookStates, Postings, PaymentAssumption
<1>2. \A p \in Payments : RowSound(p)
  BY DEF Init, RowSound, Sound, NoKind, Live, Unpaid, Counted
<1>3. SessionsSound /\ SessionsApart
  BY DEF Init, SessionsSound, SessionsApart, On, Busy
<1>4. WalletExplained
  <2> DEFINE f == [p \in Payments |-> Effect(p)]
  <2>1. \A p \in Payments : f[p] = 0
    BY DEF Init, Effect, Provider, Purpose, NoKind
  <2>2. WalletExplained <=> wallet = OpeningBalance + SumFunctionOnSet(f, Payments)
    BY DEF WalletExplained
  <2> HIDE DEF f
  <2>3. SumFunctionOnSet(f, Payments) = 0
    BY <2>1, SumZero DEF PaymentAssumption
  <2> QED BY <2>2, <2>3 DEF Init, PaymentAssumption
<1> QED BY <1>1, <1>2, <1>3, <1>4 DEF Inv

LEMMA StutterStep ==
  ASSUME Inv, UNCHANGED vars
  PROVE  Inv'
<1>1. Types' /\ (\A p \in Payments : RowSound(p))' /\ WalletExplained'
  BY DEF Inv, vars, Types, RowSound, WalletExplained, Effect, Provider, Purpose
<1>2. SessionsSound' /\ SessionsApart'
  BY DEF Inv, vars, SessionsSound, SessionsApart, On, Busy
<1> QED BY <1>1, <1>2 DEF Inv

LEMMA InvStep ==
  ASSUME PaymentAssumption, Inv, [Next]_vars
  PROVE  Inv'
<1>1. ASSUME NEW s \in Sessions, Continue(s) PROVE Inv'
  BY <1>1, CreateStep, SubmitStep, ReleaseStep, SetCheckoutStep, EndStep, AcknowledgeStep, CloseWebhookStep,
     VerifyAnswersStep, ApplyStep, EnsureStep, RunHookStep, PostHookStep, MarkStep, ReserveOutStep, DebitStep,
     DebitedStep, FlowSteps, RefundSteps, DispatchRefundStep DEF Continue
<1>2. ASSUME NEW s \in Sessions, VerifyErrors(s) \/ Crash(s) PROVE Inv'
  BY <1>2, VerifyErrorsStep, CrashStep
<1>3. ASSUME NEW s \in Sessions, NEW p \in Payments, Begin(s, p) PROVE Inv'
  BY <1>3, LooksFirst, StartsToVerify, RetryHookStep, TakesWebhook, DraftStep, RefundSteps DEF Begin
<1> QED BY <1>1, <1>2, <1>3, CustomerPaysStep, StutterStep DEF Next

LEMMA InvAlways == PaymentAssumption => (Spec => []Inv)
<1> SUFFICES ASSUME PaymentAssumption PROVE Spec => []Inv
  OBVIOUS
<1>1. Init => Inv
  BY InitInv
<1>2. Inv /\ [Next]_vars => Inv'
  BY InvStep
<1> QED BY <1>1, <1>2, PTL DEF Spec

\* A gateway payment succeeds only once the gateway collected the money, and a
\* refund does not change that: no interleaving of return page, webhook, worker
\* and reconciliation recognises a payment that was not paid (VerifyAndApply).
THEOREM SuccessWasPaid == PaymentAssumption => (Spec => []SucceededWasPaid)
<1> SUFFICES ASSUME PaymentAssumption PROVE Spec => []SucceededWasPaid
  OBVIOUS
<1>1. Inv => SucceededWasPaid
  BY RowsNow DEF Sound, SucceededWasPaid, Provider, Counted, Collected
<1> QED BY <1>1, InvAlways, PTL

\* A gateway payment holds its reservation against the ceiling exactly while it
\* can still count: from the draft to its end, and on once it has succeeded
\* (createDraftCore, transitionPayment, ReleaseAllowance).
THEOREM ReservationFollowsPayment == PaymentAssumption => (Spec => []ReservedWhileItCounts)
<1> SUFFICES ASSUME PaymentAssumption PROVE Spec => []ReservedWhileItCounts
  OBVIOUS
<1>1. Inv => ReservedWhileItCounts
  BY RowsNow DEF Sound, ReservedWhileItCounts, Provider
<1> QED BY <1>1, InvAlways, PTL

\* However often its hook is retried and whatever races its refund, a top-up
\* reaches the wallet at most once (ApplyWalletTopup, RefundPayment).
THEOREM TopupReachesOnce == PaymentAssumption => (Spec => []ToppedUpOnce)
<1> SUFFICES ASSUME PaymentAssumption PROVE Spec => []ToppedUpOnce
  OBVIOUS
<1>1. Inv => ToppedUpOnce
  BY RowsNow DEF Sound, ToppedUpOnce, Purpose
<1> QED BY <1>1, InvAlways, PTL

\* The payer's wallet holds the opening balance and what each payment left
\* there, for any number of payments and sessions (transitionPayment,
\* ApplyWalletTopup, RefundPayment).
THEOREM WalletIsExplained == PaymentAssumption => (Spec => []WalletExplained)
<1> SUFFICES ASSUME PaymentAssumption PROVE Spec => []WalletExplained
  OBVIOUS
<1>1. Inv => WalletExplained
  BY DEF Inv
<1> QED BY <1>1, InvAlways, PTL

\* Every row of the database holds a value its table allows, and a payment is
\* posted as received exactly while it counts as succeeded (transitionPayment,
\* RefundPayment).
THEOREM PaymentTypeCorrect == PaymentAssumption => (Spec => []TypeOK)
<1> SUFFICES ASSUME PaymentAssumption PROVE Spec => []TypeOK
  OBVIOUS
<1>1. ASSUME Inv PROVE TypeOK
  <2>1. Types
    BY <1>1 DEF Inv
  <2>2. /\ kind \in [Payments -> Kinds \cup {NoKind}] /\ status \in [Payments -> Statuses]
        /\ allowance \in [Payments -> {"none", "in", "out"}]
        /\ gateway \in [Payments -> {"none", "open", "paid", "declined", "cancelled", "refunded"}]
        /\ wallet \in Int /\ flow \in [Payments -> {"open", "reopened", "finished"}]
        /\ superseded \subseteq Payments /\ failures \in 0 .. MaxFailures
    BY <2>1 DEF Types, Allowances, GatewayStates
  <2>3. ASSUME NEW p \in Payments
        PROVE  /\ webhook[p].state \in {"none", "sent", "received", "delivered",
                                        "processing", "processed", "failed"}
               /\ webhook[p].tries \in 0 .. MaxWebhookTries
               /\ hook[p].state \in {"none", "pending", "done", "failed"}
               /\ hook[p].tries \in 0 .. MaxHookTries
               /\ journal[p].received = IF status[p] = "succeeded" THEN 1 ELSE 0
               /\ journal[p].applied \in Nat /\ journal[p].returned \in {0, 1}
               /\ journal[p].settled \in BOOLEAN
    <3>1. /\ webhook[p] \in WebhookRows /\ hook[p] \in HookRows /\ journal[p] \in Postings
          /\ Sound(kind[p], status[p], allowance[p], gateway[p], webhook[p].state, hook[p].state, journal[p])
      BY <1>1, RowsNow
    <3> QED BY <3>1 DEF Sound, WebhookRows, HookRows, Postings, WebhookStates, HookStates
  <2>4. \A s \in Sessions : session[s] = Idle \/ session[s].pc \in SessionPcs
    BY <1>1 DEF Inv, SessionsSound, Busy, Relies
  <2> QED BY <2>2, <2>3, <2>4 DEF TypeOK
<1> QED BY <1>1, InvAlways, PTL

\* A step moves the status of one payment at most, and along the lifecycle.
LEMMA StatusMoves ==
  ASSUME Inv, Next, NEW p \in Payments
  PROVE  status[p] = "none" \/ Onward(status[p], status'[p])
<1>0. status \in [Payments -> Statuses]
  BY DEF Inv, Types
<1> SUFFICES ASSUME status' # status PROVE status[p] = "none" \/ Onward(status[p], status'[p])
  BY DEF Onward
<1>1. ASSUME NEW q \in Payments, NEW to, status' = [status EXCEPT ![q] = to],
             status[q] = "none" \/ Onward(status[q], to)
      PROVE  status[p] = "none" \/ Onward(status[p], status'[p])
  BY <1>0, <1>1 DEF Onward
<1>2. ASSUME NEW s \in Sessions, session[s].pc # "idle"
      PROVE  \E q \in Payments : /\ session[s].p = q
                                 /\ Relies(session[s], q, kind[q], status[q], allowance[q], gateway[q])
  BY <1>2, WorksOn
<1>3. ASSUME NEW s \in Sessions, Continue(s)
      PROVE  status[p] = "none" \/ Onward(status[p], status'[p])
  <2>1. \/ Create(s) \/ Submit(s) \/ SetCheckout(s) \/ Apply(s) \/ Debited(s) \/ Refund(s)
        \/ End(s, "cancel", "abandoned") \/ End(s, "expire", "expired")
    BY <1>3 DEF Continue, Release, Acknowledge, CloseWebhook, VerifyAnswers, Ensure, RunHook, PostHook,
                MarkDone, MarkFailed, ReserveOut, Debit, Flow, ClaimFlow, DispatchRefund
  <2>2. session[s].pc # "idle"
    BY <2>1 DEF Create, Submit, SetCheckout, Apply, Debited, Refund, End, At
  <2>3. PICK q \in Payments : /\ session[s].p = q
                              /\ Relies(session[s], q, kind[q], status[q], allowance[q], gateway[q])
    BY <1>2, <2>2
  <2>4. CASE Create(s)
    <3>1. status' = [status EXCEPT ![q] = "draft"] /\ status[q] = "none"
      BY <2>3, <2>4 DEF Create, At, Relies
    <3> QED BY <1>1, <3>1
  <2>5. CASE SetCheckout(s)
    <3>1. status' = [status EXCEPT ![q] = "initialized"] /\ status[q] = "awaiting_confirmation"
      BY <2>3, <2>5 DEF SetCheckout
    <3>2. Onward(status[q], "initialized")
      BY <3>1 DEF Onward, Successors
    <3> QED BY <1>1, <3>1, <3>2
  <2>6. CASE Submit(s) \/ Apply(s) \/ End(s, "cancel", "abandoned") \/ End(s, "expire", "expired")
    <3>1. \E to : Moves(q, to) /\ Transition(q, to)
      BY <2>3, <2>6 DEF Submit, Apply, End
    <3>2. PICK to : Moves(q, to) /\ Transition(q, to)
      BY <3>1
    <3>3. status' = [status EXCEPT ![q] = to] /\ Onward(status[q], to)
      BY <3>2 DEF Moves, CanTransition, Transition, Onward
    <3> QED BY <1>1, <3>3
  <2>7. CASE Debited(s)
    <3>1. status' = [status EXCEPT ![q] = "succeeded"] /\ Onward(status[q], "succeeded")
      BY <2>3, <2>7 DEF Debited, At, Transition, Relies, Onward
    <3> QED BY <1>1, <3>1
  <2>8. CASE Refund(s)
    <3>1. status' = [status EXCEPT ![q] = "refunded"] /\ status[q] = "succeeded"
      BY <2>3, <2>8 DEF Refund, RefundPayment
    <3>2. Onward(status[q], "refunded")
      BY <3>1 DEF Onward, Successors
    <3> QED BY <1>1, <3>1, <3>2
  <2> QED BY <2>1, <2>4, <2>5, <2>6, <2>7, <2>8
<1>4. ASSUME NEW s \in Sessions, NEW q \in Payments, Begin(s, q)
      PROVE  status[p] = "none" \/ Onward(status[p], status'[p])
  <2>1. ApproveRefund(s, q)
    BY <1>4 DEF Begin, Draft, Initialize, Cancel, ListExpirable, ReceiveWebhook, ClaimWebhook, Poll,
                Reconcile, RetryHook, Confirm
  <2>2. status' = [status EXCEPT ![q] = "refunded"] /\ status[q] = "succeeded"
    BY <2>1 DEF ApproveRefund, RefundPayment
  <2>3. Onward(status[q], "refunded")
    BY <2>2 DEF Onward, Successors
  <2> QED BY <1>1, <2>2, <2>3
<1> QED BY <1>3, <1>4 DEF Next, VerifyErrors, Crash, CustomerPays

\* No stale session takes a payment out of its outcome, for any number of
\* sessions: success can only be refunded, an attempt that ended unpaid and a
\* refund stay (CanTransition, transitionPayment, RefundPayment).
THEOREM OutcomesStay == PaymentAssumption => (Spec => OutcomeIsFinal)
<1> SUFFICES ASSUME PaymentAssumption PROVE Spec => OutcomeIsFinal
  OBVIOUS
<1> DEFINE Final == \A p \in Payments :
                      /\ status[p] = "succeeded" => status'[p] \in {"succeeded", "refunded"}
                      /\ status[p] \in Unpaid \cup {"refunded"} => status'[p] = status[p]
<1>1. Inv /\ [Next]_vars => [Final]_vars
  <2> SUFFICES ASSUME Inv, Next PROVE Final
    BY DEF vars
  <2> SUFFICES ASSUME NEW p \in Payments
               PROVE  /\ status[p] = "succeeded" => status'[p] \in {"succeeded", "refunded"}
                      /\ status[p] \in Unpaid \cup {"refunded"} => status'[p] = status[p]
    OBVIOUS
  <2>1. status[p] = "none" \/ Onward(status[p], status'[p])
    BY StatusMoves
  <2> QED BY <2>1 DEF Onward, Successors, Unpaid
<1> QED BY <1>1, InvAlways, PTL DEF Spec, OutcomeIsFinal
=============================================================================
