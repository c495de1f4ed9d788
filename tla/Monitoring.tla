----------------------------- MODULE Monitoring ------------------------------
(***************************************************************************)
(* The transaction monitor and the fraud monitor of one customer, and the  *)
(* reviewers' verdicts on what they raise (internal/store/store_kyc.go,    *)
(* store_fraud.go; internal/kyc/monitor.go, kyc.go; internal/fraud;        *)
(* internal/app/cli.go, webhooks.go, admin.go; internal/service/           *)
(* eventbus.go; migrations 028, 075, 092).                                 *)
(*                                                                         *)
(* A scan reads the movements of a window, works out which rules fire, and *)
(* for each checks for an alert, inserts it, records its weight, reads all *)
(* weights, writes the score and opens a case, each in a statement of its  *)
(* own: the sweep, the consumer of payment events and the bank credit's    *)
(* hook run at the same time, and each may be cut off anywhere.  The       *)
(* customer pays, owns the merchant that pays out, and has a bank account  *)
(* number.  Weights are in units of five points.                           *)
(***************************************************************************)
EXTENDS Integers, FiniteSets, Sequences, SequencesExt, FiniteSetsExt

CONSTANTS Movements,     \* payments, refunds, payouts, bank credits, disputes
          Scenarios,     \* what each may be, the limits configured, and the bound on verdicts
          Scanners,      \* monitors at work
          Officers,      \* reviewers at work
          Window,        \* ticks a rule looks back
          MaxClock, MaxScans,
          NoMove

\* `of' is the payment a movement carries the id of.
ASSUME ScenariosAssumption ==
  \A w \in Scenarios :
    /\ w.verdicts \in Nat
    /\ w.velocity \in Nat \ {0} /\ w.structuring \in Nat \ {0} /\ w.burst \in Nat \ {0}
    /\ \A e \in Movements :
         /\ w.move[e].rail \in {"payment", "topup", "standing_credit", "refund", "payout", "dispute"}
         /\ w.move[e].of \in Movements \cup {NoMove}
         /\ {w.move[e].below, w.move[e].round, w.move[e].risky,
             w.move[e].failed, w.move[e].fresh} \subseteq BOOLEAN

VARIABLES world,     \* the scenario
          settled,   \* when each movement settled, 0 before
          time,
          heard,     \* bank credits whose hook has run
          alerts,    \* transaction_alerts with their weights, corrections and cases
          scan,      \* what each monitor knows
          officer,   \* what each reviewer is doing
          score,     \* kyc_profiles.risk_score
          totals,    \* every total the weights have had
          scans, verdicts

vigilVars == <<world, settled, time, heard, alerts, scan, officer, score, totals, scans, verdicts>>

OffWatch == [step |-> "off", told |-> <<>>, rest |-> <<>>, alone |-> TRUE, made |-> 0, sum |-> 0]
AtDesk   == [step |-> "idle", made |-> 0, sum |-> 0]

VigilInit ==
  /\ world \in Scenarios
  /\ settled = [e \in Movements |-> 0] /\ time = 0 /\ heard = {}
  /\ alerts = <<>>
  /\ scan = [s \in Scanners |-> OffWatch]
  /\ officer = [o \in Officers |-> AtDesk]
  /\ score = 0 /\ totals = {0} /\ scans = 0 /\ verdicts = 0

(***************************************************************************)
(* What settles                                                            *)
(***************************************************************************)
Settle(e) ==
  /\ settled[e] = 0 /\ time < MaxClock
  /\ world.move[e].rail \in {"refund", "dispute"} => settled[world.move[e].of] # 0
  /\ time' = time + 1
  /\ settled' = [settled EXCEPT ![e] = time + 1]
  /\ UNCHANGED <<world, heard, alerts, scan, officer, score, totals, scans, verdicts>>

QuietTick ==
  /\ time < MaxClock
  /\ time' = time + 1
  /\ UNCHANGED <<world, settled, heard, alerts, scan, officer, score, totals, scans, verdicts>>

Since(t) == {e \in Movements : settled[e] # 0 /\ settled[e] >= t}
\* monitorInputs: a disputed or failed payment is not a settled movement.
MonitorInputs(t) == {e \in Since(t) : world.move[e].rail # "dispute" /\ ~world.move[e].failed}
\* fraudInputs: bank credits are not looked at.
FraudInputs(t) == {e \in Since(t) : world.move[e].rail # "standing_credit"}

InOrder(E) == SetToSortSeq(E, LAMBDA d, e : settled[d] < settled[e])
LastOf(E) == Max({settled[e] : e \in E})
Recent(E) == {e \in E : settled[e] >= LastOf(E) - Window}

(***************************************************************************)
(* The rules                                                               *)
(***************************************************************************)
Fired(lane, rule, severity, E) ==
  [lane |-> lane, rule |-> rule, severity |-> severity, refs |-> InOrder(E)]
OneEach(lane, rule, severity, E) ==
  LET es == InOrder(E) IN [n \in DOMAIN es |-> Fired(lane, rule, severity, {es[n]})]
When(fires, lane, rule, severity, E) ==
  IF fires THEN <<Fired(lane, rule, severity, E)>> ELSE <<>>

Velocity(E) ==
  When(E # {} /\ Cardinality(Recent(E)) >= world.velocity, "aml", "velocity", "medium", Recent(E))
Structuring(E) ==
  LET below == {e \in E : world.move[e].below}
  IN When(Cardinality(below) >= world.structuring, "aml", "structuring", "high", below)
RoundAmounts(E) == OneEach("aml", "round_amounts", "low", {e \in E : world.move[e].round})
HighRiskCounterparty(E) ==
  OneEach("aml", "high_risk_counterparty", "medium", {e \in E : world.move[e].risky})

MonitorAlerts(E) ==
  Velocity(E) \o Structuring(E) \o RoundAmounts(E) \o HighRiskCounterparty(E)

Burst(rule, severity, E) == When(Cardinality(E) >= world.burst, "fraud", rule, severity, E)

FraudAlerts(E) ==
  IF E = {} THEN <<>>
  ELSE LET On(rails) == {e \in Recent(E) : world.move[e].rail \in rails}
           paid == On({"payment", "topup"})
       IN Burst("failed_attempt_burst", "high", {e \in paid : world.move[e].failed})
          \o Burst("payment_velocity", "medium", {e \in paid : ~world.move[e].failed})
          \o Burst("dispute_velocity", "high", On({"dispute"}))
          \o Burst("refund_velocity", "medium", On({"refund"}))
          \o Burst("payout_velocity", "medium", On({"payout"}))
          \o OneEach("fraud", "new_payout_destination", "high",
                     {e \in On({"payout"}) : world.move[e].fresh})

\* The rules that look at one movement at a time.
SingleRules == {"round_amounts", "high_risk_counterparty", "new_payout_destination"}

(***************************************************************************)
(* A scan                                                                  *)
(***************************************************************************)
Watching(s) == scan[s].step # "off"
Alone(s) == \A z \in Scanners \ {s} : ~Watching(z)

\* The reading and the rules; a scan that another runs beside is not alone.
Scans(s, fired) ==
  /\ ~Watching(s) /\ scans < MaxScans
  /\ scan' = [z \in Scanners |->
       IF z = s THEN [OffWatch EXCEPT !.step = IF fired = <<>> THEN "off" ELSE "check",
                                      !.told = fired, !.rest = fired, !.alone = Alone(s)]
       ELSE IF Watching(z) THEN [scan[z] EXCEPT !.alone = FALSE] ELSE scan[z]]
  /\ scans' = scans + 1
  /\ UNCHANGED <<world, settled, time, alerts, officer, score, totals, verdicts>>

\* The periodic worker.
RunTransactionMonitor(s) == Scans(s, MonitorAlerts(MonitorInputs(time - Window))) /\ UNCHANGED heard
RunFraudMonitor(s) == Scans(s, FraudAlerts(FraudInputs(time - Window))) /\ UNCHANGED heard

\* What came before the movement, and the movement.
Around(e) == {d \in MonitorInputs(settled[e] - Window) : settled[d] < settled[e]} \cup {e}

\* The consumer of payment.succeeded: an event may come late, and more than once.
HandlePaymentSucceeded(s, e) ==
  /\ settled[e] # 0 /\ world.move[e].rail \in {"payment", "topup"} /\ ~world.move[e].failed
  /\ Scans(s, MonitorAlerts(Around(e))) /\ UNCHANGED heard

\* The hook of the bank credit, once it is applied.
MonitorStandingCredit(s, e) ==
  /\ settled[e] # 0 /\ world.move[e].rail = "standing_credit" /\ e \notin heard
  /\ heard' = heard \cup {e}
  /\ Scans(s, MonitorAlerts(Around(e)))

PaymentOf(e) == IF world.move[e].rail \in {"payment", "topup"} THEN e
                ELSE IF world.move[e].rail = "refund" THEN world.move[e].of ELSE NoMove
PaymentIDs(es) == SelectSeq([n \in DOMAIN es |-> PaymentOf(es[n])], LAMBDA e : e # NoMove)
MonitorPayments(f) == IF f.lane = "fraud" THEN <<>> ELSE PaymentIDs(f.refs)

\* Mutant: any alert of the movement counts, whatever its rule.
AlertExistsMutant(f) == \E k \in DOMAIN alerts : alerts[k].ref \in ToSet(f.refs)
\* An alert of the rule has, as its first reference or its first payment, one of
\* those the rule fired for.
AlertExists(f) ==
  \E k \in DOMAIN alerts :
    /\ alerts[k].rule = f.rule
    /\ \/ alerts[k].ref \in ToSet(f.refs)
       \/ alerts[k].pid # NoMove /\ alerts[k].pid \in ToSet(MonitorPayments(f))

NewAlert(f, alone) ==
  [lane |-> f.lane, rule |-> f.rule, severity |-> f.severity,
   ref |-> Head(f.refs), pid |-> IF MonitorPayments(f) = <<>> THEN NoMove ELSE Head(MonitorPayments(f)),
   labels |-> {}, weighed |-> FALSE, corrections |-> 0, filed |-> FALSE,
   alone |-> alone, cut |-> FALSE]

Handled(s) == Head(scan[s].rest)
On(s, step) == [scan EXCEPT ![s].step = step]
\* On to the next rule that fired.
Onward(s) ==
  [scan EXCEPT ![s] = [@ EXCEPT !.rest = Tail(@), !.made = 0, !.sum = 0,
                                !.step = IF Len(scan[s].rest) = 1 THEN "off" ELSE "check"]]

CheckAlert(s) ==
  /\ scan[s].step = "check"
  /\ scan' = IF AlertExists(Handled(s)) THEN Onward(s) ELSE On(s, "insert")
  /\ UNCHANGED <<world, settled, time, heard, alerts, officer, score, totals, scans, verdicts>>

\* The fraud lane records no weight.
InsertAlert(s) ==
  /\ scan[s].step = "insert"
  /\ alerts' = Append(alerts, NewAlert(Handled(s), scan[s].alone))
  /\ scan' = [scan EXCEPT ![s].made = Len(alerts) + 1,
                          ![s].step = IF Handled(s).lane = "aml" THEN "weigh" ELSE "file"]
  /\ UNCHANGED <<world, settled, time, heard, officer, score, totals, scans, verdicts>>

(***************************************************************************)
(* Weights and the score                                                   *)
(***************************************************************************)
AlertScore(severity) == CASE severity = "high" -> 12 [] severity = "medium" -> 7 [] OTHER -> 3
Clamped(n) == IF n < 0 THEN 0 ELSE IF n > 20 THEN 20 ELSE n

Weight(a) == AlertScore(a.severity) * ((IF a.weighed THEN 1 ELSE 0) - a.corrections)
TotalOf(as) == Clamped(FoldSeq(LAMBDA a, n : Weight(a) + n, 0, as))

\* The insertion of a weight or of a correction.
Weighs(as) == alerts' = as /\ totals' = totals \cup {TotalOf(as)}

RecordRiskEvent(s) ==
  /\ scan[s].step = "weigh"
  /\ Weighs([alerts EXCEPT ![scan[s].made].weighed = TRUE])
  /\ scan' = On(s, "read")
  /\ UNCHANGED <<world, settled, time, heard, officer, score, scans, verdicts>>

\* Mutant: the weight is added to the score there was.
ScoreRiskMutant(k) == Clamped(score + AlertScore(alerts[k].severity))
\* All that was observed and corrected.
ScoreRisk(k) == TotalOf(alerts)

ReadRisk(s) ==
  /\ scan[s].step = "read"
  /\ scan' = [scan EXCEPT ![s].step = "write", ![s].sum = ScoreRisk(scan[s].made)]
  /\ UNCHANGED <<world, settled, time, heard, alerts, officer, score, totals, scans, verdicts>>

WriteRisk(s) ==
  /\ scan[s].step = "write"
  /\ score' = scan[s].sum
  /\ scan' = IF Handled(s).severity = "low" THEN Onward(s) ELSE On(s, "file")
  /\ UNCHANGED <<world, settled, time, heard, alerts, officer, totals, scans, verdicts>>

FileCase(s) ==
  /\ scan[s].step = "file"
  /\ alerts' = [alerts EXCEPT ![scan[s].made].filed = TRUE]
  /\ scan' = Onward(s)
  /\ UNCHANGED <<world, settled, time, heard, officer, score, totals, scans, verdicts>>

\* A failed statement, or the death of the process: the rest of the scan is lost.
ScanFails(s) ==
  /\ Watching(s)
  /\ scan' = [scan EXCEPT ![s] = OffWatch]
  /\ alerts' = IF scan[s].made = 0 THEN alerts ELSE [alerts EXCEPT ![scan[s].made].cut = TRUE]
  /\ UNCHANGED <<world, settled, time, heard, officer, score, totals, scans, verdicts>>

(***************************************************************************)
(* Verdicts                                                                *)
(***************************************************************************)
\* An alert that is acknowledged, escalated or resolved as confirmed stands.
Labels == {"stands", "false_positive"}

AtWork(o, step) == officer' = [officer EXCEPT ![o].step = step]
StandsUp(o) == officer' = [officer EXCEPT ![o] = AtDesk]

ResolveTransactionAlert(o, k, label) ==
  /\ officer[o] = AtDesk /\ verdicts < world.verdicts
  /\ alerts' = [alerts EXCEPT ![k].labels = @ \cup {label}]
  /\ officer' = IF label = "false_positive"
                THEN [officer EXCEPT ![o] = [@ EXCEPT !.step = "look", !.made = k]] ELSE officer
  /\ verdicts' = verdicts + 1
  /\ UNCHANGED <<world, settled, time, heard, scan, score, totals, scans>>

\* Mutant: a correction is not looked for.
ClearedMutant(k) == FALSE
Cleared(k) == alerts[k].corrections > 0

\* The weight recorded, or what the severity would have weighed: the same.
LookForWeight(o) ==
  /\ officer[o].step = "look"
  /\ IF Cleared(officer[o].made) THEN StandsUp(o) ELSE AtWork(o, "clear")
  /\ UNCHANGED <<world, settled, time, heard, alerts, scan, score, totals, scans, verdicts>>

CancelAlertRisk(o) ==
  /\ officer[o].step = "clear"
  /\ Weighs([alerts EXCEPT ![officer[o].made].corrections = @ + 1])
  /\ AtWork(o, "read")
  /\ UNCHANGED <<world, settled, time, heard, scan, score, scans, verdicts>>

OfficerReads(o) ==
  /\ officer[o].step = "read"
  /\ officer' = [officer EXCEPT ![o].step = "write", ![o].sum = TotalOf(alerts)]
  /\ UNCHANGED <<world, settled, time, heard, alerts, scan, score, totals, scans, verdicts>>

OfficerWrites(o) ==
  /\ officer[o].step = "write"
  /\ score' = officer[o].sum
  /\ StandsUp(o)
  /\ UNCHANGED <<world, settled, time, heard, alerts, scan, totals, scans, verdicts>>

OfficerFails(o) ==
  /\ officer[o] # AtDesk
  /\ alerts' = [alerts EXCEPT ![officer[o].made].cut = TRUE]
  /\ StandsUp(o)
  /\ UNCHANGED <<world, settled, time, heard, scan, score, totals, scans, verdicts>>

\* RecomputeAllRisk, by hand.
RecomputeAllRisk(o) ==
  /\ officer[o] = AtDesk /\ score # TotalOf(alerts)
  /\ AtWork(o, "read")
  /\ UNCHANGED <<world, settled, time, heard, alerts, scan, score, totals, scans, verdicts>>

VigilNext ==
  \/ \E e \in Movements : Settle(e)
  \/ QuietTick
  \/ \E s \in Scanners :
       \/ RunTransactionMonitor(s) \/ RunFraudMonitor(s)
       \/ \E e \in Movements : HandlePaymentSucceeded(s, e) \/ MonitorStandingCredit(s, e)
       \/ CheckAlert(s) \/ InsertAlert(s) \/ RecordRiskEvent(s)
       \/ ReadRisk(s) \/ WriteRisk(s) \/ FileCase(s) \/ ScanFails(s)
  \/ \E o \in Officers :
       \/ \E k \in DOMAIN alerts, label \in Labels : ResolveTransactionAlert(o, k, label)
       \/ LookForWeight(o) \/ CancelAlertRisk(o) \/ OfficerReads(o) \/ OfficerWrites(o)
       \/ OfficerFails(o) \/ RecomputeAllRisk(o)

VigilSpec == VigilInit /\ [][VigilNext]_vigilVars

(***************************************************************************)
(* Properties                                                              *)
(***************************************************************************)
InHand(k) == (\E s \in Scanners : scan[s].made = k) \/ (\E o \in Officers : officer[o].made = k)

\* Unless a failure cut its handling off, an alert that nobody is handling has its
\* case when it is not low, weighs on the score when the monitor raised it, and has
\* given that weight back, once, exactly when a reviewer has dismissed it
\* (insertTransactionAlert, cancelRiskEventFor; one reviewer at a time).
VerdictsCount ==
  \A k \in DOMAIN alerts :
    LET a == alerts[k]
    IN (~a.cut /\ ~InHand(k)) =>
         /\ a.filed <=> a.severity # "low"
         /\ a.weighed <=> a.lane = "aml"
         /\ a.corrections = IF "false_positive" \in a.labels THEN 1 ELSE 0

\* A scan that came to its end leaves no rule that fired without an alert of that
\* rule over one of its movements (recordMonitorAlerts, recordFraudAlerts).
ScanLeavesNothing ==
  \A s \in Scanners : scan[s].step = "off" =>
    \A n \in DOMAIN scan[s].told : \E k \in DOMAIN alerts :
      /\ alerts[k].rule = scan[s].told[n].rule
      /\ \/ alerts[k].ref \in ToSet(scan[s].told[n].refs)
         \/ alerts[k].pid \in ToSet(PaymentIDs(scan[s].told[n].refs))

\* A movement that a rule for one movement alerts is not alerted again by a scan that
\* no other ran beside, however often the window or the event comes back
\* (alertExistsForEvent: "redelivery is safe").
RescanIsQuiet ==
  \A k \in DOMAIN alerts : (alerts[k].alone /\ alerts[k].rule \in SingleRules) =>
    \A j \in 1..(k - 1) : alerts[j].rule = alerts[k].rule => alerts[j].ref # alerts[k].ref

\* Whoever writes the score, it is a total that the weights have had
\* (RecomputeRiskScore: two of them never add a weight twice).
ScoreWasTrue == score \in totals

VigilSafe == VerdictsCount /\ ScanLeavesNothing /\ RescanIsQuiet /\ ScoreWasTrue

\* Not checked, as the code does not keep it: two scans, or two reviewers, both find
\* nothing and both write.
AlertedOnce == \A j, k \in DOMAIN alerts : j # k => alerts[j].rule # alerts[k].rule \/ alerts[j].ref # alerts[k].ref
\* Not checked: a dismissed fraud alert takes a weight off the score that it never put
\* on, although 092_fraud_lane.sql:8 says that the score stays with the other lane.
LanesApart == \A k \in DOMAIN alerts : alerts[k].lane = "fraud" => Weight(alerts[k]) = 0

-----------------------------------------------------------------------------
(***************************************************************************)
(* The network cases: identities that share a browser or an account make   *)
(* a ring; a ring with a confirmed alert among its members gets one case,  *)
(* each member a weight, and the reviewer's verdict on the case takes the  *)
(* weights back or freezes the members (internal/store/store_devices.go,   *)
(* store_network.go, store_network_recipients.go, store_allowances.go;     *)
(* internal/app/admin_network.go, admin.go; migrations 076-079).           *)
(*                                                                         *)
(* A refresh reads the links and then the alerts, and upserts case after   *)
(* case; weights, corrections and freezes are written member by member.    *)
(* Requests run at the same time and may be cut off between any two.       *)
(***************************************************************************)

CONSTANTS People,       \* identities, numbers in the order of their ids
          Browsers,     \* fingerprints
          Accounts,     \* bank accounts that two may have in common
          Requests,     \* requests in progress
          MaxConfirmed, \* confirmed alerts in all
          MaxRulings,   \* verdicts in all
          NoRing

ASSUME PeopleAssumption == People \subseteq Nat

VARIABLES facts,     \* who was seen with which browser, or has which account
          shared,    \* risk_events: weights for a shared browser
          confirmed, \* confirmed alerts of each
          cases,     \* network_cases by members_key
          raised, cleared,  \* risk_events: weights of a ring, and their corrections
          frozen,    \* allowance_freezes in force, by the case that raised them
          task,   \* what each request is doing
          missed,    \* browsers whose users one request left unmarked
          crossed,   \* rings that two requests had in hand at once, or that one left unfinished
          rulings    \* verdicts so far

ringVars == <<facts, shared, confirmed, cases, raised, cleared, frozen, task, missed, crossed, rulings>>

AllRings == {R \in SUBSET People : Cardinality(R) >= 2}
Quiet == [step |-> "idle", todo |-> {}, told |-> {}, who |-> {}, one |-> NoRing,
          ring |-> {}, signs |-> [u \in People |-> 0]]

RingsInit ==
  /\ facts = {} /\ shared = [u \in People |-> [b \in Browsers |-> 0]]
  /\ confirmed = [u \in People |-> 0]
  /\ cases = [R \in AllRings |-> NoRing]
  /\ raised = [R \in AllRings |-> [u \in People |-> 0]]
  /\ cleared = [R \in AllRings |-> [u \in People |-> 0]]
  /\ frozen = [u \in People |-> NoRing]
  /\ task = [q \in Requests |-> Quiet]
  /\ missed = {} /\ crossed = {} /\ rulings = 0

Doing(q, step) == task[q].step = step
Turn(q, r) == task' = [task EXCEPT ![q] = r]

(***************************************************************************)
(* Who shares what                                                         *)
(***************************************************************************)
With(f) == {u \in People : <<u, f>> \in facts}
Shares(u, v) == u # v /\ \E f \in Browsers \cup Accounts : {u, v} \subseteq With(f)

UpsertUserPayoutDestination(u, a) ==
  /\ <<u, a>> \notin facts
  /\ facts' = facts \cup {<<u, a>>}
  /\ UNCHANGED <<shared, confirmed, cases, raised, cleared, frozen, task, missed, crossed, rulings>>

\* The device's row; those on the browser are read afterwards.
TouchTrustedDevice(q, u, b) ==
  /\ task[q].step = "idle"
  /\ facts' = facts \cup {<<u, b>>}
  /\ Turn(q, [Quiet EXCEPT !.step = "device", !.one = b])
  /\ UNCHANGED <<shared, confirmed, cases, raised, cleared, frozen, missed, crossed, rulings>>

\* Mutant: a first stranger on the browser goes by.
OnBrowserMutant(b) == LET who == With(b) IN IF Cardinality(who) < 3 THEN {} ELSE who
OnBrowser(b) == LET who == With(b) IN IF Cardinality(who) < 2 THEN {} ELSE who

ReadBrowser(q) ==
  /\ Doing(q, "device")
  /\ LET who == OnBrowser(task[q].one)
     IN Turn(q, IF who = {} THEN Quiet ELSE [task[q] EXCEPT !.step = "share", !.who = who])
  /\ UNCHANGED <<facts, shared, confirmed, cases, raised, cleared, frozen, missed, crossed, rulings>>

\* One after another, the check and the weight in two statements.
CheckShared(q, u) ==
  /\ Doing(q, "share") /\ u \in task[q].who
  /\ LET rest == task[q].who \ {u}
     IN Turn(q, IF shared[u][task[q].one] = 0 THEN [task[q] EXCEPT !.step = "shares", !.ring = {u}]
                ELSE IF rest = {} THEN Quiet ELSE [task[q] EXCEPT !.who = rest])
  /\ UNCHANGED <<facts, shared, confirmed, cases, raised, cleared, frozen, missed, crossed, rulings>>

RecordSharedDeviceRisk(q, u) ==
  /\ Doing(q, "shares") /\ u \in task[q].ring
  /\ shared' = [shared EXCEPT ![u][task[q].one] = @ + 1]
  /\ LET rest == task[q].who \ {u}
     IN Turn(q, IF rest = {} THEN Quiet
                ELSE [task[q] EXCEPT !.step = "share", !.who = rest, !.ring = {}])
  /\ UNCHANGED <<facts, confirmed, cases, raised, cleared, frozen, missed, crossed, rulings>>

(***************************************************************************)
(* Rings                                                                   *)
(***************************************************************************)
\* Components of the links, of two members or more.
DetectRings(links) ==
  {R \in AllRings :
    /\ \A P \in SUBSET R : P \notin {{}, R} => \E l \in links : l \cap P # {} /\ l \cap (R \ P) # {} /\ l \subseteq R
    /\ \A l \in links : l \cap R # {} => l \subseteq R}

IdentityLinks == {{e[1], e[2]} : e \in {d \in People \X People : Shares(d[1], d[2])}}

Hits(R, counts) == MapThenSumSet(LAMBDA u : counts[u], R)

\* The rings a request has in hand: it read them, or has a verdict on one.
InHandOf(r) == r.told \cup (IF r.ring \in AllRings THEN {r.ring} ELSE {})

Crosses(q, rings) ==
  crossed' = crossed \cup (rings \cap UNION {InHandOf(task[p]) : p \in Requests \ {q}})

(***************************************************************************)
(* A refresh: after a confirmation, or whenever the network page is opened *)
(***************************************************************************)
ResolveAsConfirmed(q, u) ==
  /\ Doing(q, "idle") /\ Hits(People, confirmed) < MaxConfirmed
  /\ confirmed' = [confirmed EXCEPT ![u] = @ + 1]
  /\ Turn(q, [Quiet EXCEPT !.step = "refresh"])
  /\ UNCHANGED <<facts, shared, cases, raised, cleared, frozen, missed, crossed, rulings>>

\* The reading of the links; AdminNetwork begins with it.
ReadLinks(q) ==
  /\ task[q].step \in {"idle", "refresh"}
  /\ LET rings == DetectRings(IdentityLinks)
     IN /\ rings # {} \/ Doing(q, "refresh")
        /\ Turn(q, IF rings = {} THEN Quiet ELSE [Quiet EXCEPT !.step = "signals", !.told = rings])
        /\ Crosses(q, rings)
  /\ UNCHANGED <<facts, shared, confirmed, cases, raised, cleared, frozen, missed, rulings>>

\* memberAlertSignals: a ring without a confirmed alert gets no case.
EnrichRings(q) ==
  /\ Doing(q, "signals")
  /\ LET rings == {R \in task[q].told : Hits(R, confirmed) >= 1}
     IN Turn(q, IF rings = {} THEN Quiet
                ELSE [task[q] EXCEPT !.step = "upsert", !.todo = rings, !.told = rings,
                                        !.signs = confirmed])
  /\ UNCHANGED <<facts, shared, confirmed, cases, raised, cleared, frozen, missed, crossed, rulings>>

NewCase(n) == [confirmed |-> n, status |-> "open", heard |-> 0, dismissed |-> FALSE, last |-> "none"]

\* The upsert writes, and returns the case, only if something of it changes.  The
\* score follows sightings and dates: it may have risen or not.
Touches(c, n, higher) == c = NoRing \/ n > c.confirmed \/ higher \/ c.status = "open"

\* Mutant: a closed case is opened by the refresh alone.
ReopensMutant(c, n) == c.status # "open"
Reopens(c, n) == c.status # "open" /\ n > c.confirmed

UpsertedCase(c, n) ==
  IF c = NoRing THEN NewCase(n)
  ELSE [c EXCEPT !.confirmed = n, !.status = IF Reopens(c, n) THEN "open" ELSE @]

\* Members come in the order of their ids.
IsNext(q, u) == u \in task[q].who /\ \A v \in task[q].who : u <= v

\* On to the next ring.
Passes(q, R) ==
  LET rest == task[q].todo \ {R}
  IN Turn(q, IF rest = {} THEN Quiet ELSE [task[q] EXCEPT !.step = "upsert", !.todo = rest,
                                                             !.ring = {}, !.who = {}])

EnsureNetworkCase(q, R, higher) ==
  /\ Doing(q, "upsert") /\ R \in task[q].todo
  /\ LET n == Hits(R, task[q].signs)
     IN IF Touches(cases[R], n, higher)
        THEN /\ cases' = [cases EXCEPT ![R] = UpsertedCase(@, n)]
             /\ Turn(q, [task[q] EXCEPT !.step = "member", !.ring = R, !.who = R])
        ELSE Passes(q, R) /\ UNCHANGED cases
  /\ UNCHANGED <<facts, shared, confirmed, raised, cleared, frozen, missed, crossed, rulings>>

Remaining(q, u, step) ==
  LET rest == task[q].who \ {u}
  IN IF rest = {} THEN Passes(q, task[q].ring)
     ELSE Turn(q, [task[q] EXCEPT !.step = step, !.who = rest, !.one = NoRing])

CheckMember(q, u) ==
  /\ Doing(q, "member") /\ IsNext(q, u)
  /\ IF raised[task[q].ring][u] > 0 THEN Remaining(q, u, "member")
     ELSE Turn(q, [task[q] EXCEPT !.step = "mark", !.one = u])
  /\ UNCHANGED <<facts, shared, confirmed, cases, raised, cleared, frozen, missed, crossed, rulings>>

RecordRingMembershipRisk(q, u) ==
  /\ Doing(q, "mark") /\ u = task[q].one
  /\ raised' = [raised EXCEPT ![task[q].ring][u] = @ + 1]
  /\ Remaining(q, u, "member")
  /\ UNCHANGED <<facts, shared, confirmed, cases, cleared, frozen, missed, crossed, rulings>>

(***************************************************************************)
(* A verdict on a case, whatever its state                                 *)
(***************************************************************************)
ResolveNetworkCase(q, R, status, freeze) ==
  /\ Doing(q, "idle") /\ cases[R] # NoRing
  /\ rulings < MaxRulings /\ rulings' = rulings + 1
  /\ freeze => status = "resolved"
  /\ cases' = [cases EXCEPT ![R].status = status, ![R].heard = cases[R].confirmed, ![R].last = status,
                            ![R].dismissed = @ \/ status = "false_positive"]
  /\ Crosses(q, {R})
  /\ IF status = "resolved" /\ ~freeze THEN UNCHANGED task
     ELSE Turn(q, [Quiet EXCEPT !.step = IF freeze THEN "freeze" ELSE "cancel", !.ring = R, !.who = R])
  /\ UNCHANGED <<facts, shared, confirmed, raised, cleared, frozen, missed>>

\* cancelRiskEventFor: nothing is given back twice, nor what was not put on.
CheckCancel(q, u) ==
  /\ Doing(q, "cancel") /\ IsNext(q, u)
  /\ LET R == task[q].ring
         rest == task[q].who \ {u}
     IN Turn(q, IF cleared[R][u] = 0 /\ raised[R][u] > 0 THEN [task[q] EXCEPT !.step = "give", !.one = u]
                ELSE IF rest = {} THEN [task[q] EXCEPT !.step = "unfreeze", !.who = R]
                ELSE [task[q] EXCEPT !.who = rest])
  /\ UNCHANGED <<facts, shared, confirmed, cases, raised, cleared, frozen, missed, crossed, rulings>>

CancelRingMembershipRisk(q, u) ==
  /\ Doing(q, "give") /\ u = task[q].one
  /\ cleared' = [cleared EXCEPT ![task[q].ring][u] = @ + 1]
  /\ LET R == task[q].ring
         rest == task[q].who \ {u}
     IN Turn(q, IF rest = {} THEN [task[q] EXCEPT !.step = "unfreeze", !.who = R, !.one = NoRing]
                ELSE [task[q] EXCEPT !.step = "cancel", !.who = rest, !.one = NoRing])
  /\ UNCHANGED <<facts, shared, confirmed, cases, raised, frozen, missed, crossed, rulings>>

DoneWith(q, u) ==
  LET rest == task[q].who \ {u}
  IN Turn(q, IF rest = {} THEN Quiet ELSE [task[q] EXCEPT !.who = rest])

\* One freeze in force on each.
FreezeAllowance(q, u) ==
  /\ Doing(q, "freeze") /\ IsNext(q, u)
  /\ frozen' = [frozen EXCEPT ![u] = IF @ = NoRing THEN task[q].ring ELSE @]
  /\ DoneWith(q, u)
  /\ UNCHANGED <<facts, shared, confirmed, cases, raised, cleared, missed, crossed, rulings>>

\* Mutant: only those the case's own freeze is on.
ThawedMutant(u, R) == FALSE
\* Whichever case froze it.
Thawed(u, R) == TRUE

UnfreezeAllowance(q, u) ==
  /\ Doing(q, "unfreeze") /\ IsNext(q, u)
  /\ frozen' = IF Thawed(u, task[q].ring) THEN [frozen EXCEPT ![u] = NoRing] ELSE frozen
  /\ DoneWith(q, u)
  /\ UNCHANGED <<facts, shared, confirmed, cases, raised, cleared, missed, crossed, rulings>>

\* An error, or the death of the process: the rest is left as it is.
RequestFails(q) ==
  /\ task[q].step # "idle"
  /\ crossed' = crossed \cup InHandOf(task[q])
  /\ missed' = missed \cup {b \in Browsers : task[q].step \in {"device", "share", "shares"} /\ task[q].one = b}
  /\ Turn(q, Quiet)
  /\ UNCHANGED <<facts, shared, confirmed, cases, raised, cleared, frozen, rulings>>

SharingNext ==
  \E q \in Requests :
    \/ \E u \in People, b \in Browsers : TouchTrustedDevice(q, u, b)
    \/ ReadBrowser(q) \/ RequestFails(q)
    \/ \E u \in People : CheckShared(q, u) \/ RecordSharedDeviceRisk(q, u)

CasesNext ==
  \/ \E u \in People, a \in Accounts : UpsertUserPayoutDestination(u, a)
  \/ \E q \in Requests :
       \/ ReadLinks(q) \/ EnrichRings(q) \/ RequestFails(q)
       \/ \E u \in People :
            \/ ResolveAsConfirmed(q, u)
            \/ CheckMember(q, u) \/ RecordRingMembershipRisk(q, u)
            \/ CheckCancel(q, u) \/ CancelRingMembershipRisk(q, u)
            \/ FreezeAllowance(q, u) \/ UnfreezeAllowance(q, u)
       \/ \E R \in AllRings :
            \/ \E higher \in BOOLEAN : EnsureNetworkCase(q, R, higher)
            \/ \E status \in {"resolved", "false_positive"}, freeze \in BOOLEAN :
                 ResolveNetworkCase(q, R, status, freeze)

RingsNext == SharingNext \/ CasesNext

RingsSpec == RingsInit /\ [][RingsNext]_ringVars

(***************************************************************************)
(* Properties                                                              *)
(***************************************************************************)
RingInHand(R) == \E q \in Requests : R \in InHandOf(task[q])

\* A case that no request has in hand, and that none left unfinished or had in hand
\* together with another: each member bears its weight once, given back once if the
\* case was ever dismissed; the case is open again only by more confirmed alerts than
\* the reviewer saw; and nobody is frozen by it when it was dismissed last
\* (recordRingMembershipRisk, cancelRiskEventFor, EnsureNetworkCases,
\* adminResolveNetworkCase).
VerdictsHold ==
  \A R \in AllRings : (cases[R] # NoRing /\ R \notin crossed /\ ~RingInHand(R)) =>
    /\ \A u \in R : raised[R][u] = 1 /\ cleared[R][u] = IF cases[R].dismissed THEN 1 ELSE 0
    /\ (cases[R].status = "open" /\ cases[R].last # "none") => cases[R].confirmed > cases[R].heard
    /\ cases[R].last = "false_positive" => \A u \in People : frozen[u] # R

\* Whoever races, a case stands on alerts its members have had confirmed, and only a
\* case that was resolved ever froze a member (EnsureNetworkCases).
CasesHaveEvidence ==
  /\ \A R \in AllRings : cases[R] # NoRing => cases[R].confirmed \in 1..Hits(R, confirmed)
  /\ \A u \in People : frozen[u] # NoRing => u \in frozen[u] /\ cases[frozen[u]].last # "none"

\* Who shares a browser with another bears the weight of it, whoever came first, once
\* no request on it is left to run or was cut off (recordSharedDeviceRisk).
SharingIsKnown ==
  \A b \in Browsers :
    (b \notin missed /\ Cardinality(With(b)) > 1 /\ \A q \in Requests : task[q].one # b) =>
      \A u \in With(b) : shared[u][b] > 0

RingsSafe == VerdictsHold /\ CasesHaveEvidence /\ SharingIsKnown
=============================================================================
