------------------------------- MODULE MCOffice -------------------------------
(***************************************************************************)
(* The portals, the administration and the customers' accounts: the        *)
(* two-step sign-in, the register of merchants, the team and its portal    *)
(* sessions, the Partner API, the scan codes of what was sold, the         *)
(* retention of a customer's records, the audit log, the linking of chats, *)
(* the confirmation of an email address, the monitors of transactions,     *)
(* shared devices and the network cases.  They share no state that their   *)
(* properties tell apart, so a behaviour is one of them.                   *)
(***************************************************************************)
EXTENDS Access, Registry, Partner, Scanning, Retention, AuditChain, Contacts, Monitoring, TLC

CONSTANTS h1, h2, r1, r2, l1, l2, k1, u1, p1, d1, i1, i2, c1, n1, n2,
          owner, customer, none

VARIABLE focus  \* the part of this behaviour

\* A part that a behaviour is not about has no state in it.
OfficeInit ==
  /\ focus \in {"signin", "registry", "staff", "partner", "scanning", "retention", "audit", "linking", "mail",
               "vigil", "sharing", "rings"}
  /\ IF focus = "signin" THEN SignInit
     ELSE /\ factor = none /\ step = none /\ post = none /\ inside = none
          /\ opened = none /\ wrong = none /\ proven = none
  /\ IF focus = "registry" THEN RegistryInit
     ELSE /\ applied = none /\ shop = none /\ standing = none /\ movement = none /\ desk = none
  /\ IF focus = "staff" THEN StaffInit
     ELSE /\ seat = none /\ session = none /\ link = none /\ open = none /\ password = none
          /\ visit = none /\ outdated = none
  /\ IF focus = "partner" THEN PartnerInit
     ELSE /\ credential = none /\ trading = none /\ record = none /\ call = none
          /\ replies = none
  /\ IF focus = "scanning" THEN ScanInit
     ELSE /\ gatekeeper = none /\ reader = none /\ sale = none /\ code = none /\ hook = none
          /\ admitted = none /\ told = none
  /\ IF focus = "retention" THEN RetentionInit
     ELSE /\ item = none /\ person = none /\ hold = none /\ tied = none /\ archived = none
          /\ exported = none /\ purge = none /\ request = none /\ clerk = none /\ late = none
          /\ guarded = none
  /\ IF focus = "audit" THEN AuditInit
     ELSE /\ trail = none /\ drawn = none /\ aged = none /\ author = none /\ purging = none
          /\ snapshot = none /\ sweeper = none /\ checks = none /\ alarm = none /\ strained = none
  /\ IF focus = "linking" THEN LinkInit
     ELSE /\ row = none /\ chat = none /\ ticket = none /\ hand = none /\ paper = none
          /\ proof = none /\ astray = none
  /\ IF focus = "mail" THEN MailInit
     ELSE /\ mail = none /\ slip = none /\ page = none /\ typed = none
  /\ IF focus = "vigil" THEN VigilInit
     ELSE /\ world = none /\ settled = none /\ time = none /\ heard = none /\ alerts = none
          /\ scan = none /\ officer = none /\ score = none /\ totals = none /\ scans = none
          /\ verdicts = none
  /\ IF focus \in {"sharing", "rings"} THEN RingsInit
     ELSE /\ facts = none /\ shared = none /\ confirmed = none /\ cases = none /\ raised = none
          /\ cleared = none /\ frozen = none /\ task = none /\ missed = none /\ crossed = none
          /\ rulings = none

OfficeNext ==
  /\ UNCHANGED focus
  /\ \/ /\ focus = "signin" /\ SignNext
        /\ UNCHANGED <<registryVars, staffVars, partnerVars, scanVars, retentionVars,
                       auditVars, linkVars, mailVars, vigilVars, ringVars>>
     \/ /\ focus = "registry" /\ RegistryNext
        /\ UNCHANGED <<signVars, staffVars, partnerVars, scanVars, retentionVars,
                       auditVars, linkVars, mailVars, vigilVars, ringVars>>
     \/ /\ focus = "staff" /\ StaffNext
        /\ UNCHANGED <<signVars, registryVars, partnerVars, scanVars, retentionVars,
                       auditVars, linkVars, mailVars, vigilVars, ringVars>>
     \/ /\ focus = "partner" /\ PartnerNext
        /\ UNCHANGED <<signVars, registryVars, staffVars, scanVars, retentionVars,
                       auditVars, linkVars, mailVars, vigilVars, ringVars>>
     \/ /\ focus = "scanning" /\ ScanNext
        /\ UNCHANGED <<signVars, registryVars, staffVars, partnerVars, retentionVars,
                       auditVars, linkVars, mailVars, vigilVars, ringVars>>
     \/ /\ focus = "retention" /\ RetentionNext
        /\ UNCHANGED <<signVars, registryVars, staffVars, partnerVars, scanVars,
                       auditVars, linkVars, mailVars, vigilVars, ringVars>>
     \/ /\ focus = "audit" /\ AuditNext
        /\ UNCHANGED <<signVars, registryVars, staffVars, partnerVars, scanVars,
                       retentionVars, linkVars, mailVars, vigilVars, ringVars>>
     \/ /\ focus = "linking" /\ LinkNext
        /\ UNCHANGED <<signVars, registryVars, staffVars, partnerVars, scanVars,
                       retentionVars, auditVars, mailVars, vigilVars, ringVars>>
     \/ /\ focus = "mail" /\ MailNext
        /\ UNCHANGED <<signVars, registryVars, staffVars, partnerVars, scanVars,
                       retentionVars, auditVars, linkVars, vigilVars, ringVars>>
     \/ /\ focus = "vigil" /\ VigilNext
        /\ UNCHANGED <<signVars, registryVars, staffVars, partnerVars, scanVars,
                       retentionVars, auditVars, linkVars, mailVars, ringVars>>
     \/ /\ focus = "sharing" /\ SharingNext
        /\ UNCHANGED <<signVars, registryVars, staffVars, partnerVars, scanVars,
                       retentionVars, auditVars, linkVars, mailVars, vigilVars>>
     \/ /\ focus = "rings" /\ CasesNext
        /\ UNCHANGED <<signVars, registryVars, staffVars, partnerVars, scanVars,
                       retentionVars, auditVars, linkVars, mailVars, vigilVars>>

officeVars == <<focus, signVars, registryVars, staffVars, partnerVars, scanVars, retentionVars,
                auditVars, linkVars, mailVars, vigilVars, ringVars>>

OfficeSpec == OfficeInit /\ [][OfficeNext]_officeVars

\* The parts are never in one behaviour, so they share the names of who acts.
TwoHands     == {h1, h2}  \* requests in progress
TwoRows      == {r1, r2}
TwoLinks     == {l1, l2}
OneSeat      == {k1}
OneSaver     == {u1}  \* a standing account's, a worker, an administrator
OneSale      == {p1}
OneReader    == {d1}
TwoTickets   == [p \in OneSale |-> 2]
TwoRecords   == {i1, i2}
OneChat      == {c1}
TwoNumbers   == {n1, n2}
AChatAndANumber == 1 :> c1 @@ 2 :> n1 @@ 3 :> none
EitherKind   == [i \in TwoRecords |-> IF i = i1 THEN {"payment"} ELSE {"invoice", "registration"}]

\* The references of two merchants overlap only between invoices.
FourOrders ==
  {[kind |-> "payment", payee |-> "m1", ref |-> 1], [kind |-> "invoice", payee |-> "m1", ref |-> 1],
   [kind |-> "invoice", payee |-> "m2", ref |-> 1], [kind |-> "checkout", payee |-> "m1", ref |-> 1]}

TwoPeople    == {1, 2}

\* A round payment that is disputed or refunded, two amounts below the limit, a
\* failed payment and a payout to a fresh account, two payments in a row.
Plain(rail) == [rail |-> rail, of |-> none, below |-> FALSE, round |-> FALSE, risky |-> FALSE,
                failed |-> FALSE, fresh |-> FALSE]
Scenario(first, second) ==
  [move |-> i1 :> first @@ i2 :> second, velocity |-> 3, structuring |-> 2, burst |-> 2,
   verdicts |-> 1]
FiveScenarios ==
  {Scenario([Plain("payment") EXCEPT !.round = TRUE], [Plain("dispute") EXCEPT !.of = i1]),
   [Scenario([Plain("payment") EXCEPT !.round = TRUE],
             [Plain("refund") EXCEPT !.of = i1, !.round = TRUE]) EXCEPT !.verdicts = 2],
   Scenario([Plain("payment") EXCEPT !.below = TRUE],
            [Plain("standing_credit") EXCEPT !.below = TRUE]),
   Scenario([Plain("payment") EXCEPT !.failed = TRUE], [Plain("payout") EXCEPT !.fresh = TRUE]),
   [Scenario(Plain("topup"), Plain("payment")) EXCEPT !.velocity = 2]}

\* Bound of the sign-in: while two steps are live at most one request is in progress.
Apart ==
  focus = "signin" =>
    Cardinality({c \in Challenges : Live(c)}) + Cardinality({p \in Posts : post[p] # Free}) <= 3

\* No property tells them apart.
Symmetry == Permutations(TwoHands) \cup Permutations(TwoRows)


(***************************************************************************)
(* Properties                                                              *)
(***************************************************************************)
\* A step of the sign-in is spent once and with a method that was proven (Access),
\* money keeps its merchant and names stay distinct (Registry), a request has the
\* role its seat has and a removed seat is out (Access), no record goes before its
\* time or unarchived, and none that is held (Retention), the audit log keeps every
\* entry and a broken sweep its alert (AuditChain), accounts are merged and
\* addresses verified by the code alone (Contacts), a reviewer's verdict counts once
\* (Monitoring).
OfficeSafe ==
  CASE focus = "signin"    -> SignInSafe
    [] focus = "registry"  -> RegistrySafe
    [] focus = "staff"     -> StaffSafe
    [] focus = "retention" -> RetentionSafe
    [] focus = "audit"     -> AuditTrailSafe
    [] focus = "linking"   -> LinkSafe
    [] focus = "mail"      -> EmailIsProven
    [] focus = "vigil"     -> VigilSafe
    [] focus \in {"sharing", "rings"} -> RingsSafe
    [] OTHER -> TRUE

\* What a partner and a buyer are promised is kept however often they come: one
\* reference has one answer (Partner), a code admits what was paid for (Scanning).
RetriesAreSafe ==
  CASE focus = "partner"  -> RepliesAgree
    [] focus = "scanning" -> ScansAreCovered
    [] OTHER -> TRUE
=============================================================================
