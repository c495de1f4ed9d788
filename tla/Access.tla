------------------------------- MODULE Access --------------------------------
(***************************************************************************)
(* The two-step sign-in of a portal account and its security page          *)
(* (internal/app/auth.go, mfa.go, passkeys.go, security.go;                *)
(* internal/store/store_mfa.go, migration 071).                            *)
(*                                                                         *)
(* One account, several requests.  A handler reads the account's methods   *)
(* or the step's row, checks an answer against what it read, and then      *)
(* writes: each of those is a step here, so requests interleave between    *)
(* them.  A mail may fail to go out, an answer may be right or wrong.  The *)
(* sign-in page and the security page answer any live step, whichever page *)
(* opened it.  The expiry of a step is left out: it removes nothing        *)
(* another action does not also remove.  The disabling of the account is   *)
(* in the second part of this module.                                      *)
(***************************************************************************)
EXTENDS Naturals, FiniteSets

CONSTANTS Posts,       \* requests of the account's owner in progress
          Challenges,  \* rows of mfa_challenges
          MaxMethods,  \* bound: rows of mfa_factors
          Budget,      \* mfaChallengeMaxAttempts (5)
          NoStep       \* no row

Methods == 1 .. MaxMethods  \* ids of mfa_factors; 0 is NULL

VARIABLES factor,   \* mfa_factors
          step,     \* mfa_challenges
          post,     \* what each request in progress knows
          inside,   \* a session is open
          opened,   \* how often each step was taken by an answer to it
          wrong,    \* answers to a live step recorded as wrong
          proven    \* methods in place whose owner answered a challenge

signVars == <<factor, step, post, inside, opened, wrong, proven>>

Free == [at |-> "idle"]

SignInit ==
  /\ factor = [f \in Methods |-> [kind |-> "none", confirmed |-> FALSE, mailed |-> TRUE]]
  /\ step = [c \in Challenges |-> NoStep]
  /\ post = [p \in Posts |-> Free]
  /\ inside \in BOOLEAN
  /\ opened = [c \in Challenges |-> 0]
  /\ wrong = [c \in Challenges |-> 0]
  /\ proven = {}

(***************************************************************************)
(* mfa_factors                                                             *)
(***************************************************************************)
Kept(f) == factor[f].kind \notin {"none", "gone"}
OfKind(k) == {f \in Methods : factor[f].kind = k}
\* The next id of the sequence.
Serial(f) == \A g \in Methods : (g < f) <=> (factor[g].kind # "none")

\* A method of one row per account: the row in place, or a new one.
RowFor(k, f) == IF OfKind(k) = {} THEN Serial(f) ELSE f \in OfKind(k)

Upserted(f, k, confirm) ==
  [factor EXCEPT ![f] = [kind |-> k, mailed |-> TRUE,
                         confirmed |-> confirm \/ (@.kind = k /\ @.confirmed)]]

UsableFactors == {f \in Methods : Kept(f) /\ factor[f].confirmed}

Preferred == {f \in UsableFactors :
                \A g \in UsableFactors :
                  LET rank(h) == CASE factor[h].kind = "totp" -> 1
                                   [] factor[h].kind = "webauthn" -> 2
                                   [] OTHER -> 3
                  IN rank(f) < rank(g) \/ (rank(f) = rank(g) /\ f <= g)}

(***************************************************************************)
(* mfa_challenges                                                          *)
(***************************************************************************)
Row(method, f, own, code, ceremony) ==
  [method |-> method, factor |-> f, own |-> own, code |-> code, ceremony |-> ceremony, attempts |-> 0]

Live(c) == step[c] # NoStep

\* A token nobody holds stands for a new one.
Unused(c) == ~Live(c) /\ \A p \in Posts : "c" \in DOMAIN post[p] => post[p].c # c

\* The foreign key factor_id.
FactorThere(f) == f # 0 => Kept(f)

\* Only a mail has to be sent beforehand, to the label of the method.
Mailable(f) == factor[f].kind = "email" /\ factor[f].mailed

\* Rows are deleted, and with them what is remembered of their wrong answers.
Drop(gone) ==
  /\ step' = [c \in Challenges |-> IF c \in gone THEN NoStep ELSE step[c]]
  /\ wrong' = [c \in Challenges |-> IF c \in gone THEN 0 ELSE wrong[c]]

CreateStep(c, row) ==
  /\ FactorThere(row.factor) /\ Unused(c)
  /\ step' = [step EXCEPT ![c] = row]
  /\ opened' = [opened EXCEPT ![c] = 0]

\* Mutant: the budget starts again with the method.
SwitchMutant(row, method, f, ceremony, code) ==
  [row EXCEPT !.method = method, !.factor = f, !.own = FALSE, !.code = code,
              !.ceremony = ceremony, !.attempts = 0]
\* SwitchMFAChallenge
Switch(row, method, f, ceremony, code) ==
  [row EXCEPT !.method = method, !.factor = f, !.own = FALSE, !.code = code,
              !.ceremony = ceremony]

(***************************************************************************)
(* Sign-in: the password was right.                                        *)
(***************************************************************************)
Go(p, rec) == post' = [post EXCEPT ![p] = rec]
Stop(p) == Go(p, Free)

\* With the deployment flag off; a failure to read the methods counts as none.
SecondFactorRequired(readable) == readable /\ UsableFactors # {}

\* issueSession
IssueSession == inside' = TRUE

\* login, merchantLoginPost, agentLoginPost: no second step is asked for.
SignInDirectly(p) ==
  /\ post[p] = Free
  /\ \E readable \in BOOLEAN : ~SecondFactorRequired(readable)
  /\ IssueSession
  /\ UNCHANGED <<factor, step, post, opened, wrong, proven>>

\* beginSecondFactor: the methods are read; with none the account enrols one.
BeginSecondFactor(p) ==
  /\ post[p] = Free
  /\ \/ UsableFactors = {} /\ Go(p, [at |-> "open", row |-> Row("totp", 0, TRUE, FALSE, "none")])
     \/ \E f \in Preferred :
          \* a mail that cannot be sent blanks the method, which the table refuses
          /\ factor[f].kind = "email" => Mailable(f)
          /\ Go(p, [at |-> "open", row |-> Row(factor[f].kind, f, FALSE,
                                               factor[f].kind = "email", "none")])
  /\ UNCHANGED <<factor, step, inside, opened, wrong, proven>>

OpenStep(p) ==
  /\ post[p].at = "open"
  /\ \/ \E c \in Challenges : CreateStep(c, post[p].row)
     \/ ~FactorThere(post[p].row.factor) /\ UNCHANGED <<step, opened>>
  /\ Stop(p)
  /\ UNCHANGED <<factor, inside, wrong, proven>>

(***************************************************************************)
(* Posts to a live step                                                    *)
(***************************************************************************)
\* Either page reads the row by its token; the security page wants a session.
SignInPage(p, c) == post[p] = Free /\ Live(c) /\ step[c].attempts < Budget
SecurityPage(p, c) == post[p] = Free /\ Live(c) /\ inside

\* verifySecondFactor: the answer is checked against the row that was read and,
\* for an authenticator in use, the method as it stands.
Checkable(c) ==
  CASE step[c].method = "totp"  -> step[c].own \/ (step[c].factor # 0 /\ Kept(step[c].factor))
    [] step[c].method = "email" -> step[c].code
    [] OTHER -> FALSE

Right(p, c, page) ==
  Go(p, [at |-> "consume", c |-> c, page |-> page,
         row |-> [method |-> step[c].method, factor |-> step[c].factor, own |-> step[c].own]])
Wrong(p, c) == Go(p, [at |-> "fail", c |-> c])

Answer(p, c, page) ==
  /\ Checkable(c)
  /\ Right(p, c, page) \/ Wrong(p, c)
  /\ UNCHANGED <<factor, step, inside, opened, wrong, proven>>

SecondFactorVerify(p, c) == SignInPage(p, c) /\ Answer(p, c, "signin")
SecurityVerifyFactor(p, c) == SecurityPage(p, c) /\ Answer(p, c, "settings")

\* secondFactorPasskey, "finish": an assertion by one of the account's passkeys.
SecondFactorPasskey(p, c) ==
  /\ SignInPage(p, c) /\ step[c].method = "webauthn" /\ step[c].ceremony # "none"
  /\ \/ step[c].ceremony = "assert" /\ OfKind("webauthn") # {} /\ Right(p, c, "signin")
     \/ Wrong(p, c)
  /\ UNCHANGED <<factor, step, inside, opened, wrong, proven>>

\* A refused registration is not counted.
SecurityPasskeyFinish(p, c) ==
  /\ SecurityPage(p, c) /\ step[c].method = "webauthn" /\ step[c].ceremony = "create"
  /\ Go(p, [at |-> "register", c |-> c])
  /\ UNCHANGED <<factor, step, inside, opened, wrong, proven>>

FailMFAChallenge(p) ==
  /\ post[p].at = "fail"
  /\ LET c == post[p].c
     IN IF ~Live(c) THEN UNCHANGED <<step, wrong>>
        ELSE IF step[c].attempts + 1 >= Budget THEN Drop({c})
        ELSE /\ wrong' = [wrong EXCEPT ![c] = @ + 1]
             /\ step' = [step EXCEPT ![c].attempts = @ + 1]
  /\ Stop(p)
  /\ UNCHANGED <<factor, inside, opened, proven>>

\* chooseSecondFactor: another method of the account; the picker itself is
\* refused by the table.
ChooseSecondFactor(p, c) ==
  /\ SignInPage(p, c)
  /\ \E f \in UsableFactors :
       /\ factor[f].kind = "email" => Mailable(f)
       /\ Go(p, [at |-> "switch", c |-> c, method |-> factor[f].kind, factor |-> f,
                 ceremony |-> "none", code |-> factor[f].kind = "email"])
  /\ UNCHANGED <<factor, step, inside, opened, wrong, proven>>

\* secondFactorPasskey, "begin": the ceremony is kept on the row.
BeginAssertion(p, c) ==
  /\ SignInPage(p, c) /\ step[c].method = "webauthn"
  /\ OfKind("webauthn") # {}
  /\ Go(p, [at |-> "switch", c |-> c, method |-> "webauthn", factor |-> step[c].factor,
            ceremony |-> "assert", code |-> FALSE])
  /\ UNCHANGED <<factor, step, inside, opened, wrong, proven>>

SwitchMFAChallenge(p) ==
  /\ post[p].at = "switch"
  /\ LET q == post[p]
     IN step' = IF Live(q.c) /\ FactorThere(q.factor)
                THEN [step EXCEPT ![q.c] = Switch(@, q.method, q.factor, q.ceremony, q.code)]
                ELSE step
  /\ Stop(p)
  /\ UNCHANGED <<factor, inside, opened, wrong, proven>>

\* resendSecondFactorCode, and the resend of the security page.
ResendCode(p, c) ==
  /\ SignInPage(p, c) \/ SecurityPage(p, c)
  /\ step[c].method = "email" /\ step[c].factor # 0
  /\ Mailable(step[c].factor)
  /\ Go(p, [at |-> "code", c |-> c])
  /\ UNCHANGED <<factor, step, inside, opened, wrong, proven>>

SetMFAChallengeCode(p) ==
  /\ post[p].at = "code"
  /\ step' = [step EXCEPT ![post[p].c] = IF Live(post[p].c) THEN [@ EXCEPT !.code = TRUE] ELSE @]
  /\ Stop(p)
  /\ UNCHANGED <<factor, inside, opened, wrong, proven>>

(***************************************************************************)
(* Completing a step                                                       *)
(***************************************************************************)
\* Mutant: a step already used is not noticed.
TakesMutant(c) == TRUE
\* ConsumeMFAChallenge found the row.
Takes(c) == Live(c)

\* completeSecondFactor and confirmSecurityFactor take the step first, by its
\* token alone.
Consume(p) ==
  /\ post[p].at = "consume"
  /\ LET q == post[p]
     IN IF Takes(q.c)
        THEN /\ Drop({q.c})
             /\ opened' = [opened EXCEPT ![q.c] = @ + 1]
             /\ Go(p, [at |-> "record", row |-> q.row, page |-> q.page])
        ELSE Stop(p) /\ UNCHANGED <<step, opened, wrong>>
  /\ UNCHANGED <<factor, inside, proven>>

\* The enrolment or the use is recorded on the method; the security page records
\* no use of an authenticator.
RecordUse(p) ==
  /\ post[p].at = "record"
  /\ LET q == post[p]
         r == q.row
     IN /\ \/ /\ r.own
              /\ \E f \in Methods : /\ RowFor("totp", f)
                                    /\ factor' = Upserted(f, "totp", TRUE)
                                    /\ proven' = proven \cup {f}
           \/ /\ ~r.own /\ r.factor # 0 /\ (q.page = "signin" \/ r.method = "email")
              /\ IF Kept(r.factor)
                 THEN /\ factor' = [factor EXCEPT ![r.factor].confirmed = TRUE]
                      /\ proven' = proven \cup {r.factor}
                 ELSE UNCHANGED <<factor, proven>>
           \/ /\ ~r.own /\ (r.factor = 0 \/ (q.page = "settings" /\ r.method = "totp"))
              /\ UNCHANGED <<factor, proven>>
        /\ IF q.page = "signin" THEN Go(p, [at |-> "session"])
           ELSE Stop(p)
  /\ UNCHANGED <<step, inside, opened, wrong>>

FinishSecondFactor(p) ==
  /\ post[p].at = "session"
  /\ IssueSession
  /\ Stop(p)
  /\ UNCHANGED <<factor, step, opened, wrong, proven>>

(***************************************************************************)
(* The security page                                                       *)
(***************************************************************************)
SecurityStartTOTP(p, c) ==
  /\ post[p] = Free /\ inside
  /\ CreateStep(c, Row("totp", 0, TRUE, FALSE, "none"))
  /\ UNCHANGED <<factor, post, inside, wrong, proven>>

\* Mutant: the address counts before its code came back.
EnrolledMutant(f) == Upserted(f, "email", TRUE)
\* The row of the address, unconfirmed unless it was confirmed before.
Enrolled(f) == Upserted(f, "email", FALSE)

SecurityStartEmail(p) ==
  /\ post[p] = Free /\ inside
  /\ \E f \in Methods :
       /\ RowFor("email", f)
       /\ factor' = Enrolled(f)
       /\ \/ Go(p, [at |-> "open", row |-> Row("email", f, FALSE, TRUE, "none")])
          \/ Stop(p)  \* the mail did not go out
  /\ UNCHANGED <<step, inside, opened, wrong, proven>>

SecurityPasskeyBegin(p, c) ==
  /\ post[p] = Free /\ inside
  /\ CreateStep(c, Row("webauthn", 0, FALSE, FALSE, "create"))
  /\ UNCHANGED <<factor, post, inside, wrong, proven>>

\* securityPasskeyFinish: the credential is stored first, unless it is kept
\* already, then the step is taken, whether or not it is still there.
RegisterPasskey(p) ==
  /\ post[p].at = "register"
  /\ \/ UNCHANGED <<factor, step, wrong, proven>>
     \/ /\ \E f \in Methods : /\ Serial(f)
                              /\ factor' = Upserted(f, "webauthn", TRUE)
                              /\ proven' = proven \cup {f}
        /\ Drop({post[p].c})
  /\ Stop(p)
  /\ UNCHANGED <<inside, opened>>

\* The label of an emailed code is its address; no other label matters here.
SecurityRenameFactor(f) ==
  /\ inside /\ factor[f].kind = "email" /\ factor[f].mailed
  /\ factor' = [factor EXCEPT ![f].mailed = FALSE]
  /\ UNCHANGED <<step, post, inside, opened, wrong, proven>>

\* ON DELETE CASCADE of factor_id.
Cascade(gone) == {c \in Challenges : Live(c) /\ step[c].factor \in gone}

\* securityRevokeFactor, securityRevokeAll, adminResetMerchantFactors: the
\* methods first, then the steps of the account.
Revoke(p, gone) ==
  /\ post[p] = Free /\ inside
  /\ factor' = [f \in Methods |-> IF f \in gone
                                  THEN [kind |-> "gone", confirmed |-> FALSE, mailed |-> TRUE]
                                  ELSE factor[f]]
  /\ Drop(Cascade(gone))
  /\ proven' = proven \ gone
  /\ Go(p, [at |-> "clear"])
  /\ UNCHANGED <<inside, opened>>

RevokeOne(p) == \E f \in Methods : Kept(f) /\ Revoke(p, {f})
RevokeAll(p) == Revoke(p, {f \in Methods : Kept(f)})

DeleteMFAChallengesForSubject(p) ==
  /\ post[p].at = "clear"
  /\ Drop(Challenges)
  /\ Stop(p)
  /\ UNCHANGED <<factor, inside, opened, proven>>

Logout ==
  /\ inside /\ inside' = FALSE
  /\ UNCHANGED <<factor, step, post, opened, wrong, proven>>

SignNext ==
  \/ \E p \in Posts :
       \/ SignInDirectly(p) \/ BeginSecondFactor(p) \/ OpenStep(p)
       \/ FailMFAChallenge(p) \/ SwitchMFAChallenge(p) \/ SetMFAChallengeCode(p)
       \/ Consume(p) \/ RegisterPasskey(p) \/ RecordUse(p) \/ FinishSecondFactor(p)
       \/ SecurityStartEmail(p) \/ RevokeOne(p) \/ RevokeAll(p)
       \/ DeleteMFAChallengesForSubject(p)
       \/ \E c \in Challenges : \/ SecondFactorVerify(p, c) \/ SecondFactorPasskey(p, c)
                                \/ SecurityVerifyFactor(p, c) \/ SecurityPasskeyFinish(p, c)
                                \/ ChooseSecondFactor(p, c)
                                \/ BeginAssertion(p, c) \/ ResendCode(p, c)
                                \/ SecurityStartTOTP(p, c) \/ SecurityPasskeyBegin(p, c)
  \/ \E f \in Methods : SecurityRenameFactor(f)
  \/ Logout

SignSpec == SignInit /\ [][SignNext]_signVars

(***************************************************************************)
(* Properties                                                              *)
(***************************************************************************)
\* A step is taken by one answer, however many requests answer it at the same
\* time from either page, and the wrong answers a live step recorded are all still
\* counted, over resends and changes of method: it never outlives its budget
\* (ConsumeMFAChallenge, FailMFAChallenge, SwitchMFAChallenge).  The registration of a
\* passkey is no such answer: two devices can register through one ceremony.
StepIsSpentOnce ==
  \A c \in Challenges :
    /\ opened[c] <= 1
    /\ Live(c) => step[c].attempts = wrong[c] /\ wrong[c] < Budget

\* A method counts only once its owner answered a challenge of it, whatever was
\* enrolled again, resent, switched or revoked in between (securityStartEmail,
\* confirmSecurityFactor, completeSecondFactor).
MethodsAreProven == \A f \in Methods : Kept(f) /\ factor[f].confirmed => f \in proven

SignInSafe == StepIsSpentOnce /\ MethodsAreProven

\* Not checked: "a revocation cannot be outrun by a step that is already open", but an
\* answer checked against a method that was revoked afterwards still takes its step
\* when that step was switched to another method meanwhile, and a passkey whose
\* ceremony was open when every method was revoked is still registered.
RevokedStaysRevoked == \A p \in Posts :
  /\ post[p].at = "consume" /\ Live(post[p].c) => FactorThere(post[p].row.factor)
  /\ post[p].at = "register" => Live(post[p].c)

\* Not checked: renaming the emailed code changes where it is sent.
CodeReachesOwner == \A f \in UsableFactors : factor[f].kind = "email" => factor[f].mailed

-----------------------------------------------------------------------------
(***************************************************************************)
(* The staff of one merchant and its way into the portal: invitations,     *)
(* roles, removal, sessions, and the link that sets the merchant's         *)
(* password (internal/app/merchant_roles.go, merchant.go, auth.go, app.go, *)
(* admin.go; internal/store/store_merchant_members.go, store_merchants.go; *)
(* migrations 016, 017, 108).                                              *)
(*                                                                         *)
(* A handler reads a row, checks it, and writes by id: requests interleave *)
(* in between.  Expiry of sessions, links and invitations is left out, it  *)
(* takes nothing away that a removal does not also take.                   *)
(***************************************************************************)

CONSTANTS Visitors,  \* requests in progress
          Seats,     \* rows of merchant_members
          Sessions,  \* rows of merchant_sessions
          Links,     \* rows of merchant_password_reset_tokens
          Owner      \* merchant_owners: no row of merchant_members

Roles == {"records", "payments"}

VARIABLES seat,      \* merchant_members
          session,   \* merchant_sessions
          link,      \* merchant_password_reset_tokens
          open,      \* merchants.active
          password,  \* the link the merchant's password was set through
          visit,     \* what each request in progress knows
          outdated   \* a request acted with a role taken back before it came

staffVars == <<seat, session, link, open, password, visit, outdated>>

NoSeat == [status |-> "none", role |-> "records"]
Closed == [of |-> "none", role |-> "owner"]
NoVisit == [at |-> "idle"]

StaffInit ==
  /\ seat = [k \in Seats |-> NoSeat]
  /\ session = [s \in Sessions |-> Closed]
  /\ link = [l \in Links |-> "none"]
  /\ open = TRUE
  /\ password = "none"
  /\ visit = [v \in Visitors |-> NoVisit]
  /\ outdated = FALSE

Comes(v, rec) == visit[v] = NoVisit /\ visit' = [visit EXCEPT ![v] = rec]
Moves(v, rec) == visit' = [visit EXCEPT ![v] = rec]
Leaves(v) == Moves(v, NoVisit)
Employed(k) == seat[k].status \in {"invited", "active"}
OwnerSession == \E s \in Sessions : session[s].of = Owner

(***************************************************************************)
(* The team page, for the owner                                            *)
(***************************************************************************)
MerchantTeamInvite(k) ==
  /\ OwnerSession /\ seat[k].status = "none"
  /\ \E r \in Roles : seat' = [seat EXCEPT ![k] = [status |-> "invited", role |-> r]]
  /\ UNCHANGED <<session, link, open, password, visit, outdated>>

SetMerchantMemberRole(k) ==
  /\ OwnerSession /\ Employed(k)
  /\ \E r \in Roles : seat' = [seat EXCEPT ![k].role = r]
  /\ UNCHANGED <<session, link, open, password, visit, outdated>>

\* Mutant: the sessions of a removed seat stay.
CascadeSeatMutant(k) == session
\* ON DELETE CASCADE of member_id.
CascadeSeat(k) == [s \in Sessions |-> IF session[s].of = k THEN Closed ELSE session[s]]

DeleteMerchantMember(k) ==
  /\ OwnerSession /\ Employed(k)
  /\ seat' = [seat EXCEPT ![k].status = "gone"]
  /\ session' = CascadeSeat(k)
  /\ UNCHANGED <<link, open, password, visit, outdated>>

(***************************************************************************)
(* Invitations                                                             *)
(***************************************************************************)
MerchantMemberByInviteToken(v, k) ==
  /\ seat[k].status = "invited"
  /\ Comes(v, [at |-> "accept", k |-> k])
  /\ UNCHANGED <<seat, session, link, open, password, outdated>>

\* By id: a row removed meanwhile stays removed.
ActivateMerchantMember(v) ==
  /\ visit[v].at = "accept"
  /\ seat' = [seat EXCEPT ![visit[v].k].status = IF Employed(visit[v].k) THEN "active" ELSE @]
  /\ Leaves(v)
  /\ UNCHANGED <<session, link, open, password, outdated>>

(***************************************************************************)
(* Sign-in                                                                 *)
(***************************************************************************)
\* merchantLoginPost reads the member, or the owner's merchant.
MerchantLogin(v) ==
  /\ \/ \E k \in Seats : seat[k].status = "active"
                         /\ Comes(v, [at |-> "login", k |-> k, role |-> seat[k].role])
     \/ password # "none" /\ Comes(v, [at |-> "login", k |-> Owner, role |-> "owner"])
  /\ UNCHANGED <<seat, session, link, open, password, outdated>>

\* completeMerchantLogin, completeMerchantMemberLogin: MerchantAccess, then the
\* session, with the role that was read; the seat must still be there.
CreateMerchantSession(v) ==
  /\ visit[v].at = "login"
  /\ IF open /\ (visit[v].k = Owner \/ Employed(visit[v].k))
     THEN \E s \in Sessions : /\ session[s] = Closed
                              /\ \A w \in Visitors : visit[w].at = "access" => visit[w].s # s
                              /\ session' = [session EXCEPT ![s] = [of |-> visit[v].k, role |-> visit[v].role]]
     ELSE UNCHANGED session
  /\ Leaves(v)
  /\ UNCHANGED <<seat, link, open, password, outdated>>

DeleteMerchantSession(s) ==
  /\ session[s].of # "none"
  /\ session' = [session EXCEPT ![s] = Closed]
  /\ UNCHANGED <<seat, link, open, password, visit, outdated>>

(***************************************************************************)
(* Requests                                                                *)
(***************************************************************************)
\* Mutant: the role of the session is believed.
SpeaksForMutant(k, role) == k = Owner \/ (k \in Seats /\ seat[k].status = "active")
\* MerchantSessionFromToken joins the member: active, and still of that role.
SpeaksFor(k, role) ==
  k = Owner \/ (k \in Seats /\ seat[k].status = "active" /\ seat[k].role = role)

\* requireMerchant: the session, ...
MerchantSessionFromToken(v, s) ==
  /\ session[s].of # "none" /\ SpeaksFor(session[s].of, session[s].role)
  /\ outdated' = (outdated \/ (session[s].of # Owner /\ session[s].role # seat[session[s].of].role))
  /\ Comes(v, [at |-> "access", s |-> s])
  /\ UNCHANGED <<seat, session, link, open, password>>

\* ... then the merchant: a session met while it is disabled is dropped.
MerchantAccess(v) ==
  /\ visit[v].at = "access"
  /\ session' = IF open THEN session ELSE [session EXCEPT ![visit[v].s] = Closed]
  /\ Leaves(v)
  /\ UNCHANGED <<seat, link, open, password, outdated>>

(***************************************************************************)
(* The password link                                                       *)
(***************************************************************************)
\* adminSendMerchantPasswordLink: the older links first, ...
InvalidateMerchantPasswordResetTokens(v) ==
  /\ link' = [l \in Links |-> IF link[l] = "live" THEN "used" ELSE link[l]]
  /\ Comes(v, [at |-> "mint"])
  /\ UNCHANGED <<seat, session, open, password, outdated>>

\* Approval and direct creation send the first one.
FirstLink(l) ==
  /\ \A m \in Links : link[m] = "none"
  /\ link' = [link EXCEPT ![l] = "live"]
  /\ UNCHANGED <<seat, session, open, password, visit, outdated>>

\* ... then a new one.
CreateMerchantPasswordResetToken(v) ==
  /\ visit[v].at = "mint"
  /\ \E l \in Links : link[l] = "none" /\ link' = [link EXCEPT ![l] = "live"]
  /\ Leaves(v)
  /\ UNCHANGED <<seat, session, open, password, outdated>>

ValidateMerchantPasswordResetToken(v, l) ==
  /\ link[l] = "live"
  /\ Comes(v, [at |-> "password", l |-> l])
  /\ UNCHANGED <<seat, session, link, open, password, outdated>>

\* merchantSetPasswordPost: the password, ...
UpdateMerchantPassword(v) ==
  /\ visit[v].at = "password"
  /\ password' = visit[v].l
  /\ Moves(v, [at |-> "spend", l |-> visit[v].l])
  /\ UNCHANGED <<seat, session, link, open, outdated>>

\* ... then the link, whether or not that succeeds.
UseMerchantPasswordResetToken(v) ==
  /\ visit[v].at = "spend"
  /\ link' \in {link, [link EXCEPT ![visit[v].l] = "used"]}
  /\ Leaves(v)
  /\ UNCHANGED <<seat, session, open, password, outdated>>

AdminSetMerchantPassword ==
  /\ password' = "admin"
  /\ UNCHANGED <<seat, session, link, open, visit, outdated>>

SetActive ==
  /\ open' = ~open
  /\ UNCHANGED <<seat, session, link, password, visit, outdated>>

StaffNext ==
  \/ \E k \in Seats : MerchantTeamInvite(k) \/ SetMerchantMemberRole(k) \/ DeleteMerchantMember(k)
  \/ \E s \in Sessions : DeleteMerchantSession(s)
  \/ \E v \in Visitors :
       \/ \E k \in Seats : MerchantMemberByInviteToken(v, k)
       \/ \E s \in Sessions : MerchantSessionFromToken(v, s)
       \/ \E l \in Links : ValidateMerchantPasswordResetToken(v, l)
       \/ ActivateMerchantMember(v) \/ MerchantLogin(v) \/ CreateMerchantSession(v)
       \/ MerchantAccess(v) \/ InvalidateMerchantPasswordResetTokens(v)
       \/ CreateMerchantPasswordResetToken(v) \/ UpdateMerchantPassword(v)
       \/ UseMerchantPasswordResetToken(v)
  \/ \E l \in Links : FirstLink(l)
  \/ AdminSetMerchantPassword \/ SetActive

StaffSpec == StaffInit /\ [][StaffNext]_staffVars

(***************************************************************************)
(* Properties                                                              *)
(***************************************************************************)
\* A request acts with the role its seat has when it comes, also with a session
\* made from a sign-in that read an older role (MerchantSessionFromToken).
RoleIsCurrent == ~outdated

\* A removed seat holds no session, whatever sign-in or invitation was open when
\* it was removed (DeleteMerchantMember, ActivateMerchantMember).
RemovedIsOut == \A k \in Seats, s \in Sessions : session[s].of = k => seat[k].status = "active"

StaffSafe == RoleIsCurrent /\ RemovedIsOut

\* Not checked: a link whose use was not recorded, or that two posts hold, sets the
\* password again, and two links sent at the same time are both live although "only the newest link works".
OneLiveLink == Cardinality({l \in Links : link[l] = "live"}) <= 1

\* Not checked: an invitation accepted twice at the same time sets two passwords.
InviteIsSpentOnce == \A v, w \in Visitors :
  v # w /\ visit[v].at = "accept" /\ visit[w].at = "accept" => visit[v].k # visit[w].k
=============================================================================
