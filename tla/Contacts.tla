------------------------------- MODULE Contacts -------------------------------
(***************************************************************************)
(* Who a customer is: the account a chat or a number writes from, linking  *)
(* a chat to the account of a WhatsApp number, and the confirmation of an  *)
(* email address (internal/store/store_users.go, store_link_accounts.go;   *)
(* internal/service/conversation.go, conversation_link.go,                 *)
(* conversation_onboarding.go, webflow.go; migrations 010, 066).           *)
(*                                                                         *)
(* One chat channel stands for the four.  A message loads its account and  *)
(* session and is then handled step by step; another may be handled at the *)
(* same time, and either may fail after any step.                          *)
(***************************************************************************)
EXTENDS Naturals, FiniteSets

CONSTANTS Chats, Numbers, \* handles that write
          MaxRows,        \* bound: rows of users
          Opened,         \* [Rows -> handle or Nobody]: the accounts there are at the start
          MaxCodes,       \* bound: one-time codes
          MaxTries,       \* wrong answers a code bears (5)
          Hands,          \* messages, or pages, being handled
          Papers,         \* payments, invoices and other rows of a customer
          Addresses,      \* email addresses
          Nobody          \* no handle, no row

Rows == 1 .. MaxRows
Codes == 1 .. MaxCodes

VARIABLES row,     \* users
          chat,    \* conversation_sessions: the state of each account's, "none" without a row
          ticket,  \* user_link_requests
          hand,    \* what the handler of each message knows
          paper,   \* whose each paper is
          proof,   \* the numbers whose code each account answered
          astray   \* papers filed under an account merged in the meantime

linkVars == <<row, chat, ticket, hand, paper, proof, astray>>

Spare == [of |-> Nobody, by |-> Nobody, to |-> Nobody, live |-> FALSE, tries |-> 0]
NoChat == [state |-> "none", phone |-> Nobody]
Waits == [at |-> "idle"]

NewRow(h) == [number |-> IF h \in Numbers THEN h ELSE Nobody,
              chat   |-> IF h \in Chats THEN h ELSE Nobody,
              met    |-> h \in Numbers,  \* a number is confirmed by writing from it
              into   |-> Nobody, there |-> h # Nobody]

LinkInit ==
  /\ row = [r \in Rows |-> NewRow(Opened[r])]
  /\ chat = [r \in Rows |-> NoChat]
  /\ ticket = [k \in Codes |-> Spare]
  /\ hand = [h \in Hands |-> Waits]
  /\ paper = [p \in Papers |-> Nobody]
  /\ proof = [r \in Rows |-> {}]
  /\ astray = {}

(***************************************************************************)
(* Accounts                                                                *)
(***************************************************************************)
Merged(r) == row[r].into # Nobody
Hop(r) == IF Merged(r) THEN row[r].into ELSE r
\* ResolvePrimaryUser follows at most eight tombstones.
Primary(r) == Hop(Hop(Hop(Hop(Hop(Hop(Hop(Hop(r))))))))

Writes(h, r) == row[r].there /\ h \in {row[r].number, row[r].chat}
Known(h) == \E r \in Rows : Writes(h, r)
RowOf(h) == CHOOSE r \in Rows : Writes(h, r)

FindUserByWhatsAppNumber(n) == IF Known(n) THEN Primary(RowOf(n)) ELSE Nobody

Proceeds(h, at) == hand' = [hand EXCEPT ![h].at = at]
Answered(h) == hand' = [hand EXCEPT ![h] = Waits]

\* Where Handle takes a message: MENU works everywhere; a channel that was never
\* confirmed is asked to confirm; then the state decides.  What would change nothing
\* is left out: MENU in the menu, a paper when every one is filed.
Handlers(by, u) ==
  {s \in {"menu"} : chat[u].state # "menu"} \cup
  IF by \in Chats /\ ~row[u].met THEN {"confirm"}
  ELSE CASE chat[u].state = "link_phone" -> {"phone"}
         [] chat[u].state = "link_code"  -> {"mint", "code"}
         [] OTHER -> {s \in {"work"} : \E p \in Papers : paper[p] = Nobody}
                     \cup {s \in {"start"} : by \in Chats /\ row[u].number = Nobody}

\* resolveUser and LoadSession.
Dispatch(h, by, u) ==
  \E to \in Handlers(by, u) :
    hand' = [hand EXCEPT ![h] = [at |-> to, by |-> by, user |-> u, phone |-> chat[u].phone]]

Receive(h, by) ==
  /\ hand[h] = Waits
  /\ Known(by) /\ ~Merged(Primary(RowOf(by)))
  /\ Dispatch(h, by, Primary(RowOf(by)))
  /\ UNCHANGED <<row, chat, ticket, paper, proof, astray>>

\* GetOrCreateUser, GetOrCreateTelegramUser: a handle no row has opens an account.
GetOrCreateUser(by) ==
  /\ ~Known(by)
  /\ \E r \in Rows :
       /\ ~row[r].there /\ \A q \in Rows : q < r => row[q].there
       /\ row' = [row EXCEPT ![r] = NewRow(by)]
  /\ UNCHANGED <<chat, ticket, hand, paper, proof, astray>>

SaveChat(u, s, n) == chat' = [chat EXCEPT ![u] = [state |-> s, phone |-> n]]

Menu(h) ==
  /\ hand[h].at = "menu"
  /\ SaveChat(hand[h].user, "menu", Nobody)
  /\ Answered(h) /\ UNCHANGED <<row, ticket, paper, proof, astray>>

Meets(u) == row' = [row EXCEPT ![u].met = TRUE]

Confirm(h) ==
  /\ hand[h].at = "confirm"
  /\ Meets(hand[h].user) /\ SaveChat(hand[h].user, "menu", Nobody)
  /\ Answered(h) /\ UNCHANGED <<ticket, paper, proof, astray>>

\* An approved customer is only introduced; the conversation stays where it is.
MarkChannelOnboarded(h) ==
  /\ hand[h].at = "confirm"
  /\ Meets(hand[h].user)
  /\ Answered(h) /\ UNCHANGED <<chat, ticket, paper, proof, astray>>

\* Any other request: it files a paper under the account the message loaded.
Work(h) ==
  /\ hand[h].at = "work"
  /\ \E p \in Papers :
       /\ paper[p] = Nobody
       /\ paper' = [paper EXCEPT ![p] = hand[h].user]
       /\ astray' = IF Merged(hand[h].user) THEN astray \cup {p} ELSE astray
  /\ Answered(h) /\ UNCHANGED <<row, chat, ticket, proof>>

\* The handler fails, or the process dies.
Fails(h) ==
  /\ hand[h] # Waits /\ Answered(h)
  /\ UNCHANGED <<row, chat, ticket, paper, proof, astray>>

(***************************************************************************)
(* Linking                                                                 *)
(***************************************************************************)
StartLinkAccounts(h) ==
  /\ hand[h].at = "start"
  /\ SaveChat(hand[h].user, "link_phone", Nobody)
  /\ Answered(h) /\ UNCHANGED <<row, ticket, paper, proof, astray>>

\* Another account has the number, and this one has none.
Linkable(u, n) ==
  FindUserByWhatsAppNumber(n) \notin {Nobody, u} /\ row[u].number = Nobody

HandleLinkPhone(h, n) ==
  /\ hand[h].at = "phone"
  /\ IF Linkable(hand[h].user, n)
     THEN hand' = [hand EXCEPT ![h].at = "mint", ![h].phone = n]
     ELSE Answered(h)
  /\ UNCHANGED <<row, chat, ticket, paper, proof, astray>>

\* The channel a code is for, as the channel of the handle that asked.
SameChannel(a, b) == (a \in Chats) <=> (b \in Chats)
LiveOf(u, by) == {k \in Codes : ticket[k].live /\ ticket[k].of = u /\ SameChannel(ticket[k].by, by)}

\* CreateLinkRequest reads, then writes: a code of the last minute refuses another.
CheckCooldown(h) ==
  /\ hand[h].at = "mint"
  /\ \/ Proceeds(h, "insert")
     \/ LiveOf(hand[h].user, hand[h].by) # {} /\ Answered(h)
  /\ UNCHANGED <<row, chat, ticket, paper, proof, astray>>

NextCode(k) == ticket[k].of = Nobody /\ \A j \in Codes : j < k => ticket[j].of # Nobody

CreateLinkRequest(h) ==
  /\ hand[h].at = "insert"
  /\ \E k \in Codes :
       /\ NextCode(k)
       /\ ticket' = [j \in Codes |->
            IF j = k THEN [of |-> hand[h].user, by |-> hand[h].by, to |-> hand[h].phone,
                           live |-> TRUE, tries |-> 0]
            ELSE IF j \in LiveOf(hand[h].user, hand[h].by) THEN [ticket[j] EXCEPT !.live = FALSE]
            ELSE ticket[j]]
  /\ Proceeds(h, "sent") /\ UNCHANGED <<row, chat, paper, proof, astray>>

SendLinkCode(h) ==
  /\ hand[h].at = "sent"
  /\ SaveChat(hand[h].user, "link_code", hand[h].phone)
  /\ Answered(h) /\ UNCHANGED <<row, ticket, paper, proof, astray>>

\* Mutant: any code of the account will do.
ForNumberMutant(k, n) == TRUE
\* phone_digest: a code is good for the number it was sent to.
ForNumber(k, n) == ticket[k].to = n

Candidates(h) == {k \in LiveOf(hand[h].user, hand[h].by) : ForNumber(k, hand[h].phone)}
Latest(ks) == CHOOSE k \in ks : \A j \in ks : j <= k

\* The latest code of the number, its row locked: MaxTries wrong answers end it.  It
\* may have expired.
VerifyLinkRequest(h) ==
  /\ hand[h].at = "code"
  /\ LET ks == Candidates(h) IN
     \/ Answered(h) /\ UNCHANGED <<ticket, proof>>  \* none, or expired
     \/ /\ ks # {} /\ Answered(h) /\ UNCHANGED proof  \* wrong, or right too astray
        /\ ticket' = [ticket EXCEPT ![Latest(ks)].tries = IF @ < MaxTries THEN @ + 1 ELSE @]
     \/ /\ ks # {} /\ ticket[Latest(ks)].tries < MaxTries
        /\ ticket' = [ticket EXCEPT ![Latest(ks)].live = FALSE]
        /\ proof' = [proof EXCEPT ![hand[h].user] = @ \cup {ticket[Latest(ks)].to}]
        /\ Proceeds(h, "owner")
  /\ UNCHANGED <<row, chat, paper, astray>>

HandleLinkCode(h) ==
  /\ hand[h].at = "owner"
  /\ LET holder == FindUserByWhatsAppNumber(hand[h].phone) IN
     IF holder \in {Nobody, hand[h].user} THEN Answered(h)
     ELSE hand' = [hand EXCEPT ![h] =
            [at |-> "merge", by |-> @.by, user |-> @.user, phone |-> @.phone, into |-> holder]]
  /\ UNCHANGED <<row, chat, ticket, paper, proof, astray>>

\* The handle is on a third row: its index refuses the merge.
Clashes(h) ==
  \E r \in Rows \ {hand[h].user, hand[h].into} : hand[h].by \in Chats /\ Writes(hand[h].by, r)

\* The handle leaves the tombstone for the survivor.  A WhatsApp chat hands over no
\* handle: channelHandleForUser knows the other channels only.
Transferred(h) ==
  LET source == hand[h].user
      target == hand[h].into
  IN IF hand[h].by \in Chats
     THEN [row EXCEPT ![source].chat = Nobody, ![source].into = target,
                      ![target].chat = hand[h].by, ![target].met = TRUE]
     ELSE [row EXCEPT ![source].number = Nobody, ![source].into = target,
                      ![target].number = Nobody]

\* Mutant: the papers stay where they are.
ReparentedMutant(source, target) == paper
\* Every row keyed on the source goes to the target; of one per account the target's
\* is kept.
Reparented(source, target) == [p \in Papers |-> IF paper[p] = source THEN target ELSE paper[p]]
OneSession(source, target) ==
  [chat EXCEPT ![source] = NoChat, ![target] = IF @ = NoChat THEN chat[source] ELSE @]

MergeUsers(h) ==
  /\ hand[h].at = "merge"
  /\ IF Clashes(h) THEN Answered(h) /\ UNCHANGED <<row, chat, paper>>
     ELSE /\ row' = Transferred(h)
          /\ paper' = Reparented(hand[h].user, hand[h].into)
          /\ chat' = OneSession(hand[h].user, hand[h].into)
          /\ Proceeds(h, "linked")
  /\ UNCHANGED <<ticket, proof, astray>>

\* The session is saved as loaded: it is the tombstone's again.
Linked(h) ==
  /\ hand[h].at = "linked"
  /\ SaveChat(hand[h].user, "menu", Nobody)
  /\ Answered(h) /\ UNCHANGED <<row, ticket, paper, proof, astray>>

LinkNext ==
  \/ \E by \in Chats \cup Numbers : GetOrCreateUser(by) \/ \E h \in Hands : Receive(h, by)
  \/ \E h \in Hands :
       \/ Menu(h) \/ Confirm(h) \/ MarkChannelOnboarded(h) \/ Work(h) \/ Fails(h)
       \/ StartLinkAccounts(h) \/ \E n \in Numbers : HandleLinkPhone(h, n)
       \/ CheckCooldown(h) \/ CreateLinkRequest(h) \/ SendLinkCode(h)
       \/ VerifyLinkRequest(h) \/ HandleLinkCode(h) \/ MergeUsers(h) \/ Linked(h)

LinkSpec == LinkInit /\ [][LinkNext]_linkVars

(***************************************************************************)
(* The confirmation of an email address                                    *)
(***************************************************************************)
VARIABLES mail,   \* users.email, email_verified_at
          slip,   \* email_verification_codes
          page,   \* the form, or the chat, where an address is entered
          typed   \* addresses whose code was entered

mailVars == <<mail, slip, page, typed>>

NoSlip == [to |-> Nobody, live |-> FALSE, tries |-> 0]

MailInit ==
  /\ mail = [address |-> Nobody, verified |-> FALSE]
  /\ slip = [k \in Codes |-> NoSlip]
  /\ page = [h \in Hands |-> [at |-> "address", address |-> Nobody]]
  /\ typed = {}

Shows(h, at, a) == page' = [page EXCEPT ![h] = [at |-> at, address |-> a]]

\* Mutant: the verification of the old address is kept.
StillVerifiedMutant(a) == mail.verified
\* Another address is not verified.
StillVerified(a) == mail.verified /\ mail.address = a

UpdateUserEmail(a) == mail' = [address |-> a, verified |-> StillVerified(a)]

EnterAddress(h, a) ==
  /\ page[h].at \in {"address", "code"}
  /\ UpdateUserEmail(a)
  /\ Shows(h, "check", a) /\ UNCHANGED <<slip, typed>>

\* The Partner API and an order by SMS write the address too, and ask for no code.
AddressFromElsewhere(a) ==
  /\ UpdateUserEmail(a) /\ UNCHANGED <<slip, page, typed>>

LiveFor(a) == {k \in Codes : slip[k].live /\ slip[k].to = a}

CheckResend(h) ==
  /\ page[h].at = "check"
  /\ \/ Shows(h, "insert", page[h].address)
     \/ LiveFor(page[h].address) # {} /\ Shows(h, "code", page[h].address)
  /\ UNCHANGED <<mail, slip, typed>>

CreateEmailVerificationCode(h) ==
  /\ page[h].at = "insert"
  /\ \E k \in Codes :
       /\ slip[k].to = Nobody /\ \A j \in Codes : j < k => slip[j].to # Nobody
       /\ slip' = [j \in Codes |->
            IF j = k THEN [to |-> page[h].address, live |-> TRUE, tries |-> 0]
            ELSE IF j \in LiveFor(page[h].address) THEN [slip[j] EXCEPT !.live = FALSE]
            ELSE slip[j]]
  /\ Shows(h, "code", page[h].address) /\ UNCHANGED <<mail, typed>>

\* Mutant: the account is marked whatever its address is by now.
StillHisMutant(a) == TRUE
\* The UPDATE matches the account while the address is still its own.
StillHis(a) == mail.address = a

\* Right: the address is verified and every code of it is spent; if the address has
\* changed since, the whole is rolled back.  Wrong: one try less.
VerifyEmailCode(h) ==
  /\ page[h].at = "code" /\ LiveFor(page[h].address) # {}
  /\ LET a == page[h].address
         k == Latest(LiveFor(a))
     IN \/ /\ slip' = [slip EXCEPT ![k].tries = IF @ < MaxTries THEN @ + 1 ELSE @]
           /\ UNCHANGED <<mail, page, typed>>
        \/ /\ slip[k].tries < MaxTries
           /\ typed' = typed \cup {a}
           /\ IF StillHis(a)
              THEN /\ mail' = [mail EXCEPT !.verified = TRUE]
                   /\ slip' = [j \in Codes |-> IF j \in LiveFor(a) THEN [slip[j] EXCEPT !.live = FALSE]
                                               ELSE slip[j]]
                   /\ Shows(h, "address", Nobody)
              ELSE UNCHANGED <<mail, slip, page>>

MailNext ==
  \/ \E a \in Addresses : AddressFromElsewhere(a) \/ \E h \in Hands : EnterAddress(h, a)
  \/ \E h \in Hands : CheckResend(h) \/ CreateEmailVerificationCode(h) \/ VerifyEmailCode(h)

MailSpec == MailInit /\ [][MailNext]_mailVars

(***************************************************************************)
(* Properties                                                              *)
(***************************************************************************)
\* Following the tombstones from any account ends at one that is not merged
\* (ResolvePrimaryUser would fail its every message).
Resolvable == \A r \in Rows : ~Merged(Primary(r))

\* An account was merged only into the owner of a number whose code it answered
\* (handleLinkCode).
LinkedByProof ==
  \A r \in Rows : Merged(r) => \E n \in proof[r] : FindUserByWhatsAppNumber(n) \in {Primary(r), Nobody}

\* What a merged account had is the survivor's, except what a message loaded before
\* the merge filed after it (MergeUsers).
PapersFollow == \A p \in Papers : paper[p] \in Rows => ~Merged(paper[p]) \/ p \in astray

\* A verified address is one whose code was entered (UpdateUserEmail, VerifyEmailCode).
EmailIsProven == mail.verified => mail.address \in typed

LinkSafe == Resolvable /\ LinkedByProof /\ PapersFollow

\* Not checked: a chat that was linked stays linked; another chat linked to the same
\* number takes its place and the first is a stranger again.
LinkStays == [][\A c \in Chats, r \in Rows :
                  row[r].chat = c /\ row[r].number # Nobody => row'[Primary(r)].chat = c]_linkVars

\* Not checked: a merge that carries the session over leaves the survivor in it.
SurvivorIsFree == \A r \in Rows : chat[r].state \in {"link_phone", "link_code"} => row[r].number = Nobody
=============================================================================
