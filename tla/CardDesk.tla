------------------------------- MODULE CardDesk -------------------------------
(***************************************************************************)
(* Physical cards (internal/store/store_card_requests.go,                  *)
(* app/card_requests.go, service/conversation_cards.go, migration 106): a  *)
(* customer asks for a card in a chat, compliance approves it, an operator *)
(* records that the plastic reached an agent of the customer's area and    *)
(* sends a one-time code, and the agent hands the card over against it.    *)
(*                                                                         *)
(* The check for an open request and its insert are two steps of one       *)
(* transaction that locks nothing; the partial unique index decides.  The  *)
(* code is sent after the commit and may be lost.  Everything else is one  *)
(* transaction on a locked row and one action here.  The attempt lock of a *)
(* code is left out: no code counts an attempt.                            *)
(***************************************************************************)
EXTENDS Naturals, FiniteSets

CONSTANTS Cards,      \* requests
          Customers,
          Areas,      \* active collection areas
          Tellers,    \* active agents
          HomeOf,     \* the area of each agent
          Gates,      \* the readiness gates of the issuer
          Chats,      \* channels on which a confirmation is being worked off
          NoOne,      \* no customer, no area, no agent, no request yet
          MaxPickups  \* bound: codes drawn in one behaviour

ASSUME HomeOfAssumption == HomeOf \in [Tellers -> Areas]

VARIABLES card,      \* card_requests
          code,      \* card_request_pickups
          sent,      \* codes that reached the customer
          attested,  \* card_issuer_readiness: gates attested ready
          chat       \* confirmations between the check and the insert

cardVars == <<card, code, sent, attested, chat>>

Codes == 1 .. MaxPickups
Quiet == [by |-> NoOne, area |-> NoOne]

CardInit ==
  /\ card = [r \in Cards |-> [state |-> "none", by |-> NoOne, area |-> NoOne, agent |-> NoOne]]
  /\ code = [x \in Codes |-> [card |-> NoOne, state |-> "none"]]
  /\ sent = {}
  /\ attested = {}
  /\ chat = [h \in Chats |-> Quiet]

(***************************************************************************)
(* CreateCardRequest                                                       *)
(***************************************************************************)
Open == {"requested", "approved", "ready"}
OpenOf(u) == {r \in Cards : card[r].by = u /\ card[r].state \in Open}

CheckOpen(h, u, a) ==
  /\ chat[h] = Quiet
  /\ OpenOf(u) = {}
  /\ chat' = [chat EXCEPT ![h] = [by |-> u, area |-> a]]
  /\ UNCHANGED <<card, code, sent, attested>>

\* Mutant: the index is missing.
OpenUserIndexMutant(u) == u # NoOne
\* card_requests_open_user_idx
OpenUserIndex(u) == OpenOf(u) = {}

InsertRequest(h, r) ==
  /\ chat[h] # Quiet
  /\ card[r].state = "none"
  /\ card' = IF OpenUserIndex(chat[h].by)
             THEN [card EXCEPT ![r] = [state |-> "requested", by |-> chat[h].by,
                                       area |-> chat[h].area, agent |-> NoOne]]
             ELSE card
  /\ chat' = [chat EXCEPT ![h] = Quiet]
  /\ UNCHANGED <<code, sent, attested>>

(***************************************************************************)
(* The compliance console                                                  *)
(***************************************************************************)
ReviewCardRequest(r) ==
  /\ card[r].state = "requested"
  /\ \E to \in {"approved", "rejected"} : card' = [card EXCEPT ![r].state = to]
  /\ UNCHANGED <<code, sent, attested, chat>>

AttestCardIssuerGate ==
  /\ \E g \in Gates : attested' \in {attested \cup {g}, attested \ {g}} \ {attested}
  /\ UNCHANGED <<card, code, sent, chat>>

\* A code is drawn with its row.
Drawn(x) == \A y \in Codes : (y < x) <=> (code[y].state # "none")

\* Mutant: the code it replaces stays good.
RetiredMutant(r) == code
\* The pending code of the request expires.
Retired(r) == [x \in Codes |-> IF code[x] = [card |-> r, state |-> "pending"]
                              THEN [code[x] EXCEPT !.state = "expired"] ELSE code[x]]
NewCode(r, x) == code' = [Retired(r) EXCEPT ![x] = [card |-> r, state |-> "pending"]]

\* Mutant: any active agent will do.
InAreaMutant(t, r) == t \in Tellers
InArea(t, r) == HomeOf[t] = card[r].area

MarkCardRequestReady(r, t, x) ==
  /\ card[r].state = "approved"
  /\ attested = Gates
  /\ InArea(t, r)
  /\ Drawn(x)
  /\ NewCode(r, x)
  /\ card' = [card EXCEPT ![r].state = "ready", ![r].agent = t]
  /\ UNCHANGED <<sent, attested, chat>>

ReissueCardPickupCode(r, x) ==
  /\ card[r].state = "ready"
  /\ Drawn(x)
  /\ NewCode(r, x)
  /\ UNCHANGED <<card, sent, attested, chat>>

\* deliverCardPickupCode, after the commit: it may never happen, and a code
\* already replaced may still arrive.
DeliverCardPickupCode(x) ==
  /\ code[x].state # "none"
  /\ x \notin sent
  /\ sent' = sent \cup {x}
  /\ UNCHANGED <<card, code, attested, chat>>

(***************************************************************************)
(* CollectCardRequest: the agent presents a code the customer brought.     *)
(***************************************************************************)
Candidate(t, x) == /\ code[x].state = "pending"
                   /\ card[code[x].card].state = "ready"
                   /\ card[code[x].card].agent = t

CollectCardRequest(t, x) ==
  /\ x \in sent /\ Candidate(t, x)
  /\ InArea(t, code[x].card)
  /\ code' = [code EXCEPT ![x].state = "redeemed"]
  /\ card' = [card EXCEPT ![code[x].card].state = "collected"]
  /\ UNCHANGED <<sent, attested, chat>>

\* Its time is over when it is presented.
CollectExpired(t, x) ==
  /\ x \in sent /\ Candidate(t, x)
  /\ code' = [code EXCEPT ![x].state = "expired"]
  /\ UNCHANGED <<card, sent, attested, chat>>

CardNext ==
  \/ \E h \in Chats : \/ \E u \in Customers, a \in Areas : CheckOpen(h, u, a)
                      \/ \E r \in Cards : InsertRequest(h, r)
  \/ \E r \in Cards : \/ ReviewCardRequest(r)
                      \/ \E x \in Codes : \/ ReissueCardPickupCode(r, x)
                                          \/ \E t \in Tellers : MarkCardRequestReady(r, t, x)
  \/ \E x \in Codes : \/ DeliverCardPickupCode(x)
                      \/ \E t \in Tellers : CollectCardRequest(t, x) \/ CollectExpired(t, x)
  \/ AttestCardIssuerGate

CardSpec == CardInit /\ [][CardNext]_cardVars

(***************************************************************************)
(* Properties                                                              *)
(***************************************************************************)
\* Two confirmations on two channels open one request (CreateCardRequest).
OneOpenCard == \A u \in Customers : Cardinality(OpenOf(u)) <= 1

\* Only the last code of a card opens it, and only while it waits at an agent
\* of the customer's area, whatever was reissued, delivered late or presented
\* twice; a card is handed over against exactly one code (ReissueCardPickupCode,
\* CollectCardRequest).
OneCodeOneCard ==
  \A r \in Cards :
    LET With(s) == {x \in Codes : code[x] = [card |-> r, state |-> s]}
    IN /\ Cardinality(With("pending")) <= (IF card[r].state = "ready" THEN 1 ELSE 0)
       /\ Cardinality(With("redeemed")) = (IF card[r].state = "collected" THEN 1 ELSE 0)
       /\ card[r].state = "ready" => HomeOf[card[r].agent] = card[r].area

CardSafe == OneOpenCard /\ OneCodeOneCard
=============================================================================
