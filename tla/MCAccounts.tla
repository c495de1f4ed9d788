------------------------------ MODULE MCAccounts ------------------------------
(***************************************************************************)
(* The customer's side beside the money: the conversation, the browser     *)
(* flows, the ladders of persons and of businesses, and the card desk.     *)
(* They share no state that their properties tell apart, so a behaviour is *)
(* one of them.                                                            *)
(***************************************************************************)
EXTENDS Dialogue, Ladder, CardDesk, WebFlow, TLC

CONSTANTS u1, u2, n1, c1, c2, k1, k2, e1, s1, s2, t1, t2, r1, r2, g1, m1, none

VARIABLE focus  \* the part of this behaviour

AccountsInit ==
  /\ focus \in {"dialogue", "ladder", "business", "card", "browser"}
  /\ DialogueInit /\ LadderInit /\ BusinessInit /\ CardInit /\ WebInit
  /\ focus # "browser" => flow.kind = "topup" /\ flow.page.at = ""  \* any one flow

AccountsNext ==
  /\ UNCHANGED focus
  /\ \/ focus = "dialogue" /\ DialogueNext /\ UNCHANGED <<ladderVars, businessVars, cardVars, webVars>>
     \/ focus = "ladder" /\ LadderNext /\ UNCHANGED <<dialogueVars, businessVars, cardVars, webVars>>
     \/ focus = "business" /\ BusinessNext /\ UNCHANGED <<dialogueVars, ladderVars, cardVars, webVars>>
     \/ focus = "card" /\ CardNext /\ UNCHANGED <<dialogueVars, ladderVars, businessVars, webVars>>
     \/ focus = "browser" /\ WebNext /\ UNCHANGED <<dialogueVars, ladderVars, businessVars, cardVars>>

AccountsSpec ==
  AccountsInit /\ [][AccountsNext]_<<focus, dialogueVars, ladderVars, businessVars, cardVars, webVars>>

\* The parts are never in one behaviour, so they share the names of who acts.
TwoPersons  == {u1, u2}  \* customers
OneNumber   == {n1}
TwoHands    == {c1, c2}  \* requests in progress, channels
TwoKeys     == {k1, k2}
OneEdition  == {e1}
OneFirm     == {m1}
TwoAreas    == {s1, s2}
TwoTellers  == {t1, t2}
HomeArea    == [t \in TwoTellers |-> IF t = t1 THEN s1 ELSE s2]
TwoCards    == {r1, r2}
OneGate     == {g1}
RacePoints  == {"confirm_payment"}
RaceFlows   == {"topup", "thrift_contribute", "thrift_join", "onboard"}

\* No property tells them apart.
Symmetry == Permutations(TwoHands) \union Permutations(TwoKeys)

(***************************************************************************)
(* Properties                                                              *)
(***************************************************************************)
\* A tier is earned and a number has one owner (Ladder), a business passed the
\* corporate gate and is frozen once thrown back (Ladder), a card is opened
\* once and handed over once (CardDesk), and a browser flow forgets nothing, can be
\* found by the payment it waits for and reports once (WebFlow).
AccountsSafe == LadderSafe /\ BusinessSafe /\ CardSafe /\ BrowserSafe
=============================================================================
