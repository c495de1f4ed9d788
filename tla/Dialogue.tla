------------------------------- MODULE Dialogue -------------------------------
(***************************************************************************)
(* The conversation of one customer (internal/service/conversation.go,     *)
(* conversation_helpers.go, conversation_menu.go): one session row shared  *)
(* by every channel the customer writes on.  A message loads the session,  *)
(* is taken by a global command, by the onboarding gate, by the question   *)
(* whether to switch, or by the handler of the session's state, and the    *)
(* handler saves the session it leaves.                                    *)
(*                                                                         *)
(* Messages of one channel are worked off one after the other.  A message  *)
(* of a second channel may load the session in the meantime and overwrite  *)
(* what the first one saved.                                               *)
(***************************************************************************)
EXTENDS Naturals

(***************************************************************************)
(* The session as the handlers see it (internal/service/conversation*.go): *)
(* the state the next message is dispatched on and the named data kept     *)
(* with it.  A handler is modelled by the set of its outcomes, one row per *)
(* way it can end with a change: the session it saves and what it does     *)
(* besides.  Which row is taken is decided by the customer's input and by  *)
(* what the store answers; a refused input changes nothing and has no row. *)
(*                                                                         *)
(* Of the data only the presence of a field is kept, and of the fields     *)
(* those that a later handler reads; a field always written together with  *)
(* another is represented by that one.                                     *)
(***************************************************************************)
NoPrev == [at |-> "none", has |-> {}, pay |-> 0]

(* store.Session.  prev is the session a switch question put aside.        *)
Fresh(state, fields) == [at |-> state, has |-> fields, prev |-> NoPrev, pay |-> 0]
Idle == Fresh("menu", {})
To(s, state) == [s EXCEPT !.at = state]
Put(s, fields) == [s EXCEPT !.has = @ \cup fields]
Drop(s, fields) == [s EXCEPT !.has = @ \ fields]

(* What a handler does besides saving the session:                         *)
(*   none      a reply, or a write no property looks at                    *)
(*   checkout  a payment is drafted and its link sent                      *)
(*   review    a wallet payment is drafted and becomes the session's own   *)
(*   confirm   the session's wallet payment is confirmed                   *)
(*   abandon   the session's payment, or that of prev, is given up         *)
(*   lost      the handler did not find a field it reads                   *)
Row(s, do) == [s |-> s, do |-> do]
Say(sessions) == {Row(s, "none") : s \in sessions}

(* The rows of a handler that reads the fields: without one of them it     *)
(* fails, panics on a parse, or tells the customer the session expired.    *)
Reading(s, fields, rows) == IF fields \subseteq s.has THEN rows ELSE {Row(s, "lost")}

(* A draft whose link is sent after the session went back to the menu; and *)
(* one for the wallet, which the session keeps (beginWalletConfirm).       *)
SendCheckout == Row(Idle, "checkout")
BeginWalletConfirm(s) == Row(To(s, "confirm_payment"), "review")
-----------------------------------------------------------------------------
(***************************************************************************)
(* The conversations that end in a payment or a money movement: paying a   *)
(* merchant, buying data, topping up and cashing out the wallet, sending   *)
(* money to a person, sending cash for pickup, and requesting a card.      *)
(* Sources: conversation_menu.go, conversation_merchant.go,                *)
(* conversation_payment.go, conversation_data.go, conversation_wallet.go,  *)
(* conversation_wallet_cashout.go, conversation_individual_pay.go,         *)
(* conversation_remittance.go, conversation_cards.go.                      *)
(***************************************************************************)

(***************************************************************************)
(* Paying a merchant.                                                      *)
(***************************************************************************)
StartPay == Say({Fresh("select_merchant", {})})

(* A merchant that vanished sends the customer back to the picker with     *)
(* everything chosen so far still in the session.                          *)
MerchantGone(s) == Say({To(s, "select_merchant")})

HandleMerchant(s) ==
    LET chosen == Put(s, {"merchant_slug"})
    IN Say({To(chosen, "select_service_or_amount"), To(chosen, "enter_amount")})

HandleServiceOrAmount(s) ==
    Reading(s, {"merchant_slug"},
        MerchantGone(s)
        \cup Say({To(s, "enter_amount"),
                  To(Put(s, {"service_id", "unit_price_kobo"}), "enter_service_quantity"),
                  To(Put(s, {"event_id"}), "select_event_tier")}))

HandleEventTierSelection(s) ==
    Reading(s, {"merchant_slug", "event_id"},
        MerchantGone(s)
        \cup Say({To(s, "select_service_or_amount"),
                  To(Put(Drop(s, {"event_id"}), {"event_tier_id", "unit_price_kobo"}), "enter_service_quantity")}))

(* An event ticket is recognised by its tier; otherwise the service is     *)
(* parsed with MustParse.                                                  *)
HandleServiceQuantity(s) ==
    Reading(s, {"unit_price_kobo"} \cup (IF "event_tier_id" \in s.has THEN {} ELSE {"service_id"}),
        LET counted == Put(s, {"service_quantity", "amount_kobo"})
        IN Say({To(counted, "collect_custom_fields"), To(counted, "confirm_service_purchase")}))

HandleCollectCustomFields(s) ==
    Reading(s, {"unit_price_kobo", "amount_kobo", "service_quantity"},
        Say({To(s, "confirm_service_purchase"),
             To(Put(s, {"custom_data_json"}), "confirm_service_purchase")}))

HandleConfirmServicePurchase(s) ==
    Reading(s, {"merchant_slug", "amount_kobo"},
        Say({To(s, "select_payment_method"), Fresh("select_merchant", {})}))

HandleAmount(s) ==
    Reading(s, {"merchant_slug"},
        MerchantGone(s) \cup Say({To(Put(s, {"amount_kobo"}), "select_payment_method")}))

HandlePaymentMethod(s) ==
    Reading(s, {"merchant_slug", "amount_kobo"},
        MerchantGone(s) \cup {SendCheckout, BeginWalletConfirm(s)})

(* Only a wallet payment is confirmed in chat; a refused confirmation      *)
(* keeps the session.                                                      *)
HandleConfirmation(s) ==
    IF s.pay = 0 THEN {Row(s, "lost")} ELSE {Row(Idle, "confirm")}

(***************************************************************************)
(* Mobile data.                                                            *)
(***************************************************************************)
StartData == Say({Fresh("select_data_network", {})})
HandleDataNetwork(s) == Say({To(Put(s, {"data_network"}), "select_data_plan")})
HandleDataPlan(s) ==
    Reading(s, {"data_network"}, Say({To(Put(s, {"data_plan"}), "enter_data_phone")}))
HandleDataPhone(s) ==
    Reading(s, {"data_plan"}, Say({To(Put(s, {"data_phone"}), "confirm_data_order"), Idle}))
HandleDataOrderConfirmation(s) ==
    Reading(s, {"data_plan", "data_phone"},
        {SendCheckout, BeginWalletConfirm(Put(s, {"data_order_id"}))})
(* No handler enters this state.                                           *)
HandleDataPaymentMethod(s) ==
    Reading(s, {"data_order_id"}, {SendCheckout, BeginWalletConfirm(s)})

(***************************************************************************)
(* The wallet: adding money and cashing out.                               *)
(***************************************************************************)
StartWalletTopup == Say({Fresh("wallet_topup_amount", {})})
HandleWalletTopupAmount(s) == Say({To(Put(s, {"amount_kobo"}), "wallet_topup_method")})
HandleWalletTopupMethod(s) == Reading(s, {"amount_kobo"}, {SendCheckout} \cup Say({Idle}))

StartWalletCashOut == Say({Fresh("wallet_withdraw_amount", {})})
HandleWalletCashOutAmount(s) == Say({To(Put(s, {"amount_kobo"}), "wallet_withdraw_bank")})
HandleWalletCashOutBank(s) == Say({To(Put(s, {"bank_code"}), "wallet_withdraw_account")})
HandleWalletCashOutAccount(s) ==
    Reading(s, {"amount_kobo", "bank_code"},
        Say({To(Put(s, {"account_number", "account_name", "fee_kobo"}), "wallet_withdraw_confirm"), Idle}))
HandleWalletCashOutConfirm(s) ==
    Reading(s, {"amount_kobo", "bank_code", "account_number", "account_name"}, Say({Idle}))

(***************************************************************************)
(* Money to a person.  The next question is the first one still open, so   *)
(* an instruction typed as one sentence may skip any of them.              *)
(***************************************************************************)
PayFields == {"recipient_phone", "amount_kobo", "bank_code", "account_number"}
FirstMissingIndividualPayStep(has) ==
    CASE "recipient_phone" \notin has -> "pay_individual_phone"
      [] "amount_kobo" \notin has -> "pay_individual_amount"
      [] "bank_code" \notin has -> "pay_individual_bank_code"
      [] "account_number" \notin has -> "pay_individual_account"
      [] OTHER -> "pay_individual_confirm"
NextPayStep(s, field) == LET t == Put(s, {field}) IN Say({To(t, FirstMissingIndividualPayStep(t.has))})

StartPayIndividual == Say({Fresh("pay_individual_phone", {})})
StartPayIndividualFromHint ==
    Say({Fresh(FirstMissingIndividualPayStep(known), known) : known \in SUBSET PayFields})
HandlePayIndividualPhone(s) == NextPayStep(s, "recipient_phone")
HandlePayIndividualAmount(s) == NextPayStep(s, "amount_kobo")
HandlePayIndividualBankCode(s) == NextPayStep(s, "bank_code")
(* Neither of these two states is entered by a handler.                    *)
HandlePayIndividualBankPick(s) == HandlePayIndividualBankCode(s)
InitPayIndividualBankTransfer(s) == Reading(s, PayFields, {SendCheckout} \cup Say({Idle}))
InitPayIndividualWallet(s) == Reading(s, PayFields, {BeginWalletConfirm(s)} \cup Say({Idle}))
HandlePayIndividualMethod(s) == InitPayIndividualBankTransfer(s)
HandlePayIndividualAccount(s) == Reading(s, {"amount_kobo", "bank_code"}, NextPayStep(s, "account_number"))
HandlePayIndividualConfirm(s) == InitPayIndividualBankTransfer(s) \cup InitPayIndividualWallet(s)

(***************************************************************************)
(* Cash for pickup.                                                        *)
(***************************************************************************)
StartSendToAgent == Say({Fresh("send_agent_name", {})})
HandleSendAgentName(s) == Say({To(Put(s, {"agent_recipient_name"}), "send_agent_phone")})
HandleSendAgentPhone(s) ==
    Reading(s, {"agent_recipient_name"}, Say({To(Put(s, {"agent_recipient_phone"}), "send_agent_amount")}))
HandleSendAgentAmount(s) == Say({To(Put(s, {"amount_kobo"}), "send_agent_region")})
HandleSendAgentRegion(s) ==
    Reading(s, {"amount_kobo"},
        Say({To(Put(s, {"region_id", "agent_merchant_id", "commission_kobo"}), "send_agent_confirm")}))
InitSendAgentBankTransfer(s) == SendCheckout
InitSendAgentWallet(s) == BeginWalletConfirm(s)
HandleSendAgentConfirm(s) ==
    Reading(s, {"agent_recipient_name", "agent_recipient_phone", "amount_kobo", "region_id",
                "agent_merchant_id", "commission_kobo"},
        {InitSendAgentBankTransfer(s), InitSendAgentWallet(s)} \cup Say({Idle}))

(***************************************************************************)
(* A physical card.  An area that lost its agent sends the customer back   *)
(* to the areas.                                                           *)
(***************************************************************************)
StartCardRequest == Say({Fresh("card_request_name", {})})
HandleCardRequestName(s) == Say({To(Put(s, {"cardholder_name"}), "card_request_region")})
HandleCardRequestRegion(s) == Say({To(Put(s, {"region_id"}), "card_request_confirm")})
SubmitCardRequest(s) == Say({Idle, To(s, "card_request_region")})
HandleCardRequestConfirm(s) ==
    Reading(s, {"cardholder_name", "region_id"}, SubmitCardRequest(s) \cup Say({Idle}))
-----------------------------------------------------------------------------
(***************************************************************************)
(* The conversations that fill in a form over several messages: saving     *)
(* groups, invoices, the profile, verification of a person, registration   *)
(* of a business and its upgrade, and linking a chat account.              *)
(* Sources: conversation_thrift.go, conversation_invoice.go,               *)
(* conversation_onboarding.go, conversation_individual.go,                 *)
(* conversation_merchant_register.go, conversation_allowances.go,          *)
(* conversation_link.go.                                                   *)
(***************************************************************************)

(***************************************************************************)
(* Creating a saving group, one answer per message or several at once.     *)
(***************************************************************************)
StartThriftCreation == Say({Fresh("thrift_name", {})})

\* One message may hold the name with any of the rest; the first missing
\* answer is asked for next.
HandleThriftConcatCreation(s) ==
    LET known(fields) == Put(s, {"thrift_name"} \cup fields)
    IN Say({To(known(f), "thrift_amount") : f \in SUBSET {"thrift_frequency", "thrift_target"}}
           \cup {To(known({"thrift_amount"} \cup f), "thrift_frequency") : f \in SUBSET {"thrift_target"}}
           \cup {To(known({"thrift_amount", "thrift_frequency"}), "thrift_target"),
                 To(known({"thrift_amount", "thrift_frequency", "thrift_target"}), "thrift_concat_review")})

HandleThriftName(s) ==
    HandleThriftConcatCreation(s) \cup Say({To(Put(s, {"thrift_name"}), "thrift_amount")})
HandleThriftAmount(s) == Say({To(Put(s, {"thrift_amount"}), "thrift_frequency")})
HandleThriftFrequency(s) == Say({To(Put(s, {"thrift_frequency"}), "thrift_target")})
HandleThriftTarget(s) ==
    Reading(s, {"thrift_name", "thrift_amount", "thrift_frequency"}, Say({Idle}))
HandleThriftConcatReview(s) ==
    Reading(s, {"thrift_name", "thrift_amount", "thrift_frequency", "thrift_target"}, Say({Idle}))

(***************************************************************************)
(* Editing, joining, activating and paying into a group.                   *)
(***************************************************************************)
StartThriftEdit == Say({Fresh("thrift_edit_field", {"thrift_edit_id"})})
HandleThriftEditField(s) ==
    Reading(s, {"thrift_edit_id"},
        Say({To(s, "thrift_edit_amount_value"), To(s, "thrift_edit_frequency_value"),
             To(s, "thrift_edit_members_value"), Idle}))
EditValue(s) == Reading(s, {"thrift_edit_id"}, Say({To(s, "thrift_edit_field")}))
HandleThriftEditAmountValue(s) == EditValue(s)
HandleThriftEditFrequencyValue(s) == EditValue(s)
HandleThriftEditMembersValue(s) == EditValue(s)

StartThriftJoin == Say({Fresh("thrift_join_confirm", {"thrift_name"})})
HandleThriftJoinConfirm(s) == Reading(s, {"thrift_name"}, Say({Idle}))

StartThriftActivation ==
    Say({Fresh("thrift_activate_order", {"thrift_group_id", "thrift_activation_members"})})
HandleThriftActivateOrder(s) ==
    Reading(s, {"thrift_group_id", "thrift_activation_members"}, Say({Idle}))

StartThriftContribution == Say({Fresh("thrift_pay_method", {"thrift_contribution_id"})})
HandleThriftPayMethod(s) ==
    Reading(s, {"thrift_contribution_id"}, {SendCheckout, BeginWalletConfirm(s)})

(***************************************************************************)
(* Writing an invoice.  invoice_items is present when the list is not      *)
(* empty; item_name stands for the item being entered.                     *)
(***************************************************************************)
StartInvoiceGeneration ==
    Say({Fresh("invoice_select_merchant", {}), Fresh("invoice_customer_phone", {"invoice_merchant_slug"})})
HandleInvoiceMerchant(s) ==
    Say({Fresh("invoice_customer_phone", {"invoice_merchant_slug"})}) \cup StartInvoiceGeneration
HandleInvoiceCustomerPhone(s) ==
    LET known == Put(s, {"invoice_customer_phone"})
    IN Say({To(Drop(known, {"invoice_items"}), "invoice_item_name"), To(known, "invoice_customer_email")})
HandleInvoiceCustomerEmail(s) ==
    Say({To(Drop(Put(s, {"invoice_customer_email"}), {"invoice_items"}), "invoice_item_name")})
HandleInvoiceItemName(s) ==
    Say({To(Put(s, {"invoice_item_name"}), "invoice_item_quantity"),
         To(Put(s, {"invoice_items"}), "invoice_add_item")})
HandleInvoiceItemQuantity(s) == Say({To(Put(s, {"invoice_item_quantity"}), "invoice_item_unit_price")})
HandleInvoiceItemUnitPrice(s) ==
    LET fields == {"invoice_item_name", "invoice_item_quantity"}
    IN Reading(s, fields, Say({To(Put(Drop(s, fields), {"invoice_items"}), "invoice_add_item")}))

\* Mutant: an item is changed without asking whether there is one.
HandleInvoiceAddItemMutant(s) ==
    Say({To(s, st) : st \in {"invoice_item_name", "invoice_delivery_fee", "invoice_edit_item", "invoice_remove_item"}})
\* Continuing is possible with an empty list as well; changing an item is not.
HandleInvoiceAddItem(s) ==
    Say({To(s, "invoice_item_name"), To(s, "invoice_delivery_fee")}
        \cup IF "invoice_items" \in s.has
             THEN {To(s, "invoice_edit_item"), To(s, "invoice_remove_item")} ELSE {})
HandleInvoiceEditItem(s) ==
    Reading(s, {"invoice_items"}, Say({To(Put(s, {"invoice_edit_index"}), "invoice_edit_field")}))
HandleInvoiceEditField(s) ==
    Reading(s, {"invoice_items"}, Say({To(Put(s, {"invoice_edit_field"}), "invoice_edit_value")}))
HandleInvoiceEditValue(s) ==
    LET fields == {"invoice_edit_index", "invoice_edit_field"}
    IN Reading(s, fields \cup {"invoice_items"}, Say({To(Drop(s, fields), "invoice_add_item")}))
HandleInvoiceRemoveItem(s) ==
    Reading(s, {"invoice_items"},
        Say({To(s, "invoice_add_item"), To(Drop(s, {"invoice_items"}), "invoice_add_item")}))

\* The review of an invoice that lost every item is answered "session expired".
SendInvoiceReview(s) ==
    Reading(s, {"invoice_merchant_slug", "invoice_customer_phone"},
        Say({IF "invoice_items" \in s.has THEN To(s, "invoice_review") ELSE Idle}))
HandleInvoiceDeliveryFee(s) == SendInvoiceReview(Put(s, {"invoice_delivery_fee"}))
\* No handler enters this state.
HandleInvoiceDueDate(s) == SendInvoiceReview(s)
HandleInvoiceReview(s) ==
    Reading(s, {"invoice_merchant_slug", "invoice_customer_phone", "invoice_items", "invoice_delivery_fee"},
        Say({Idle}))

(***************************************************************************)
(* Paying an invoice.  Any unknown answer to the method is read as FULL.   *)
(***************************************************************************)
StartInvoicePayment == Say({Fresh("invoice_pay_amount", {"invoice_reference"})})
HandleInvoicePayAmount(s) ==
    Reading(s, {"invoice_reference"}, Say({To(Put(s, {"invoice_pay_amount_kobo"}), "invoice_pay_method")}))
HandleInvoicePayMethod(s) ==
    Reading(s, {"invoice_reference", "invoice_pay_amount_kobo"},
        {SendCheckout, BeginWalletConfirm(s)} \cup HandleInvoicePayAmount(s))

(***************************************************************************)
(* The customer's own profile.  Details may arrive in parts.               *)
(***************************************************************************)
StartProfileCompletion == Say({Fresh("onboard_name", {})})
HandleNameAndEmail(s) ==
    Say({Fresh("onboard_email", {"name"}), To(Put(s, {"name", "email"}), "onboard_email_code")})
HandleOnboardEmailCode(s) ==
    Say({Fresh("onboard_email", {"name"} \cap s.has), To(s, "onboard_details")})
HandleOnboardDetails(s) ==
    Say({To(s, "onboard_details"), To(Put(s, {"dob"}), "onboard_confirm_account")})
HandleAccountConfirmation(s) ==
    Say({Idle, Fresh("onboard_name", {}), Fresh("onboard_email", {})})

(***************************************************************************)
(* Verification of a person, one level after another.                      *)
(***************************************************************************)
StartIndividualUpgrade ==
    Say({Fresh("individual_email", {}), Fresh("individual_email_code", {"email"})})
HandleIndividualEmail(s) == Say({Fresh("individual_email_code", {"email"}), Idle})
HandleIndividualEmailCode(s) ==
    Say({Fresh("individual_email", {}), Fresh("individual_legal_name", {"email"}), Idle})
\* A hit of the screening lists sends the person to manual review.
HandleIndividualDetails(s) ==
    Say({To(s, "individual_details"), To(s, "individual_id_details"), Idle})
HandleIndividualIDDetails(s) ==
    Say({To(s, "individual_id_details"), To(s, "individual_bvn_nin")})
HandleIndividualBVNNIN(s) ==
    Say({To(s, "individual_bvn_nin"), To(s, "individual_edd_details")})
HandleIndividualEDDDetails(s) ==
    Say({To(s, "individual_edd_details"), To(s, "individual_liveness")})
HandleIndividualLiveness(s) == Say({Idle})

(***************************************************************************)
(* Registering a business, and asking for its next tier.                   *)
(***************************************************************************)
StartMerchantRegistration ==
    Say({Fresh("merchant_register_email", {}), Fresh("merchant_register_email_code", {"email"})})
HandleMerchantRegistrationEmail(s) == Say({Fresh("merchant_register_email_code", {"email"}), Idle})
HandleMerchantRegistrationEmailCode(s) ==
    Say({Fresh("merchant_register_email", {}), Fresh("merchant_register_details", {"email"}), Idle})
HandleMerchantRegistrationDetails(s) ==
    Say({To(s, "merchant_register_details")}) \cup Reading(s, {"email"}, Say({Idle}))

StartKYBUpgradeRequestForMerchant ==
    Say({Fresh("kyb_request_details", {"merchant_id"}), Fresh("kyb_request_confirm", {"merchant_id"})})
StartKYBUpgradeRequest ==
    StartKYBUpgradeRequestForMerchant \cup Say({Fresh("kyb_request_select_merchant", {})})
HandleKYBRequestSelectMerchant(s) == StartKYBUpgradeRequestForMerchant
HandleKYBRequestConfirm(s) == Reading(s, {"merchant_id"}, Say({Idle}))
HandleKYBRequestDetails(s) == Reading(s, {"merchant_id"}, Say({Idle}))

(***************************************************************************)
(* Linking a chat account to the number that owns the customer's account.  *)
(* The fields of the session are kept.                                     *)
(***************************************************************************)
StartLinkAccounts(s) == Say({To(s, "link_phone")})
SendLinkCode(s) == Say({To(Put(s, {"link_phone"}), "link_code")})
HandleLinkPhone(s) == SendLinkCode(s)
HandleLinkCode(s) == Reading(s, {"link_phone"}, SendLinkCode(s) \cup Say({Idle}))

(***************************************************************************)
(* The row of a customer and the messages that work on it                  *)
(***************************************************************************)
CONSTANTS MaxDrafts,   \* bound: payments drafted in one behaviour
          RaceStates   \* bound: states in which a second channel loads the session

VARIABLES session,  \* the row of conversation_sessions
          stale,    \* the session a second channel's message loaded, or NoSession
          pays      \* the payments drafted by the conversation

dialogueVars == <<session, stale, pays>>

Drafts == 1 .. MaxDrafts
NoSession == Fresh("none", {})

DialogueInit ==
  /\ session = Idle
  /\ stale = NoSession
  /\ pays = [p \in Drafts |-> "none"]

(***************************************************************************)
(* The menu: every service starts a browser flow on the channels that have *)
(* one and a chat on the others.                                           *)
(***************************************************************************)
StartWebFlow(s) == Say({To(Put(s, {"web_flow_token"}), "web_flow_active")})
StartMerchantFromHint(s) == StartWebFlow(s) \cup StartPay
AskAssistant(s) == Say({To(s, "ai_assistant")})

HandleMenu(s) ==
  StartWebFlow(s) \cup AskAssistant(s) \cup StartLinkAccounts(s)
  \cup StartPay \cup StartData \cup StartPayIndividual \cup StartSendToAgent
  \cup StartWalletTopup \cup StartWalletCashOut \cup StartCardRequest
  \cup StartThriftCreation \cup StartThriftEdit \cup StartThriftJoin \cup Say({Fresh("thrift_join_code", {})})
  \cup StartThriftActivation \cup StartThriftContribution
  \cup StartInvoiceGeneration \cup StartInvoicePayment
  \cup StartProfileCompletion \cup StartIndividualUpgrade
  \cup StartMerchantRegistration \cup StartKYBUpgradeRequest

\* Free text at the menu: a payment instruction, or an intent the classifier
\* is sure of.  Some intents keep the fields of the session.
RoutePaymentHint(s) == StartMerchantFromHint(s) \cup StartPayIndividualFromHint
RouteAIIntent(s) ==
  StartPay \cup StartData \cup StartPayIndividualFromHint \cup StartIndividualUpgrade
  \cup AskAssistant(s) \cup Say({Idle, To(s, "individual_id_number")})

HandleAIAssistant(s) == Say({Idle})

(***************************************************************************)
(* The question whether to leave what is in progress.                      *)
(***************************************************************************)
SessionSwitchable(s) == s.at \notin {"menu", "confirm_session_switch"}

\* The session put aside is kept in the fields prev_state and prev_data.
AskToSwitch(s) ==
  Say({[at |-> "confirm_session_switch", has |-> {}, pay |-> 0,
        prev |-> [at |-> s.at, has |-> s.has, pay |-> s.pay]]})

\* Mutant: only the state put aside comes back.
RestoredMutant(s) == Fresh(s.prev.at, {})
Restored(s) == [at |-> s.prev.at, has |-> s.prev.has, pay |-> s.prev.pay, prev |-> NoPrev]

\* Switching gives up the payment in progress and starts the chosen service;
\* staying restores the session.
HandleSessionSwitchConfirm(s) ==
  {Row(r.s, "abandon") : r \in HandleMenu(Idle) \cup Say({Idle})} \cup Say({Restored(s)})

(***************************************************************************)
(* Handle: the handler of each state.                                      *)
(***************************************************************************)
Dispatch(s) ==
  CASE s.at = "menu" -> HandleMenu(s) \cup RoutePaymentHint(s) \cup RouteAIIntent(s)
    [] s.at = "confirm_session_switch" -> HandleSessionSwitchConfirm(s)
    [] s.at = "ai_assistant" -> HandleAIAssistant(s)
    [] s.at = "web_flow_active" -> {}
    [] s.at = "select_merchant" -> HandleMerchant(s)
    [] s.at = "select_service_or_amount" -> HandleServiceOrAmount(s)
    [] s.at = "select_event_tier" -> HandleEventTierSelection(s)
    [] s.at = "enter_service_quantity" -> HandleServiceQuantity(s)
    [] s.at = "confirm_service_purchase" -> HandleConfirmServicePurchase(s)
    [] s.at = "collect_custom_fields" -> HandleCollectCustomFields(s)
    [] s.at = "enter_amount" -> HandleAmount(s)
    [] s.at = "select_payment_method" -> HandlePaymentMethod(s)
    [] s.at = "confirm_payment" -> HandleConfirmation(s)
    [] s.at = "select_data_network" -> HandleDataNetwork(s)
    [] s.at = "select_data_plan" -> HandleDataPlan(s)
    [] s.at = "enter_data_phone" -> HandleDataPhone(s)
    [] s.at = "confirm_data_order" -> HandleDataOrderConfirmation(s)
    [] s.at = "wallet_topup_amount" -> HandleWalletTopupAmount(s)
    [] s.at = "wallet_topup_method" -> HandleWalletTopupMethod(s)
    [] s.at = "wallet_withdraw_amount" -> HandleWalletCashOutAmount(s)
    [] s.at = "wallet_withdraw_bank" -> HandleWalletCashOutBank(s)
    [] s.at = "wallet_withdraw_account" -> HandleWalletCashOutAccount(s)
    [] s.at = "wallet_withdraw_confirm" -> HandleWalletCashOutConfirm(s)
    [] s.at = "pay_individual_phone" -> HandlePayIndividualPhone(s)
    [] s.at = "pay_individual_amount" -> HandlePayIndividualAmount(s)
    [] s.at = "pay_individual_bank_code" -> HandlePayIndividualBankCode(s)
    [] s.at = "pay_individual_account" -> HandlePayIndividualAccount(s)
    [] s.at = "pay_individual_confirm" -> HandlePayIndividualConfirm(s)
    [] s.at = "send_agent_name" -> HandleSendAgentName(s)
    [] s.at = "send_agent_phone" -> HandleSendAgentPhone(s)
    [] s.at = "send_agent_amount" -> HandleSendAgentAmount(s)
    [] s.at = "send_agent_region" -> HandleSendAgentRegion(s)
    [] s.at = "send_agent_confirm" -> HandleSendAgentConfirm(s)
    [] s.at = "card_request_name" -> HandleCardRequestName(s)
    [] s.at = "card_request_region" -> HandleCardRequestRegion(s)
    [] s.at = "card_request_confirm" -> HandleCardRequestConfirm(s)
    [] s.at = "thrift_name" -> HandleThriftName(s)
    [] s.at = "thrift_amount" -> HandleThriftAmount(s)
    [] s.at = "thrift_frequency" -> HandleThriftFrequency(s)
    [] s.at = "thrift_target" -> HandleThriftTarget(s)
    [] s.at = "thrift_concat_review" -> HandleThriftConcatReview(s)
    [] s.at = "thrift_join_code" -> StartThriftJoin
    [] s.at = "thrift_join_confirm" -> HandleThriftJoinConfirm(s)
    [] s.at = "thrift_activate_order" -> HandleThriftActivateOrder(s)
    [] s.at = "thrift_pay_method" -> HandleThriftPayMethod(s)
    [] s.at = "thrift_edit_field" -> HandleThriftEditField(s)
    [] s.at = "thrift_edit_amount_value" -> HandleThriftEditAmountValue(s)
    [] s.at = "thrift_edit_frequency_value" -> HandleThriftEditFrequencyValue(s)
    [] s.at = "thrift_edit_members_value" -> HandleThriftEditMembersValue(s)
    [] s.at = "invoice_select_merchant" -> HandleInvoiceMerchant(s)
    [] s.at = "invoice_customer_phone" -> HandleInvoiceCustomerPhone(s)
    [] s.at = "invoice_customer_email" -> HandleInvoiceCustomerEmail(s)
    [] s.at = "invoice_item_name" -> HandleInvoiceItemName(s)
    [] s.at = "invoice_item_quantity" -> HandleInvoiceItemQuantity(s)
    [] s.at = "invoice_item_unit_price" -> HandleInvoiceItemUnitPrice(s)
    [] s.at = "invoice_add_item" -> HandleInvoiceAddItem(s)
    [] s.at = "invoice_edit_item" -> HandleInvoiceEditItem(s)
    [] s.at = "invoice_edit_field" -> HandleInvoiceEditField(s)
    [] s.at = "invoice_edit_value" -> HandleInvoiceEditValue(s)
    [] s.at = "invoice_remove_item" -> HandleInvoiceRemoveItem(s)
    [] s.at = "invoice_delivery_fee" -> HandleInvoiceDeliveryFee(s)
    [] s.at = "invoice_review" -> HandleInvoiceReview(s)
    [] s.at = "invoice_pay_amount" -> HandleInvoicePayAmount(s)
    [] s.at = "invoice_pay_method" -> HandleInvoicePayMethod(s)
    [] s.at \in {"onboard_name", "onboard_email"} -> HandleNameAndEmail(s)
    [] s.at = "onboard_email_code" -> HandleOnboardEmailCode(s)
    [] s.at = "onboard_details" -> HandleOnboardDetails(s)
    [] s.at = "onboard_confirm_account" -> HandleAccountConfirmation(s)
    [] s.at = "individual_email" -> HandleIndividualEmail(s)
    [] s.at = "individual_email_code" -> HandleIndividualEmailCode(s)
    [] s.at \in {"individual_legal_name", "individual_details"} -> HandleIndividualDetails(s)
    [] s.at \in {"individual_id_details", "individual_id_number"} -> HandleIndividualIDDetails(s)
    [] s.at = "individual_bvn_nin" -> HandleIndividualBVNNIN(s)
    [] s.at = "individual_edd_details" -> HandleIndividualEDDDetails(s)
    [] s.at = "individual_liveness" -> HandleIndividualLiveness(s)
    [] s.at = "merchant_register_email" -> HandleMerchantRegistrationEmail(s)
    [] s.at = "merchant_register_email_code" -> HandleMerchantRegistrationEmailCode(s)
    [] s.at = "merchant_register_details" -> HandleMerchantRegistrationDetails(s)
    [] s.at = "kyb_request_select_merchant" -> HandleKYBRequestSelectMerchant(s)
    [] s.at = "kyb_request_confirm" -> HandleKYBRequestConfirm(s)
    [] s.at = "kyb_request_details" -> HandleKYBRequestDetails(s)
    [] s.at = "link_phone" -> HandleLinkPhone(s)
    [] s.at = "link_code" -> HandleLinkCode(s)

\* The first message on a channel the customer has not confirmed yet takes the
\* session to the account confirmation, whatever was in progress.  A customer
\* who never finished the profile starts it, in the browser or with the name,
\* and the fields of what was in progress stay in the session.
ConfirmStates == {"onboard_confirm_account", "onboard_email", "onboard_email_code", "web_flow_active"}
ProfileStates == ConfirmStates \cup {"onboard_name", "onboard_details"}
HandleOnboarding(s) ==
  (IF s.at \in ConfirmStates THEN {} ELSE Say({Fresh("onboard_confirm_account", {})}))
  \cup (IF s.at \in ProfileStates THEN {} ELSE Say({To(s, "onboard_name")}))
  \cup (IF s.at = "menu" THEN StartWebFlow(s) ELSE {})

\* MENU and CANCEL give up the payment of the session, START does not.
HandleCancel(s) == {Row(Idle, "abandon")}
Interrupt(s) == HandleCancel(s) \cup Say({Idle})

Handle(s) ==
  Interrupt(s) \cup HandleOnboarding(s) \cup Dispatch(s)
  \cup IF SessionSwitchable(s) THEN AskToSwitch(s) ELSE {}

(***************************************************************************)
(* What a handler does to the payments, and the session it then saves.     *)
(***************************************************************************)
\* paymentFromSession, or the payment of the session put aside.
GivenUp(s) == IF s.pay # 0 THEN s.pay ELSE s.prev.pay

\* abandonSessionPayment, under the state machine of the payment.
Abandoned(s) ==
  LET p == GivenUp(s)
  IN IF p # 0 /\ pays[p] = "wallet" THEN [pays EXCEPT ![p] = "abandoned"] ELSE pays

\* Mutant: the confirmation does not look at the payment's status.
ConfirmableMutant(p) == p # 0
\* ConfirmWalletPayment refuses a payment that is neither open nor paid.
Confirmable(p) == p # 0 /\ pays[p] \in {"wallet", "paid"}

\* A draft takes the next number; the wallet's is written into the session.
Unused == {p \in Drafts : pays[p] = "none"}
Newest == CHOOSE p \in Unused : \A q \in Unused : p <= q
Draft(kind) == Unused # {} /\ pays' = [pays EXCEPT ![Newest] = kind]

Effect(s, row) ==
  CASE row.do = "none" -> UNCHANGED pays
    [] row.do = "abandon" -> pays' = Abandoned(s)
    [] row.do = "checkout" -> Draft("checkout")
    [] row.do = "review" -> Draft("wallet")
    [] row.do = "confirm" -> Confirmable(s.pay) /\ pays' = [pays EXCEPT ![s.pay] = "paid"]
    [] row.do = "lost" -> UNCHANGED pays

Saved(row) == IF row.do = "review" THEN [row.s EXCEPT !.pay = Newest] ELSE row.s

\* A turn that works on the session s.  Nothing undoes what the handler did
\* when the save that follows fails.
Turn(s) ==
  \E row \in Handle(s) :
    /\ Effect(s, row)
    /\ \/ session' = Saved(row)
       \/ row.do # "none" /\ UNCHANGED session

Message == stale = NoSession /\ Turn(session) /\ UNCHANGED stale
MessageBetween == stale # NoSession /\ Turn(session) /\ UNCHANGED stale

\* LoadSession by a message of a second channel, which acts on it later.
LoadSession == /\ stale = NoSession /\ session.at \in RaceStates
               /\ stale' = session /\ UNCHANGED <<session, pays>>
ActOnStale == stale # NoSession /\ Turn(stale) /\ stale' = NoSession

\* The session outlives its time to live: the next message finds the menu.
Expire == session # Idle /\ session' = Idle /\ UNCHANGED <<stale, pays>>

\* The customer finishes in the browser (FinishWebFlow).
FinishWebFlow == /\ session.at = "web_flow_active"
                 /\ session' = Idle /\ UNCHANGED <<stale, pays>>

\* The gateway settles a checkout, or the payment expires.
GatewaySettles == \E p \in Drafts : /\ pays[p] = "checkout"
                                    /\ \E to \in {"paid", "abandoned"} : pays' = [pays EXCEPT ![p] = to]
                                    /\ UNCHANGED <<session, stale>>

DialogueNext == \/ Message \/ MessageBetween \/ LoadSession \/ ActOnStale
                \/ Expire \/ FinishWebFlow \/ GatewaySettles

DialogueSpec == DialogueInit /\ [][DialogueNext]_dialogueVars

(***************************************************************************)
(* Properties                                                              *)
(***************************************************************************)
\* No handler is ever reached without the fields it reads: whichever services
\* the customer left, came back to, or was led to by one long instruction, the
\* question asked next is one the kept answers support (Handle and every
\* handler it dispatches to).
AlwaysKnows == \A row \in Dispatch(session) : row.do # "lost"

\* A payment that was given up is never paid afterwards, also when a message
\* of another channel acts on the session as it was before (ConfirmWalletPayment,
\* abandonSessionPayment), and a paid one is not given up.
GivenUpIsFinal == [][\A p \in Drafts : pays[p] \in {"paid", "abandoned"} => pays'[p] = pays[p]]_pays
=============================================================================
