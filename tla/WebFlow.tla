-------------------------------- MODULE WebFlow --------------------------------
(***************************************************************************)
(* One browser flow (internal/app/webflow.go, store/store_webflows.go,     *)
(* service/webflow.go): the row of web_flows, the requests that work on it *)
(* and the payments it drafts.  A request reads the row, works on the copy *)
(* and writes it back whole, so the chat, another tab and the gateway's    *)
(* callbacks come in between; only the claim of an open flow and the       *)
(* rewinding of one are guarded updates.  Any request may be cut short.    *)
(***************************************************************************)
EXTENDS Naturals

(***************************************************************************)
(* The pages (internal/app/webflow_forms.go, webflow_money.go,             *)
(* webflow_money2.go, webflow_kyb.go): a chain, each saved before the next *)
(* is shown, and an operation at the end.  A page is the step it stands at *)
(* and the fields entered so far; as in Dialogue a field is present or     *)
(* not, one that no page reads is left out, and a handler is the set of    *)
(* its outcomes.                                                           *)
(***************************************************************************)
\* web_flows.step, the keys of its payload, and payload["payment_id"] (0: none).
WebPage(step, fields) == [at |-> step, has |-> fields, pay |-> 0]

(* What a handler does:                                                    *)
(*   save      the page is saved (wfAdvance)                               *)
(*   finish    the operation of the flow is carried out, then the flow ends*)
(*   checkout  a payment is drafted and its hosted page opened             *)
(*   wallet    a payment is drafted and debited on the spot                *)
(*   change    the customer asks for another payment method                *)
(*   lost      a field the handler or its page reads is missing            *)
(* first is a page saved before that, or NoSave.                           *)
NoSave == WebPage("none", {})
Post(first, page, do) == [first |-> first, page |-> page, do |-> do]

\* wfAdvance: the fields of this form are kept and the flow moves on.
WfAdvance(p, step, fields) == {Post(NoSave, [p EXCEPT !.at = step, !.has = @ \cup fields], "save")}
WfFinishing(p) == {Post(NoSave, p, "finish")}
WfReading(p, fields, rows) == IF fields \subseteq p.has THEN rows ELSE {Post(NoSave, p, "lost")}

(***************************************************************************)
(* Invoices and thrift groups                                              *)
(***************************************************************************)
\* Entering the customer starts the list of items anew.
WfInvoiceCustomer(p) ==
  WfAdvance([p EXCEPT !.has = @ \ {"invoice_item"}], "items", {"customer_phone"})

WfInvoiceItemsSummary(p) ==
  (IF "invoice_item" \in p.has THEN WfAdvance(p, "options", {}) ELSE {})
  \cup WfAdvance(p, "items", {}) \cup WfAdvance(p, "customer", {})

WfInvoiceCreateSubmit(p) ==
  CASE p.at \in {"", "merchant"} -> WfAdvance(p, "customer", {"merchant_slug"})
    [] p.at = "customer" -> WfInvoiceCustomer(p)
    [] p.at = "items" -> WfAdvance(p, "items_summary", {"invoice_item"})
    [] p.at = "items_summary" -> WfInvoiceItemsSummary(p)
    [] p.at = "options" -> WfAdvance(p, "items_summary", {}) \cup WfAdvance(p, "review", {"due_date"})
    [] p.at = "review" ->
         WfReading(p, {"merchant_slug", "customer_phone", "invoice_item"}, WfFinishing(p))

WfThriftCreateSubmit(p) ==
  CASE p.at \in {"", "name"} -> WfAdvance(p, "amount", {"thrift_name"})
    [] p.at = "amount" -> WfAdvance(p, "frequency", {"thrift_amount_kobo"})
    [] p.at = "frequency" -> WfAdvance(p, "target", {"thrift_frequency"})
    [] p.at = "target" -> WfAdvance(p, "review", {"thrift_target"})
    [] p.at = "review" ->
         WfReading(p, {"thrift_name", "thrift_amount_kobo", "thrift_frequency", "thrift_target"}, WfFinishing(p))

WfThriftJoinSubmit(p) ==
  CASE p.at \in {"", "name"} -> WfAdvance(p, "review", {"thrift_name"})
    [] p.at = "review" -> WfReading(p, {"thrift_name"}, WfFinishing(p))

(***************************************************************************)
(* Identity                                                                *)
(***************************************************************************)
\* A code is asked for an address, and again on demand.
WfEmailStep(p) == WfAdvance(p, "code", {"email"})
WfCodeStep(p, next) == WfReading(p, {"email"}, WfAdvance(p, next, {"email_verified"}))

WfOnboardDetails(p) == WfAdvance(p, "confirm", {"dob", "gender", "address"})
WfOnboardConfirm(p) == WfReading(p, {"name", "email", "dob", "gender", "address"}, WfFinishing(p))

WfOnboardSubmit(p) ==
  CASE p.at \in {"", "name"} -> WfAdvance(p, "email", {"name"})
    [] p.at = "email" -> WfEmailStep(p)
    [] p.at = "code" -> WfCodeStep(p, "details")
    [] p.at = "details" -> WfOnboardDetails(p)
    [] p.at = "confirm" -> WfOnboardConfirm(p)

\* The flow ends with the profile, so the pages of the tiers above, which the
\* handler goes on to save, are refused: a flow never reaches tier2 or tier3.
WfUpgradeProfile(p) == WfAdvance(p, "review", {"legal_name", "dob", "gender", "address", "occupation"})
WfUpgradeReview(p) ==
  WfReading(p, {"legal_name", "dob", "gender", "address", "occupation", "email"},
            {Post(NoSave, [p EXCEPT !.at = "tier2"], "finish")})
WfUpgradeTier2(p) ==
  WfReading(p, {"legal_name", "dob"}, {Post(NoSave, [p EXCEPT !.at = "tier3"], "finish")})
WfUpgradeTier3(p) == WfReading(p, {"address"}, WfFinishing(p))

WfIndividualUpgradeSubmit(p) ==
  CASE p.at \in {"", "email"} -> WfEmailStep(p)
    [] p.at = "code" -> WfReading(p, {"email"}, WfAdvance(p, "profile", {}))
    [] p.at = "profile" -> WfUpgradeProfile(p)
    [] p.at = "review" -> WfUpgradeReview(p)
    [] p.at = "tier2" -> WfUpgradeTier2(p)
    [] p.at = "tier3" -> WfUpgradeTier3(p)

(***************************************************************************)
(* Businesses                                                              *)
(***************************************************************************)
WfMerchantRegisterSubmit(p) ==
  CASE p.at \in {"", "email"} -> WfEmailStep(p)
    [] p.at = "code" -> WfCodeStep(p, "name")
    [] p.at = "name" -> WfAdvance(p, "category", {"business_name"})
    [] p.at = "category" -> WfAdvance(p, "description", {"category"})
    [] p.at = "description" -> WfAdvance(p, "review", {"description"})
    [] p.at = "review" ->
         WfReading(p, {"business_name", "category", "description", "email"}, WfFinishing(p))

WfKYBPreviousStep ==
  [corporate |-> "merchant", owners |-> "corporate", location |-> "owners",
   compliance |-> "location", note |-> "compliance", review |-> "note"]
WfKYBBack(p) ==
  IF p.at \in DOMAIN WfKYBPreviousStep THEN WfAdvance(p, WfKYBPreviousStep[p.at], {}) ELSE {}

WfKYBLocation(p) ==
  IF p.has \cap {"address_document", "location_confirmed"} # {}
  THEN WfAdvance(p, "compliance", {}) ELSE {}

WfKYBReview(p) ==
  WfReading(p, {"merchant_slug", "cac_reg_number", "tin", "beneficial_owners", "business_address",
                "scuml_number", "dnfbp"}, WfFinishing(p))

WfKYBRequestSubmit(p) ==
  WfKYBBack(p) \cup
  CASE p.at \in {"", "merchant"} -> WfAdvance(p, "corporate", {"merchant_slug"})
    [] p.at = "corporate" -> WfAdvance(p, "owners", {"cac_reg_number", "tin"})
    [] p.at = "owners" -> WfAdvance(p, "location", {"beneficial_owners", "business_address"})
    [] p.at = "location" -> WfKYBLocation(p)
    [] p.at = "compliance" -> WfAdvance(p, "note", {"scuml_number", "dnfbp"})
    [] p.at = "note" -> WfAdvance(p, "review", {})
    [] p.at = "review" -> WfKYBReview(p)

\* The browser reports where it is, at whichever step the flow is by then.
WebFlowLocation(p) ==
  IF "merchant_slug" \in p.has THEN WfAdvance(p, p.at, {"location_confirmed"}) ELSE {}

(***************************************************************************)
(* webFlowMediaUpload: what is read from a picture or a recording is kept, *)
(* under a name the page offers, at the step the flow was loaded at.       *)
(***************************************************************************)
WebFlowMediaUpload(kind, p) ==
  CASE kind = "kyb_request" -> WfAdvance(p, p.at, {"address_document"})
    [] kind \in {"individual_upgrade", "pay", "individual_pay"} -> WfAdvance(p, p.at, {})
    [] OTHER -> {}

(***************************************************************************)
(* What the pages show and so must know (wf...Step).                       *)
(***************************************************************************)
WfInvoiceCreateStep(p) == IF p.at = "review" THEN {"merchant_slug", "customer_phone", "invoice_item"} ELSE {}
WfThriftCreateStep(p) ==
  IF p.at = "review" THEN {"thrift_name", "thrift_amount_kobo", "thrift_frequency", "thrift_target"} ELSE {}
WfThriftJoinStep(p) == IF p.at = "review" THEN {"thrift_name"} ELSE {}
WfOnboardStep(p) ==
  CASE p.at = "code" -> {"email"}
    [] p.at = "confirm" -> {"name", "email", "dob", "gender", "address"}
    [] OTHER -> {}
WfIndividualUpgradeStep(p) ==
  CASE p.at = "code" -> {"email"}
    [] p.at = "review" -> {"legal_name", "dob", "gender", "address", "occupation", "email"}
    [] OTHER -> {}
WfMerchantRegisterStep(p) ==
  CASE p.at = "code" -> {"email"}
    [] p.at = "review" -> {"business_name", "category", "description", "email"}
    [] OTHER -> {}
WfKYBRequestStep(p) ==
  IF p.at = "review" THEN {"merchant_slug", "cac_reg_number", "tin", "beneficial_owners", "business_address"} ELSE {}
-----------------------------------------------------------------------------
(***************************************************************************)
(* The browser flows that end in a payment (internal/app/webflow_money.go, *)
(* webflow_money2.go).  Five of them show everything on one page, whose    *)
(* step is ""; the steps they had before that remain for flows begun then. *)
(***************************************************************************)

MoneyKinds == {"pay", "pay_invoice", "thrift_contribute", "data", "topup", "individual_pay"}

\* wfPaymentStepKey: where the payment buttons are.
WfOnePageFlows == MoneyKinds \ {"individual_pay"}
WfPaymentStepKey(kind) == IF kind \in WfOnePageFlows THEN "" ELSE "review"

(***************************************************************************)
(* wfRoutePayment: the payment is drafted and paid by one of the rails.    *)
(* The page kept is the one the handler loaded, with what it added itself. *)
(***************************************************************************)
Hosted == {"checkout"}
HostedOrWallet == {"checkout", "wallet"}
WfRoutePayment(first, p, rails) == {Post(first, p, rail) : rail \in rails}

Parked == {"checkout", "done"}
WfParked(p) == {Post(NoSave, p, "change")}

(***************************************************************************)
(* pay: a merchant's service, a ticket, or an amount.                      *)
(***************************************************************************)
ItemKinds == {"custom", "service", "event"}
Choose(p, kind, fields) == [p EXCEPT !.has = (@ \ ItemKinds) \cup {kind} \cup fields]

\* An amount of one's own forgets the item and the quantity chosen before.
Custom(p) == [Choose(p, "custom", {}) EXCEPT !.has = @ \ {"service_id", "tier_id", "qty"}]

WfChooseService(p) == Choose(p, "service", {"service_id", "qty", "amount_kobo"})
WfChooseTier(p) == Choose(p, "event", {"tier_id", "qty", "amount_kobo"})

\* Only some services and tickets ask for more.
WfItemHasCustomFields(p) == WfAdvance(p, "review", {}) \cup WfAdvance(p, "custom_fields", {})

WfPayItem(p) ==
  WfReading(p, {"merchant_slug"},
            WfAdvance(Custom(p), "amount", {})
            \cup WfItemHasCustomFields(WfChooseService(p)) \cup WfItemHasCustomFields(WfChooseTier(p)))

WfPayQuantity(p) == WfItemHasCustomFields([p EXCEPT !.has = @ \cup {"qty", "amount_kobo"}])

\* uuid.MustParse of the id the kind of item calls for.
ItemID(p) ==
  CASE "qty" \notin p.has -> {}
    [] "service" \in p.has -> {"service_id"}
    [] "event" \in p.has -> {"tier_id"}
    [] OTHER -> {}

WfPayReview(p) ==
  WfAdvance(p, "item", {}) \cup WfAdvance(p, "review", {})
  \cup WfReading(p, {"merchant_slug", "amount_kobo"} \cup ItemID(p), WfRoutePayment(p, p, HostedOrWallet))

\* What was entered is kept when the form is refused and before a charge.  A
\* merchant with a catalogue is paid on the pages of its items.
WfPayOnePageReRender(p) == WfAdvance(p, "", {}) \cup WfAdvance(p, "", {"merchant_slug"})
WfPayOnePageSubmit(p) ==
  LET q == [p EXCEPT !.has = @ \cup {"merchant_slug", "amount_kobo"}]
  IN WfPayOnePageReRender(p) \cup WfAdvance(q, "item", {}) \cup WfAdvance(q, "", {})
     \cup WfRoutePayment(q, q, HostedOrWallet)

WfPaySubmit(p) ==
  CASE p.at = "" -> WfPayOnePageSubmit(p)
    [] p.at = "merchant" -> WfAdvance(p, "merchant", {}) \cup WfAdvance(p, "item", {"merchant_slug"})
    [] p.at = "item" -> WfPayItem(p)
    [] p.at = "qty" -> WfReading(p, ItemID([p EXCEPT !.has = @ \cup {"qty"}]), WfPayQuantity(p))
    [] p.at = "custom_fields" -> WfAdvance(p, "review", {})
    [] p.at = "amount" -> WfAdvance(p, "review", {"amount_kobo"})
    [] p.at = "review" -> WfPayReview(p)
    [] p.at \in Parked -> WfParked(p)

\* Drawing the items of a merchant without a catalogue moves the flow on.
WfSkipStep(p) == IF p.at = "item" THEN WfAdvance(Choose(p, "custom", {}), "amount", {}) ELSE {}

WfPayStep(p) ==
  CASE p.at = "item" -> {"merchant_slug"}
    [] p.at = "review" -> {"merchant_slug", "amount_kobo"}
    [] OTHER -> {}

(***************************************************************************)
(* Invoices, contributions, data, top-ups                                  *)
(***************************************************************************)
WfPayInvoiceSubmit(p) ==
  CASE p.at = "" -> WfReading(p, {"invoice_reference"}, WfRoutePayment(NoSave, p, HostedOrWallet))
    [] p.at = "amount" -> WfReading(p, {"invoice_reference"}, WfAdvance(p, "review", {"invoice_pay_amount_kobo"}))
    [] p.at = "review" ->
         WfAdvance(p, "amount", {})
         \cup WfReading(p, {"invoice_reference", "invoice_pay_amount_kobo"}, WfRoutePayment(NoSave, p, HostedOrWallet))
    [] p.at \in Parked -> WfReading(p, {"invoice_reference"}, WfParked(p))
WfPayInvoiceStep(p) ==
  {"invoice_reference"} \cup IF p.at = "review" THEN {"invoice_pay_amount_kobo"} ELSE {}

WfThriftContributeSubmit(p) ==
  LET q == [p EXCEPT !.has = @ \cup {"thrift_name"}]
  IN CASE p.at = "" -> WfAdvance(q, "", {}) \cup WfRoutePayment(q, q, HostedOrWallet)
       [] p.at = "group" -> WfAdvance(q, "review", {})
       [] p.at = "review" ->
            WfReading(p, {"thrift_name"}, WfAdvance(p, "group", {}) \cup WfRoutePayment(NoSave, p, HostedOrWallet))
       [] p.at \in Parked -> WfParked(p)
WfThriftContributeStep(p) == IF p.at = "review" THEN {"thrift_name"} ELSE {}

WfDataSubmit(p) ==
  LET q == [p EXCEPT !.has = @ \cup {"data_plan", "data_phone"}]
  IN CASE p.at = "" -> WfAdvance(q, "", {}) \cup WfRoutePayment(q, q, HostedOrWallet)
       [] p.at = "network" -> WfAdvance(p, "plan", {"data_network"})
       [] p.at = "plan" -> WfAdvance(p, "phone", {"data_plan"})
       [] p.at = "phone" -> WfAdvance(p, "review", {"data_phone"})
       [] p.at = "review" ->
            WfAdvance(p, "phone", {})
            \cup WfReading(p, {"data_plan", "data_phone"}, WfRoutePayment(NoSave, p, HostedOrWallet))
       [] p.at \in Parked -> WfParked(p)
WfDataStep(p) ==
  CASE p.at = "plan" -> {"data_network"}
    [] p.at = "phone" -> {"data_plan"}
    [] p.at = "review" -> {"data_plan", "data_phone"}
    [] OTHER -> {}

WfTopupSubmit(p) ==
  CASE p.at = "" -> WfRoutePayment(NoSave, p, Hosted)
    [] p.at = "amount" -> WfAdvance(p, "review", {"amount_kobo"})
    [] p.at = "review" ->
         WfAdvance(p, "amount", {}) \cup WfReading(p, {"amount_kobo"}, WfRoutePayment(NoSave, p, Hosted))
    [] p.at \in Parked -> WfParked(p)
WfTopupStep(p) == IF p.at = "review" THEN {"amount_kobo"} ELSE {}

(***************************************************************************)
(* individual_pay: the recipient, then the account and the rail.  A bank   *)
(* that is not one but several is asked again.                             *)
(***************************************************************************)
PickMutant(p) == WfAdvance(p, "bank_pick", {"recipient_phone", "bank_query"})
WfBankPick(p) == WfAdvance(p, "bank_pick", {"recipient_phone", "amount_kobo", "bank_query"})

WfIndividualRecipient(p) ==
  WfBankPick(p)
  \cup WfAdvance([p EXCEPT !.has = @ \ {"bank_query"}], "review", {"recipient_phone", "amount_kobo", "bank_code"})

\* The account number is saved with the page, and left out of the page the
\* payment is then parked on.
WfIndividualReview(p) ==
  WfAdvance(p, "phone", {})
  \cup WfReading(p, {"recipient_phone", "amount_kobo", "bank_code"},
                 WfRoutePayment([p EXCEPT !.has = @ \cup {"account_number"}], p, HostedOrWallet))

WfIndividualPaySubmit(p) ==
  CASE p.at \in {"", "phone"} -> WfIndividualRecipient(p)
    [] p.at = "bank_pick" ->
         WfAdvance([p EXCEPT !.has = @ \ {"bank_query"}], "review", {"bank_code"})
    [] p.at = "bank" -> WfAdvance(p, "review", {"bank_code"})
    [] p.at = "account" -> WfAdvance(p, "review", {"account_number"})
    [] p.at = "review" -> WfIndividualReview(p)
    [] p.at \in Parked -> WfParked(p)
WfIndividualPayStep(p) ==
  CASE p.at = "bank_pick" -> {"bank_query"}
    [] p.at = "review" -> {"recipient_phone", "amount_kobo", "bank_code"}
    [] OTHER -> {}

(***************************************************************************)
(* wfHandleStep and wfRenderStep                                           *)
(***************************************************************************)
WfHandleStep(kind, p) ==
  CASE kind = "pay" -> WfPaySubmit(p) \cup WfSkipStep(p)
    [] kind = "pay_invoice" -> WfPayInvoiceSubmit(p)
    [] kind = "thrift_contribute" -> WfThriftContributeSubmit(p)
    [] kind = "data" -> WfDataSubmit(p)
    [] kind = "topup" -> WfTopupSubmit(p)
    [] kind = "individual_pay" -> WfIndividualPaySubmit(p)
    [] kind = "invoice_create" -> WfInvoiceCreateSubmit(p)
    [] kind = "thrift_create" -> WfThriftCreateSubmit(p)
    [] kind = "thrift_join" -> WfThriftJoinSubmit(p)
    [] kind = "onboard" -> WfOnboardSubmit(p)
    [] kind = "individual_upgrade" -> WfIndividualUpgradeSubmit(p)
    [] kind = "merchant_register" -> WfMerchantRegisterSubmit(p)
    [] kind = "kyb_request" -> WfKYBRequestSubmit(p) \cup WebFlowLocation(p)

WfRenderStep(kind, p) ==
  CASE kind = "pay" -> WfPayStep(p)
    [] kind = "pay_invoice" -> WfPayInvoiceStep(p)
    [] kind = "thrift_contribute" -> WfThriftContributeStep(p)
    [] kind = "data" -> WfDataStep(p)
    [] kind = "topup" -> WfTopupStep(p)
    [] kind = "individual_pay" -> WfIndividualPayStep(p)
    [] kind = "invoice_create" -> WfInvoiceCreateStep(p)
    [] kind = "thrift_create" -> WfThriftCreateStep(p)
    [] kind = "thrift_join" -> WfThriftJoinStep(p)
    [] kind = "onboard" -> WfOnboardStep(p)
    [] kind = "individual_upgrade" -> WfIndividualUpgradeStep(p)
    [] kind = "merchant_register" -> WfMerchantRegisterStep(p)
    [] kind = "kyb_request" -> WfKYBRequestStep(p)

(***************************************************************************)
(* The row of a flow and the requests that work on it                      *)
(***************************************************************************)
CONSTANTS Browsers,    \* requests in progress: POSTs of the customer, hooks of the gateway
          RacingFlows, \* bound: kinds of flow on which two requests overlap
          MaxWebPays   \* bound: payments drafted by one flow

FormKinds == {"invoice_create", "thrift_create", "thrift_join", "onboard",
              "individual_upgrade", "merchant_register", "kyb_request"}

ASSUME RacingFlowsAssumption == RacingFlows \subseteq MoneyKinds \cup FormKinds

VARIABLES flow,       \* the row of web_flows; link is its payment_id column
          posts,      \* the requests in progress
          bill,       \* the payments of the flow
          superseded, \* payments.superseded_at
          worked,     \* the operation of a form has been carried out
          told        \* confirmations sent

webVars == <<flow, posts, bill, superseded, worked, told>>

WebBills == 1 .. MaxWebPays
Resting == [stage |-> "idle", page |-> WebPage("", {}), pay |-> 0]

(***************************************************************************)
(* MintWebFlow: what the chat knows seeds the first page.  Flows begun     *)
(* under the previous release stand at pages no longer on the way.         *)
(***************************************************************************)
Seeds(kind) ==
  CASE kind = "pay" -> {{}, {"merchant_slug"}, {"merchant_slug", "amount_kobo"}}
    [] kind = "pay_invoice" -> {{"invoice_reference"}}
    [] kind = "thrift_contribute" -> {{"thrift_name"}}
    [] kind = "thrift_join" -> {{}, {"thrift_name"}}
    [] kind = "individual_pay" -> {{}, {"recipient_phone"}, {"recipient_phone", "amount_kobo"}}
    [] OTHER -> {{}}

LegacyPages ==
  {<<"pay", WebPage("merchant", {})>>, <<"pay", WebPage("qty", {"merchant_slug", "service", "service_id"})>>,
   <<"data", WebPage("network", {})>>, <<"topup", WebPage("amount", {})>>,
   <<"pay_invoice", WebPage("amount", {"invoice_reference"})>>, <<"thrift_contribute", WebPage("group", {})>>,
   <<"individual_pay", WebPage("bank", {"recipient_phone", "amount_kobo"})>>,
   <<"individual_pay", WebPage("account", {"recipient_phone", "amount_kobo", "bank_code"})>>}

FirstPages ==
  LegacyPages \cup UNION {{<<kind, WebPage("", seed)>> : seed \in Seeds(kind)} : kind \in MoneyKinds \cup FormKinds}

WebInit ==
  /\ \E kp \in FirstPages : flow = [kind |-> kp[1], status |-> "open", page |-> kp[2], link |-> 0]
  /\ posts = [h \in Browsers |-> Resting]
  /\ bill = [p \in WebBills |-> "none"]
  /\ superseded = {}
  /\ worked = FALSE
  /\ told = 0

(***************************************************************************)
(* The row                                                                 *)
(***************************************************************************)
StillOpen == flow.status = "open"
On(p) == StillOpen /\ flow.link = p

PromotedMutant(page) == flow.link
\* sealWebFlowPayload and COALESCE: a payment in the payload becomes the link.
Promoted(page) == IF page.pay = 0 THEN flow.link ELSE page.pay
SaveWebFlowProgress(page) == flow' = [flow EXCEPT !.page = page, !.link = Promoted(page)]

ReopenWebFlowForRetryMutant(p, page) == flow' = [flow EXCEPT !.page = [page EXCEPT !.pay = p], !.link = 0]
ReopenWebFlowForRetry(p, page) == flow' = [flow EXCEPT !.page = page, !.link = 0]

Goes(h, stage, page, pay) == posts' = [posts EXCEPT ![h] = [stage |-> stage, page |-> page, pay |-> pay]]
Rests(h) == posts' = [posts EXCEPT ![h] = Resting]
Blank == WebPage("", {})

(***************************************************************************)
(* webFlowSubmit: a POST reads the row, and its step decides what is done. *)
(***************************************************************************)
Alone(h) == \A g \in Browsers \ {h} : posts[g] = Resting

WebFlowContext(h) ==
  /\ posts[h] = Resting
  /\ StillOpen
  /\ flow.kind \in RacingFlows \/ Alone(h)
  /\ Goes(h, "read", flow.page, 0)
  /\ UNCHANGED <<flow, bill, superseded, worked, told>>

PostRows(h, do) ==
  {row \in WfHandleStep(flow.kind, posts[h].page) \cup WebFlowMediaUpload(flow.kind, posts[h].page) : row.do = do}

\* wfAdvance; a flow that is no longer open is not saved.
WfAdvances(h) ==
  /\ posts[h].stage = "read"
  /\ \E row \in PostRows(h, "save") :
       IF StillOpen THEN SaveWebFlowProgress(row.page) ELSE UNCHANGED flow
  /\ Rests(h)
  /\ UNCHANGED <<bill, superseded, worked, told>>

\* The operation of a form: ApplyIndividualProfile, CreateInvoice, ...
WfOperation(h) ==
  /\ posts[h].stage = "read"
  /\ PostRows(h, "finish") # {}
  /\ worked' = TRUE
  /\ Goes(h, "finish", Blank, 0)
  /\ UNCHANGED <<flow, bill, superseded, told>>

\* A payment is drafted, after the page was saved where the handler saves it.
WfDrafts(h) ==
  /\ posts[h].stage = "read"
  /\ \E rail \in HostedOrWallet : \E row \in PostRows(h, rail), p \in WebBills :
       /\ \A q \in WebBills : bill[q] = "none" <=> q >= p
       /\ IF row.first = NoSave THEN UNCHANGED flow ELSE StillOpen /\ SaveWebFlowProgress(row.first)
       /\ bill' = [bill EXCEPT ![p] = "draft"]
       /\ Goes(h, rail, [row.page EXCEPT !.pay = p], p)
  /\ UNCHANGED <<superseded, worked, told>>

(***************************************************************************)
(* wfRoutePayment                                                          *)
(***************************************************************************)
\* The flow is parked on its checkout page, then the gateway is asked.
ParkOnCheckout(h) ==
  /\ posts[h].stage = "checkout"
  /\ IF StillOpen
     THEN /\ SaveWebFlowProgress([posts[h].page EXCEPT !.at = "checkout"])
          /\ Goes(h, "initialize", Blank, posts[h].pay)
     ELSE /\ UNCHANGED flow
          /\ Rests(h)
  /\ UNCHANGED <<bill, superseded, worked, told>>

InitializeCheckout(h) ==
  /\ posts[h].stage = "initialize"
  /\ bill' = [bill EXCEPT ![posts[h].pay] = "hosted"]
  /\ Rests(h)
  /\ UNCHANGED <<flow, superseded, worked, told>>

\* ConfirmWalletPayment debits at once; a refusal leaves the draft.
PayFromWallet(h) ==
  /\ posts[h].stage = "wallet"
  /\ bill' = [bill EXCEPT ![posts[h].pay] = "paid"]
  /\ Goes(h, "debited", posts[h].page, posts[h].pay)
  /\ UNCHANGED <<flow, superseded, worked, told>>

\* A debit on a flow closed meanwhile is reported as a failed payment.
SaveDone(h) ==
  /\ posts[h].stage = "debited"
  /\ IF StillOpen
     THEN /\ SaveWebFlowProgress([posts[h].page EXCEPT !.at = "done"])
          /\ Goes(h, "finish", Blank, 0)
     ELSE /\ UNCHANGED flow
          /\ Rests(h)
  /\ UNCHANGED <<bill, superseded, worked, told>>

(***************************************************************************)
(* FinishWebFlow: whoever closes the flow sends the confirmation.          *)
(***************************************************************************)
ClaimMutant(h) ==
  /\ flow' = [flow EXCEPT !.status = "complete"]
  /\ told' = told + 1
Claim(h) ==
  IF StillOpen
  THEN flow' = [flow EXCEPT !.status = "complete"] /\ told' = told + 1
  ELSE UNCHANGED <<flow, told>>

WfFinish(h) ==
  /\ posts[h].stage = "finish"
  /\ Claim(h)
  /\ Rests(h)
  /\ UNCHANGED <<bill, superseded, worked>>

\* wfCancel claims the flow and says nothing.
WfCancel(h) ==
  /\ posts[h].stage = "read"
  /\ StillOpen
  /\ flow' = [flow EXCEPT !.status = "complete"]
  /\ Rests(h)
  /\ UNCHANGED <<bill, superseded, worked, told>>

(***************************************************************************)
(* Another payment method: the customer asks for it (wfChangeMethod), or   *)
(* the attempt did not succeed (wfReopenForPaymentRetry).                  *)
(***************************************************************************)
Rewound(page) == [page EXCEPT !.at = WfPaymentStepKey(flow.kind), !.pay = 0]

WfChangeMethod(h) ==
  /\ posts[h].stage = "read"
  /\ \E row \in PostRows(h, "change") :
       LET p == row.page.pay
       IN IF bill[p] \in {"paid", "refunded"}
          THEN Rests(h)
          ELSE Goes(h, "reopen", Rewound(row.page), p)
  /\ UNCHANGED <<flow, bill, superseded, worked, told>>

Reopen(h) ==
  /\ posts[h].stage = "reopen"
  /\ LET p == posts[h].pay
     IN IF On(p)
        THEN /\ ReopenWebFlowForRetry(p, posts[h].page)
             /\ superseded' = superseded \cup {p}
        ELSE UNCHANGED <<flow, superseded>>
  /\ Rests(h)
  /\ UNCHANGED <<bill, worked, told>>

(***************************************************************************)
(* The gateway, and maybeCompleteWebFlowForPayment after its verification  *)
(***************************************************************************)
GatewayDecides(p) ==
  /\ bill[p] = "hosted"
  /\ \E outcome \in {"paid", "failed"} : bill' = [bill EXCEPT ![p] = outcome]
  /\ UNCHANGED <<flow, posts, superseded, worked, told>>

HookSucceeded(h, p) ==
  /\ posts[h] = Resting
  /\ flow.kind \in RacingFlows \/ Alone(h)
  /\ bill[p] = "paid"
  /\ IF p \in superseded
     THEN bill' = [bill EXCEPT ![p] = "refunded"] /\ UNCHANGED posts
     ELSE Goes(h, "find", Blank, p) /\ UNCHANGED bill
  /\ UNCHANGED <<flow, superseded, worked, told>>

FindFlow(h) ==
  /\ posts[h].stage = "find"
  /\ IF On(posts[h].pay) THEN Goes(h, "finish", Blank, 0) ELSE Rests(h)
  /\ UNCHANGED <<flow, bill, superseded, worked, told>>

\* A payment still pending counts as one that did not succeed.
WfReopenForPaymentRetry(h, p) ==
  /\ posts[h] = Resting
  /\ flow.kind \in RacingFlows \/ Alone(h)
  /\ bill[p] \in {"hosted", "failed"}
  /\ On(p)
  /\ flow.kind \in MoneyKinds
  /\ flow.page.at \in Parked
  /\ Goes(h, "reopen", Rewound(flow.page), p)
  /\ UNCHANGED <<flow, bill, superseded, worked, told>>

(***************************************************************************)
(* The chat, the clock, and requests cut short                             *)
(***************************************************************************)
\* A new intent on a flow still open takes it over: the page is seeded anew.
RestartWebFlow ==
  /\ StillOpen
  /\ \E seed \in Seeds(flow.kind) \ {{}} : SaveWebFlowProgress(WebPage("", seed))
  /\ UNCHANGED <<posts, bill, superseded, worked, told>>

AbandonWebFlow ==
  /\ StillOpen
  /\ flow' = [flow EXCEPT !.status = "cancelled"]
  /\ UNCHANGED <<posts, bill, superseded, worked, told>>

ExpireWebFlow ==
  /\ StillOpen
  /\ flow' = [flow EXCEPT !.status = "expired"]
  /\ UNCHANGED <<posts, bill, superseded, worked, told>>

CutShort(h) ==
  /\ posts[h] # Resting
  /\ Rests(h)
  /\ UNCHANGED <<flow, bill, superseded, worked, told>>

WebNext ==
  \/ \E h \in Browsers :
       \/ WebFlowContext(h) \/ WfAdvances(h) \/ WfOperation(h) \/ WfDrafts(h)
       \/ ParkOnCheckout(h) \/ InitializeCheckout(h) \/ PayFromWallet(h) \/ SaveDone(h)
       \/ WfFinish(h) \/ WfCancel(h) \/ WfChangeMethod(h) \/ Reopen(h)
       \/ FindFlow(h) \/ CutShort(h)
       \/ \E p \in WebBills : HookSucceeded(h, p) \/ WfReopenForPaymentRetry(h, p)
  \/ \E p \in WebBills : GatewayDecides(p)
  \/ RestartWebFlow \/ AbandonWebFlow \/ ExpireWebFlow

WebSpec == WebInit /\ [][WebNext]_webVars

(***************************************************************************)
(* Properties                                                              *)
(***************************************************************************)
\* No page of an open flow is drawn, or answered, without a field it reads: the
\* customer is never sent back to the chat by the flow's own forgetting.
PageKnows ==
  StillOpen =>
    /\ WfRenderStep(flow.kind, flow.page) \subseteq flow.page.has
    /\ \A row \in WfHandleStep(flow.kind, flow.page) : row.do # "lost"

\* A payment a page is parked on can be found by the gateway's callback, which
\* knows the column only.
ParkedIsLinked ==
  /\ flow.page.pay # 0 => flow.page.pay = flow.link
  /\ flow.page.at \in Parked => flow.page.pay # 0

\* However many tabs, callbacks and retries close the flow, one confirmation is
\* sent, and only after the operation of the form or one of its payments.
ToldOnceAfterWork ==
  /\ told <= 1
  /\ told = 1 => IF flow.kind \in FormKinds THEN worked
                 ELSE \E p \in WebBills : bill[p] \in {"paid", "refunded"}

BrowserSafe == PageKnows /\ ParkedIsLinked /\ ToldOnceAfterWork
=============================================================================
