------------------------------- MODULE DataOrder -------------------------------
(***************************************************************************)
(* Mobile data purchases (service/data.go, store_data.go).  An order from  *)
(* a chat or a text message waits for its payment; a worker claims paid    *)
(* orders in batches, asks the provider for each and records the answer;   *)
(* an inconclusive answer puts the order back, and the provider's callback *)
(* or the next claim resolves it.                                          *)
(***************************************************************************)
EXTENDS Integers, FiniteSets, FiniteSetsExt

CONSTANTS Orders,   \* each with its payment
          Commands,    \* inbound SMS commands, by provider message id
          Fulfillers, \* workers
          ClaimLimit, \* orders claimed at once
          MaxAsks,  \* bound: purchases asked of the provider, per order
          MaxDataFaults \* bound: workers and SMS handlers that die

ASSUME DataAssumption ==
  {ClaimLimit, MaxAsks, MaxDataFaults} \subseteq Nat /\ ClaimLimit > 0

VARIABLES order,    \* [Orders -> data_orders: status, provider reference, revenue postings]
          funds,    \* [Orders -> status of the payment]
          worker,   \* [Fulfillers -> the batch: orders left, the one at the provider, its answer]
          shop,     \* what the provider did: [Orders -> purchases by reference; asks]; callbacks
          text,     \* [Commands -> sms_requests: status, the order it made, orders made for it]
          dataFaults

dataVars == <<order, funds, worker, shop, text, dataFaults>>

NoBatch == [todo |-> {}, at |-> {}, answer |-> "none", ref |-> "none"]
Refs == {"own", "theirs"}  \* the reference of the request, and one the provider assigned

DataInit ==
  /\ order = [o \in Orders |-> [status |-> "none", ref |-> "none", revenue |-> 0]]
  /\ funds = [o \in Orders |-> "none"]
  /\ worker = [w \in Fulfillers |-> NoBatch]
  /\ shop = [bought |-> [o \in Orders |-> {}], asks |-> [o \in Orders |-> 0], calls |-> {}]
  /\ text = [x \in Commands |-> [status |-> "none", order |-> {}, made |-> 0]]
  /\ dataFaults = 0

-----------------------------------------------------------------------------
(* The order.                                                              *)

Transitions ==
  {<<"draft", "awaiting_payment">>, <<"awaiting_payment", "paid">>, <<"paid", "fulfilling">>,
   <<"paid", "failed">>, <<"fulfilling", "paid">>, <<"fulfilling", "fulfilled">>,
   <<"fulfilling", "failed">>}

\* Mutant: any change of state is accepted.
CanTransitionMutant(from, to) == TRUE

\* CanTransitionDataOrder, of states the program moves between.
CanTransition(from, to) == from = to \/ <<from, to>> \in Transitions

\* transitionDataOrderTx, under the lock of the row: a state already reached is
\* left alone; fulfilment recognises the revenue.
Transitioned(r, to, ref) ==
  IF r.status = to THEN r
  ELSE [r EXCEPT !.status = to, !.ref = ref, !.revenue = @ + (IF to = "fulfilled" THEN 1 ELSE 0)]

\* CreateOrder, from a chat.
CreateDataOrder(o) ==
  /\ order[o].status = "none"
  /\ order' = [order EXCEPT ![o].status = "draft"]
  /\ UNCHANGED <<funds, worker, shop, text, dataFaults>>

\* CreatePaymentForOrder: the payment, then AttachDataOrderPayment.
DraftDataPayment(o) ==
  /\ order[o].status = "draft" /\ funds[o] = "none"
  /\ funds' = [funds EXCEPT ![o] = "draft"]
  /\ UNCHANGED <<order, worker, shop, text, dataFaults>>

AttachDataOrderPayment(o) ==
  /\ funds[o] = "draft" /\ order[o].status = "draft"
  /\ order' = [order EXCEPT ![o] = Transitioned(@, "awaiting_payment", "none")]
  /\ UNCHANGED <<funds, worker, shop, text, dataFaults>>

PayDataOrder(o) ==
  /\ funds[o] = "draft" /\ order[o].status = "awaiting_payment"
  /\ \E status \in {"succeeded", "failed"} : funds' = [funds EXCEPT ![o] = status]
  /\ UNCHANGED <<order, worker, shop, text, dataFaults>>

\* An operator refunds the payment, whatever the order is doing.
RefundDataOrder(o) ==
  /\ funds[o] = "succeeded"
  /\ funds' = [funds EXCEPT ![o] = "refunded"]
  /\ UNCHANGED <<order, worker, shop, text, dataFaults>>

-----------------------------------------------------------------------------
(* Fulfilment.                                                             *)

Fulfillable == {o \in Orders : order[o].status \in {"awaiting_payment", "paid"} /\ funds[o] = "succeeded"}

\* ClaimFulfillableDataOrders commits the claim of the whole batch.
ClaimDataOrders(w) ==
  /\ worker[w] = NoBatch
  /\ \E batch \in SUBSET Fulfillable \ {{}} :
       /\ Cardinality(batch) <= ClaimLimit
       /\ order' = [o \in Orders |-> IF o \in batch
                      THEN Transitioned(Transitioned(order[o], "paid", order[o].ref), "fulfilling", order[o].ref)
                      ELSE order[o]]
       /\ worker' = [worker EXCEPT ![w].todo = batch]
  /\ UNCHANGED <<funds, shop, text, dataFaults>>

\* The order the worker is at, and its reference at the provider: the stored one,
\* or a new one made from the request code.
Asked(w) == CHOOSE o \in Orders : o \in worker[w].at
Ref(o) == IF order[o].ref = "none" THEN "own" ELSE order[o].ref

\* FulfilData: the provider takes a reference once; its answer names the same
\* reference or one of its own, and a pending purchase is called back about.
FulfilData(w, o) ==
  /\ worker[w].at = {} /\ o \in worker[w].todo /\ shop.asks[o] < MaxAsks
  /\ \E answer \in {"fulfilled", "failed", "pending"}, buys \in BOOLEAN, ref \in {Ref(o), "theirs"} :
       /\ answer = "fulfilled" => buys
       /\ shop' = [shop EXCEPT !.asks[o] = @ + 1,
                     !.bought[o] = IF buys THEN @ \union {Ref(o)} ELSE @,
                     !.calls = IF answer = "pending" THEN @ \union {<<o, ref>>} ELSE @]
       /\ worker' = [worker EXCEPT ![w] = [todo |-> @.todo \ {o}, at |-> {o}, answer |-> answer, ref |-> ref]]
  /\ UNCHANGED <<order, funds, text, dataFaults>>

Next1(w) == [worker[w] EXCEPT !.at = {}, !.answer = "none", !.ref = "none"]

\* CompleteDataOrderFulfilment or DeferDataOrderFulfilment; a refusal of the state
\* machine ends the batch and what is left of it stays claimed.
RecordFulfilment(w) ==
  LET o == Asked(w)
      to == IF worker[w].answer = "pending" THEN "paid" ELSE worker[w].answer
  IN  /\ worker[w].at # {}
      /\ IF CanTransition(order[o].status, to)
         THEN /\ order' = [order EXCEPT ![o] = Transitioned(@, to, worker[w].ref)]
              /\ worker' = [worker EXCEPT ![w] = Next1(w)]
         ELSE worker' = [worker EXCEPT ![w] = NoBatch] /\ UNCHANGED order
      /\ UNCHANGED <<funds, shop, text, dataFaults>>

\* ApplyProviderResult: the order with the reference the callback names.  One the
\* state machine refuses is retried, and duplicates arrive.
ApplyProviderResult(o, ref) ==
  /\ <<o, ref>> \in shop.calls /\ order[o].ref = ref
  /\ \E to \in {"fulfilled", "failed"} :
       /\ to = "fulfilled" => shop.bought[o] # {}
       /\ CanTransition(order[o].status, to)
       /\ order' = [order EXCEPT ![o] = Transitioned(@, to, ref)]
  /\ UNCHANGED <<funds, worker, shop, text, dataFaults>>

\* The process dies: nobody claims a fulfilling order again.
FulfillerDies(w) ==
  /\ worker[w] # NoBatch /\ dataFaults < MaxDataFaults
  /\ worker' = [worker EXCEPT ![w] = NoBatch]
  /\ dataFaults' = dataFaults + 1
  /\ UNCHANGED <<order, funds, shop, text>>

-----------------------------------------------------------------------------
(* Text messages.                                                          *)

\* Mutant: the message id is not looked up.
FreshMutant(x) == text[x].status # "processing"

\* ReserveSMSRequest: the insert of the message id succeeded.
Fresh(x) == text[x].status = "none"

ReserveSMSRequest(x) ==
  /\ Fresh(x)
  /\ text' = [text EXCEPT ![x].status = "processing", ![x].order = {}]
  /\ UNCHANGED <<order, funds, worker, shop, dataFaults>>

\* The command makes an order, whose payment link is the reply.
OrderBySMS(x, o) ==
  /\ text[x].status = "processing" /\ text[x].order = {} /\ order[o].status = "none"
  /\ order' = [order EXCEPT ![o].status = "draft"]
  /\ text' = [text EXCEPT ![x].order = {o}, ![x].made = @ + 1]
  /\ UNCHANGED <<funds, worker, shop, dataFaults>>

CompleteSMSRequest(x) ==
  /\ text[x].status = "processing"
  /\ text' = [text EXCEPT ![x].status = IF text[x].order = {} THEN "failed" ELSE "processed"]
  /\ UNCHANGED <<order, funds, worker, shop, dataFaults>>

\* The handler dies: the redelivered text finds the row and is answered with help.
SMSDies(x) ==
  /\ text[x].status = "processing" /\ dataFaults < MaxDataFaults
  /\ text' = [text EXCEPT ![x].status = "abandoned"]
  /\ dataFaults' = dataFaults + 1
  /\ UNCHANGED <<order, funds, worker, shop>>

DataNext ==
  \/ \E o \in Orders : \/ CreateDataOrder(o) \/ DraftDataPayment(o) \/ AttachDataOrderPayment(o)
                       \/ PayDataOrder(o) \/ RefundDataOrder(o)
                       \/ \E ref \in Refs : ApplyProviderResult(o, ref)
  \/ \E w \in Fulfillers : \/ ClaimDataOrders(w) \/ RecordFulfilment(w) \/ FulfillerDies(w)
                           \/ \E o \in Orders : FulfilData(w, o)
  \/ \E x \in Commands : \/ ReserveSMSRequest(x) \/ CompleteSMSRequest(x) \/ SMSDies(x)
                      \/ \E o \in Orders : OrderBySMS(x, o)

DataSpec == DataInit /\ [][DataNext]_dataVars

-----------------------------------------------------------------------------
\* Whatever the order of answers, callbacks, claims and deaths: revenue is
\* recognised once and for fulfilled orders only, and those were bought; an
\* order is with the provider or past it only once its payment had succeeded,
\* and with one worker at a time; a text makes one order.
DataOrderSafe ==
  /\ \A o \in Orders :
       /\ order[o].revenue = (IF order[o].status = "fulfilled" THEN 1 ELSE 0)
       /\ order[o].revenue = 1 => shop.bought[o] # {}
       /\ order[o].status \in {"paid", "fulfilling", "fulfilled", "failed"} =>
            funds[o] \in {"succeeded", "refunded"}
       /\ Cardinality({w \in Fulfillers : o \in worker[w].todo \union worker[w].at}) <= 1
  /\ \A x \in Commands : text[x].made <= 1

DataTypeOK ==
  /\ \A o \in Orders : shop.asks[o] \in 0 .. MaxAsks /\ shop.bought[o] \subseteq Refs
  /\ \A w \in Fulfillers : Cardinality(worker[w].at) <= 1

-----------------------------------------------------------------------------
(* What a reader might expect and the code does not do.                    *)

\* A provider that answers a pending purchase with a reference of its own is
\* asked again under that one.
BoughtOnce == \A o \in Orders : Cardinality(shop.bought[o]) <= 1

\* A claim outlives its worker.
FulfillingHasWorker == \A o \in Orders : order[o].status = "fulfilling" =>
  \E w \in Fulfillers : o \in worker[w].todo \union worker[w].at

\* An answer lost on its way fails an order that was bought; a refund meets one
\* that is being bought.
FailedWasNotBought == \A o \in Orders : order[o].status = "failed" => shop.bought[o] = {}
RefundedWasNotBought == \A o \in Orders : funds[o] = "refunded" => order[o].status # "fulfilled"
=============================================================================
