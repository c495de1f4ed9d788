# A verification project for easymoney

easymoney (XEGO) is a Go service that moves money for customers and merchants over chat, web pages and an
API. One PostgreSQL database holds all state; any number of identical processes ("replicas") serve requests
and run the same background workers on timers; gateways and bank rails are called over HTTP. Almost every
operation that matters is therefore a handler that reads rows, commits, calls a rail, and commits again,
while other handlers, sweeps, webhooks and crashes happen in between. That is what is modelled here, in
TLA+, checked by TLC on small instances, and for the money in large part proved by TLAPS for every instance.

Contents: [1 inventory](#1-inventory), [2 modules](#2-the-modules-and-the-code),
[3 runs](#3-the-runs-and-what-they-show), [4 bounds](#4-bounds), [5 fairness](#5-fairness),
[6 proofs](#6-proofs), [7 not modelled](#7-what-is-not-modelled),
[8 what the code does not do](#8-what-a-reader-might-expect-and-the-code-does-not-do), [9 use](#9-running-it).

## 1. Inventory

### 1.1 How the parts interact

* `src/cmd` starts `internal/app`, which owns HTTP handlers (gateway webhooks, return pages, merchant API, web
  flows, administration) and the worker tickers (`app/workers.go`).
* `internal/service` holds the operations: conversations, payments, refunds, settlement, cash-outs.
* `internal/store` holds the SQL. A store function is usually one transaction; the isolation level is
  PostgreSQL's default, READ COMMITTED, so each *statement* sees its own snapshot, and a statement that waits for
  a row lock goes on with the row it had found. Several hazards come from this.
* `internal/providers` are the clients of gateways and bank rails; their errors do not say whether the money moved.
* Parts meet in shared rows (payments, payouts, batches, `ledger_entries`, `allowance_reservations`,
  `payment_hooks`), in calls from service to store and provider, and in queues drained by workers (inbound and
  outbound messages, gateway webhooks, business events, merchant webhooks, hook retries).

### 1.2 The components

| component | state it keeps | operations | what is hard | what makes it correct |
|---|---|---|---|---|
| wallet cash-outs | `wallet_payouts` (status, attempts, lease), wallet balance, allowance | request: reserve, screen, create and debit; dispatch: claim, rail call, record; requeue, retry, reverse | crash between claim and record; a rail error hiding an executed transfer; concurrent debits | conservation, one caller per payout, paid *and* returned only on the rail's own word, every accepted one ends |
| settlement | `settlements`, lines, `payouts`, refund rows, merchant books | cut, refund request/approve/reject, request payout, reserve, screen, dispatch, retry, reverse, disposition and re-evaluation of held payouts | statement-level races between cut, refund and payout; late answers; reviewers beside the rescreen worker | books balance, completed means transferred, a batch has one live payout, the wallet covers what its completed payouts took |
| payments | `payments.status`, allowance, gateway transaction | draft, checkout, cancel, expire, verify from four places, wallet confirmation, refund | four verifiers at once; expiry against a late payment; retries | success means money, outcomes final, what was paid is resolved |
| payment hooks | `payment_hooks` | ensure, run inline, retry | crash before the hook row exists; two runners of one hook | purpose applied once |
| web flow completion | `web_flows` | pages, complete, reopen, superseded attempt | tabs and callbacks over one row written back whole | a flow forgets nothing, reports once, after its work |
| ledger | `ledger_entries` hash chain | post a pair, reverse a journal, verify | concurrent appends behind one tail; roll-backs | sums to zero, no row hangs on a missing one |
| wallets, allowances and freezes | sums over the ledger, `wallets.status`, `allowance_reservations` | top-up, debit, reserve, use, release, freeze | balance read before the debit; reservation and movement in two transactions | what the wallet holds is explained; reserved while it counts |
| inbound queue | `inbound_messages`, leases | enqueue, claim per conversation, answer, complete, retry | lease expiry, overlapping claims, late results | one holder per message, none forgotten, none reopened |
| chat webhooks | `webhook_deliveries`, `inbound_messages` | record a post, enqueue its messages, record the outcome, answer | a post that fails half-way, or comes twice at once | what was answered 200 is queued |
| outbound queue, gateway webhooks | `message_outbox`, `webhook_deliveries`, leases | claim, deliver, retry, report | repeated sends, late reports | repeats only after faults |
| event bus, merchant webhooks, checkout links | outbox, leases, notification slots, links | publish, consume, notify, deliver, resolve and close a link | a bus that dies with its process, redelivery | a merchant is told once and truly |
| invoices, events and tickets | `amount_paid_kobo`, capacities, purchases | attach and apply a payment, edit, refund | sums and counts over stale snapshots; a refund beside a hook | an invoice is backed, what is allocated is allocated once, no count passes its capacity |
| thrift groups | groups, cycles, contributions, pool | join, activate, contribute, pay out, refund | counts read before a lock was waited for | a pot is whole and goes round fairly |
| remittances and agents | remittance, pickup, one-time code, float | assign, open, redeem, expire | caps and codes under concurrent redemptions | in one place; float is what is owed; caps hold |
| programs and purses | enrollments, grants, purses | grant, spend, refund, lapse, return | allow-list read before the lock; retried grants | never overdrawn; every kobo accounted for |
| bulk payments | batches, items, jobs | draft, approve, ask, pay items, finalise | dead runs, retried jobs, late replies over paid items | each item paid once |
| individual and split payments | splits, individual settlement | post after success | refund unwinds the wrong journal | posted by the hook of a success only |
| data orders | orders, provider purchases | order, pay, claim, ask, reconcile | callbacks, retries, dead workers | revenue once, and only for what was bought |
| KYC and KYB ladders | tiers, cases, screenings, documents | claim a number, advance, screen, downgrade, review | read-check-write without locks | tiers are earned; the fallen are frozen |
| card requests | requests, pickups | request, approve, deliver, hand over | two channels, lost codes | one open card, one code one card |
| payment screening, refund approval and disputes | decisions, held payouts, refund rows | hold, approve, reject, re-evaluate | unguarded rejection in three statements | only a rejection that read a payout held writes over its outcome |
| authentication and MFA, staff and portal sessions | methods, challenges, seats, sessions, links | password, second factor, enrol, revoke, invite, reset | requests that checked before a revocation | one answer one entry, budgets hold, the removed are out |
| merchant registry | registrations, merchants, numbers | apply, approve, open, disable, remove | slugs and numbers looked for and then taken | a removal destroys no record; numbers apart |
| partner API | keys, payments, invoices, checkouts by reference | create, replay | replays at the same time | one reference, one row |
| receipt scanning | tokens, readers | issue, scan | two runs of a hook, two readers | as many admissions as units sold |
| retention and archive | holds, archives, subject requests | hold, purge, erase | rows picked in one statement and deleted in another | nothing under a hold, or unarchived, is deleted |
| customer accounts and linking | users, sessions, codes | resolve, link, merge, verify an address | a message in flight while accounts merge | an account is proven before it is taken |
| transaction monitoring, network cases | alerts, weights, score, cases, freezes | scan, weigh, review, correct, group | scanners at once, cut off anywhere | the score is the sum of what stands |
| conversation | session rows | every dialogue's steps, the switch question | two channels on one session | no handler lacks a field it reads |
| audit log | `audit_logs` hash chain, checks, alerts | append, archive and purge the old end, sweep, raise and dispose of alerts | two appends behind one tail; a purge or another sweep meets a sweep | no entry is lost, a break has a cause, one alert per break |
| rate limiting, reports, web site, providers, cryptography, deployment | windows, log, views | - | I/O, rendering | see section 7 |

The component list with sources and status is `components` in `PROJECT.json`; the hazards, each at its line and with
the properties that watch it, are `hazards` in the same file.

## 2. The modules and the code

Each definition that models code names its function in a comment; `map` in `PROJECT.json` gives the lines.
An action is one *transaction*, or one *statement* where READ COMMITTED lets another session in between, or one
call of a rail. What a handler holds between two of them (a Go local, an open transaction) is the record of a
session or worker. Money is in kobo, a handful of them.

### `CashOut.tla` - a wallet cash-out (`service/wallet_payouts.go`, `store_wallet_payouts.go`)

| variable | code |
|---|---|
| `balance` | net of the wallet's rows in `ledger_entries`, which is how the code computes it |
| `walletStatus` | `wallets.status` (active or frozen) |
| `request` | where `RequestWalletPayout` of this payout stands |
| `allowance` | payouts with a row in `allowance_reservations` |
| `status`, `attempts` | the columns of `wallet_payouts`; "none" is no row yet |
| `worker` | a goroutine in `dispatchWalletPayout`: its payout and the rail's answer not yet recorded |
| `transferred` | the bank's own truth: what the rail executed |
| `denied` | those of them whose last answer was a decline or an error |
| `crashes` | process deaths so far |

`Reserve`/`Refuse`, `Screen` and `CreateWalletPayout` are the request's transactions in the order of the code, and
`CrashRequest` ends it between any two. `Claim`, `RailAnswers`, `Record` and `CrashWorker` are the dispatch.
`RequeueStale`, `RetryWalletPayout` and `ReverseWalletPayout` are the sweep's store calls; the sweep makes them row by row and
nothing depends on their order. The requeue compares ages; a claim sets the timestamp, the limit is far above
the rail's HTTP timeout, so `Stale` is "processing and nobody in flight" (this is not so for merchant payouts, see
`RequeuesOrphans` in section 8). The rail is external, and nothing is assumed of what it *says* (`RailOutcomes`): it may answer an error
for a transfer it executed (a lost response, a 5xx, a body that cannot be read), and a decline, "pending" or an error when it is
called again for one it executed before. Of what it *does* two things are assumed: one reference is transferred at most once, and it executes a
transfer before it answers, or never; "pending" says that the beneficiary's bank is down (code 70120).

`Disbursement.tla` is the abstract promise: a request has nothing held, then its money is held (`Hold`), then paid (`Pay`) *or* returned
(`Return`). The promise takes the bank's word: what was paid may be denied, or acknowledged again, when the bank is asked once more (`Reword`), and only
what it denied last can be returned although it was paid ("both"). `CashOut!Implements` is that specification under the mapping `Disposition`.

### `Settlement.tla` - batches, refunds and merchant payouts

One merchant; its payments have succeeded. `refund` is the refund row of a payment, `batch` a settlement with its lines
and stored total, `books` the merchant's three ledger accounts (payable, fee, wallet), `payout` the payout rows of
a batch in the order of creation, `reserved` the allowance per batch, `screening` the review of a held
payout, `session` a request or worker in the middle of an operation.

`CutRead`/`CutCommit` split `CutSettlement` at its snapshot; `RefundRead`/`RefundCommit` split a refund at the update that
waits. `RequestPayout` reads the batch and with it the amount to reserve; `CreatePayout`, `ReserveAllowance`, `ScreenPayout` follow in the order of the code,
which queues the row *before* it checks, and whose row has the amount of the moment of its insert. A status written under a guard
(`WHERE status = ...`) is an action of its own, `UpdateRow`, with the guard. `Claim`, `RailAnswers`, `Record`, `Crash`, `RequeueStale`, `RetryPayout`, `ReversePayout`
are the dispatch and the sweep; `Claim` takes a row that is queued whatever the request decided meanwhile. The rail deduplicates by payout *row*,
whose key includes the row's number.

Held payouts have two actors. A reviewer (`ReleaseHeldPayout`) reads the row held (`ReadHeld`); an approval clears the hit and queues the row if it is still
held (`ApproveHeld`, `UpdateRow`); a rejection is three autocommitted statements, so three actions with crashes and others between them: `RejectHeld` reverses
the row without a guard, `ReleaseReservation`, `ReopenBatch`. The rescreen worker lists held rows with an open hit (`ListHeld`), asks the provider again
(`Reevaluate`), records the decision and queues or fails the row if it is still held (`RecordDecision`, `UpdateRow`: `ReevaluateHeldPayout`). The only caller of
`ReleaseHeldPayout` is a console handler that looks the payout up by a reference it strips too little from (`admin_payment_screening.go:98`, section 8); the model
takes the call as the handler means it.

### `PaymentLifecycle.tla` - a payment from draft to refund, and its hooks

A session is any goroutine that touches a payment: an HTTP or chat request, a webhook delivery, a job of a worker; any
session may begin anything, so two sessions are any two of these at once. `kind` is the provider (card checkout, bank transfer,
wallet) and the purpose (collection, top-up, individual payment), chosen when the payment is drafted; anything but a top-up may be paid from the wallet (`AllKinds`). `status` has the
transition table of `domain/payment.go` (`Successors`). `Transition` is `transitionPayment` with its row lock, its guard and the release of
the reservation; every path that changes a status goes through it, except refunds, which write the status
themselves in the code and here. `Draft`, `Create`, `Submit`, `Initialize`, `SetCheckout`, `Cancel`, `ListExpirable`/`End` are the
request side and the expiry. `CustomerPays` is the environment. `ReceiveWebhook`, `ClaimWebhook`, `Poll` and `Reconcile` all end
in `VerifyAnswers`, `Apply`, `Ensure`, `RunHook`, `PostHook`, `MarkDone`/`MarkFailed`: the code of `VerifyAndApply` and of
`runPaymentHook`. `RetryHook` is the retry worker. `Confirm`, `ReserveOut`, `Debit`, `Debited` are the inline wallet payment;
`Flow` and `ClaimFlow` the web flow; `RefundPayment`, `Refund`, `ApproveRefund`, `DispatchRefund` the two kinds of refund. `Crash` and
`VerifyErrors` share the budget `MaxFailures`.

### `LedgerChain.tla` - the hash chain under READ COMMITTED

`book` are the rows by id (ids are taken from a sequence and never returned, so rows of rolled back
transactions keep theirs), `kept` the committed ones, `session` a transaction: the rows it still has to insert, the tail
it read, its own uncommitted rows and its locks. A row stores the id of the row it hangs on instead of a hash:
hashes cover the previous hash and the entry, and `hash` is UNIQUE, so two rows have one hash exactly when they agree in both.
`PickTail` is the snapshot of `SELECT ... ORDER BY id DESC LIMIT 1`, `LockTail` its `FOR UPDATE`, granted later and on
the row *found*, `Insert` the insert with the unique check (waiting for an uncommitted twin, `HashTaken` when it committed),
`Refer` the key-share lock of the foreign key `reversal_of`, `Commit` and `Abort` the end. `PostPair` is a debit and a credit of
one journal, `ReverseJournal` the opposite of every entry, decided on what was visible at the read.

### `InboundQueue.tla` - from the channel webhook to the conversation

`row` is the `inbound_messages` row (`due` is `available_at <= now()`), `received` the order of arrival, `listed` the conversations a
claim has found, `group` the goroutine of a replica for one conversation: the messages it still has to answer, each with the
attempts its claim read, and where the first of them stands. `EnqueueInboundMessage` drops a known id. `ListDue` and
`ClaimDue` are the two statements of `ClaimInboundMessages`; the advisory locks make the second one of a conversation exclude another, so it
is one step, but they are taken after the list was read. `LoadSession` and `Reply` are the dialogue's load and its save, reply or
error; `Complete`, `Retry` and `UpdateFails` the outcome, written by id whatever the row says by then. `Elapse` is time passing
`available_at`: the end of a backoff, of a dead worker's lease, or of the lease of a handler that still works (`overrun`). The handler
gate is `Idle`: a replica has one batch at a time. The slots of the worker pool only restrict which goroutines run at once.

### The services beside the payments

| module | what its state is | how its actions correspond to the code |
|---|---|---|
| `LedgerQueue` | `tail` the last committed journal row, `append` what each posting transaction read and inserted | of the journal only the order in which transactions get through its tail lock, which decides whose hooks overlap; used by `Purchases` and `Thrift` |
| `Purchases` | `purpose`, `link` (the row that attaches a payment), `succeeded`, `due` (`payment_hooks`), `invoice`, `allocated`, `refund` (a refund in progress: what its SELECT found in the journal), `sold`, `run` (a hook execution) | the hook of an invoice, ticket or service payment statement by statement, with the subquery that sums or counts; the hook's retry; the edit that replaces an event's tiers and with them the count (`SetEventTiersFull`); a refund of an invoice payment, which reads the journal of the payment and reverses what it found (`ReadJournal`, `CommitRefund`, `RefundFails`) while the purchase row stays applied. Left out: the console's reversal of a journal by hand (`app/ledger.go:71`), and refunds of tickets and units, which have no allocation |
| `Thrift` | `group`, `member`, `position`, `counted` (members a join or activation counted before it waited), `cycle`, `contribution`, `payout`, `payment`, `hook`, `pool` | joining, target, order, activation, linking, the contribution hook with its journal wait, payout and next cycle, refunds |
| `LeaseQueue` | a row: status, attempts, due | the operators of a leased row that the next two share: claim, complete by id, retry with the attempts read, elapse |
| `EventBus` | `fact`, `link`, `event`, `batch`, `log`, `offset`, `slot`, `notified`, `notices`, `delivery`, `sending`, `handled` | publisher, in-memory bus with groups and offsets, the notification and webhook consumers, delivery worker, link expiry, process death |
| `Receivers` | `platform`, `hook` (`webhook_deliveries`), `queued` (`inbound_messages`), `handler`, `answered` | the webhooks of the five chat platforms: record the post under its key, enqueue message by message, record the outcome, answer 200 or 503; what differs between platforms is the key and who records what |
| `Outbox` | `text` (`message_outbox`), `ref`, `job`, `sends` | claim, send, reference, completion, retry, the provider's report in any order |
| `Remittance` | `sender`, `remit`, `otp`, `desk` (a redemption), `screen`, `money` (payables, floats, wallets, cash) | `CreateRemittanceTx` as the payment's hook; `RedeemPickupTx` in its steps: locks, cap, code, payment; `ExpireRemittances` over what nobody holds |
| `BulkPay` | `batch`, `approver`, `job`, `work` (the run of a job), `item`, `reply`, `paid` (what moved), `runFaults` | drafts and decisions; claim, run and retry of the three jobs, item by item; the two halves of a location reply; the rail |
| `Purse` | `program`, `purse`, `spend`, `grant`, `sweeper` | allow-list edits, the draft, the statement that locks a purse (with what it read before it waited), spend, refund, grant, lapse and return |
| `DataOrder` | `order`, `funds`, `worker` (a batch), `shop` (the provider), `text` (`sms_requests`) | payment, batched claim, the provider's answer and callback, what `transitionDataOrderTx` lets through, orders by SMS |

`MCCollections` composes `Purchases` and `Thrift`, `MCQueues` the three queues and the chat webhooks, `MCOperations` `Remittance`, `BulkPay`,
`Purse` and `DataOrder`. The parts of such a composition share no row their properties tell apart, so a behaviour is
about one of them: the variable `focus` says which, and one run explores all.

### The customer's side (`MCAccounts`)

| module | what its state is | how its actions correspond to the code |
|---|---|---|
| `Dialogue` | `session` (its state, the fields present, what a switch question put aside, its payment), `stale` (the session a second channel's message loaded), `pays` | one operator per handler of `conversation*.go`: the set of its outcomes, each the session it saves and what it does besides, with a handler "lost" that needs a field which is absent; dispatch on the state, the save of the whole row, the payments that dialogues draft, confirm and give up |
| `WebFlow` | `flow` (the row), `posts` (requests in progress with their copy of it), `bill`, `superseded`, `worked`, `told` | one operator per page of the thirteen browser flows (`webflow_forms.go`, `webflow_money*.go`, `webflow_kyb.go`); opening, the copy saved whole, the claim of an open flow, rewinding, restart, the gateway's hook and page, requests cut short |
| `Ladder` | persons: `tier`, `screened`, `results`, `pepCases`, `purseOf`, `owner`, `proved`, `lively`, `clerk`; businesses: `btier`, `bscreened`, `bpurse`, `file`, `trail`, `office` | `AdvanceKYCTier` and its three reads, identity claims, screening, cases, downgrade; documents and their two maps, written back whole, verdicts, reviews, advances and downgrades of a business |
| `CardDesk` | `card`, `code`, `sent`, `attested`, `chat` | the request with its check and its insert, approval, gates, delivery, one-time code, handover |

### Portals, administration and records (`MCOffice`)

| module | what its state is | how its actions correspond to the code |
|---|---|---|
| `Access` | sign-in: `factor`, `step`, `post`, `inside`, `proven`; team: seats, sessions, links, `password`, visits | read, check, write as separate steps of a request: password, second factor, mailed codes, passkeys, recovery, enrolment, removal. Either page answers any step that is live, an answer is checked against what was read and consumes the step as it is by then, and two devices can register through one ceremony (the credential is stored before the challenge is consumed). Disabling an account is in the team's part: invitations, roles, removal of members, the password link |
| `Registry` | `applied`, `shop`, `standing`, `movement`, `desk` | looking for a slug or number and taking it; counting records and deleting a merchant |
| `Partner` | `credential`, `trading`, `record`, `call`, `replies` | look up the reference, create, put the reference on the row; replays at once |
| `Scanning` | `gatekeeper`, `reader`, `sale`, `code`, `hook`, `admitted`, `told` | look up or make a token, tell the buyer, scan |
| `Retention` | `item`, `person`, `hold`, `tied`, `archived`, `exported`, `purge`, `request`, `clerk` | pick, archive and delete per kind of record; subject requests; erasure under a hold |
| `AuditChain` | `trail` (`audit_logs`), `drawn`, `aged`, `author` (an append in progress), `purging`, `snapshot` (the archive), `sweeper`, `checks`, `alarm`, `strained` | the append in its waits: tail, lock, insert; the purge under its table lock, with its re-rooting; the sweep batch by batch, its verdict and alert; the disposition of an alert |
| `Contacts` | linking: `row`, `chat`, `ticket`, `hand`, `paper`, `proof`; mail: addresses, slips, pages | resolve an account, write to a code, merge accounts; confirm an address |
| `Monitoring` | vigil: `alerts`, `scan`, `officer`, `score`, `totals`; rings: shared facts, cases, freezes, tasks | the rules over a window, then alert, weight, score and case in a statement each; verdicts with their corrections; rings of identities |

### `MC*.tla`, `*Proof.tla`, `Sums.tla`

`MC` modules name small sets and functions for the configurations and compose what one run explores; `PaymentLifecycle` and `LedgerChain` need none. The proofs are in
`CashOutProof`, `SettlementProof`, `PaymentProof`, `QueuesProof`, `CollectionsProof`, `OperationsProof` (with the ledger) and `OfficeProof`; `Sums` holds
the lemmas about sums over finite sets they share.

## 3. The runs and what they show

| run | properties | shows |
|---|---|---|
| `cashout` | `TypeOK`, `WalletConserved`, `CeilingHolds`, `OneCaller`, `ReturnedOnlyIfDenied`, `RecordMatchesRail`, `OutcomeIsFinal`, `Implements`, `EventuallySettled` | whatever the rail answers, three cash-outs over one wallet and ceiling, two goroutines and two crashes neither create nor lose wallet money, never call the rail twice at once, return what was transferred only if the rail denied it when last asked, implement `Disbursement`, and every accepted cash-out is paid or returned |
| `settlement` | `BooksBalance`, `WalletNeverOverdrawn`, `CompletedWasTransferred`, `ProcessedHasPayout`, `OutcomeIsFinal`, `ReservationKept` | cut, refunds, payout requests, late answers, requeues, reversals, a reviewer, the rescreen worker and a crash, statement by statement, keep the books balanced and complete nothing that was not paid; an outcome is written over only by a rejection that read the row held, a processed batch has a payout that discharged the wallet, and the wallet falls short by no more than the completed payouts that rejections wrote over |
| `settlement_live` | `QueuedIsSettled` | a queued payout does not stay queued or processing, a crash included |
| `payment` | `SucceededWasPaid`, `ReservedWhileItCounts`, `ToppedUpOnce`, `WalletExplained`, `OutcomeIsFinal` | a payment of any kind under two sessions: verifiers, cancel, expiry, confirmation, hooks and refund, with one failure |
| `payment_live` | `PaidIsResolved`, `PurposeApplied` | without crashes reconciliation alone resolves what was paid, and the purpose is applied |
| `ledger` | `Rooted`, `BookSumsToZero` | two concurrent sessions and a roll-back: no row hangs on a missing one, debits equal credits |
| `collections` | `PurchasesSafe` (`InvoiceIsBacked`, `AllocatedOnce`, `CountWithinCapacity`), `ThriftSafe` (`PotIsWhole`, `RotationIsFair`) | overlapping and repeated hooks and a refund: an invoice is backed by payments applied to it, each is allocated once and taken back whole or not at all, no *count* of a tier or service passes its capacity (a purchase without room is applied all the same, section 8), a pot is paid out whole and in turn |
| `queues` | `HeldOnce`, `ToldFaithfully` (`BusIsFaithful`, `RepeatsAreFaults`, `AcceptedIsQueued`), `FinishedStays`, `EveryRowEnds` (`EveryMessageEnds`, `EveryEventEnds`) | deaths, dropped updates and leases that end early: one holder per message, a merchant told once and truly, what a chat platform was told to forget is queued, no finished message reopened, nothing left waiting |
| `operations` | `RemittanceSafe`, `BulkSafe`, `PurseSafe`, `DataOrderSafe` | cash pickup, bulk payments, purses and data orders: the money of each is in one place, paid once, within its caps |
| `accounts` | `AlwaysKnows`, `GivenUpIsFinal`, `AccountsSafe` (`LadderSafe`, `BusinessSafe`, `CardSafe`, `BrowserSafe`) | no handler lacks a field it reads, a payment given up stays unpaid; tiers are earned, numbers have one owner, the fallen are frozen, a card is opened and handed over once, a browser flow forgets nothing and reports once |
| `office` | `OfficeSafe` (`SignInSafe`, `RegistrySafe`, `StaffSafe`, `RetentionSafe`, `AuditTrailSafe`, `LinkSafe`, `EmailIsProven`, `VigilSafe`, `RingsSafe`), `RetriesAreSafe` (`RepliesAgree`, `ScansAreCovered`) | two requests at a time through the portals, the partner API, the gate, retention, the audit log, linking and the monitors |

Each property of a passing run has mutants of mapped definitions under which TLC finds it violated (`mutants` in
`PROJECT.json`; the mutated operators are named `...Mutant` beside the originals and used nowhere else). A property that is
a conjunction of named parts has at least one mutant per part.

One run ends in a violation, of a statement of the repository that the code does not keep (`findings` in `PROJECT.json`
quotes both sides):

| run | property | what happens |
|---|---|---|
| `cashout_ambiguous` | `NeverPaidAndReturned` | a transport error hides an executed transfer, the last attempt fails and the wallet is credited (`service/wallet_payouts.go:254`); the client's comment asks for `ReconcilePayout` instead (`ports.go:588-590`), which is never called |

Section 8 lists more statements, with what to change to see the counterexample.

## 4. Bounds

| run | bounds and why they suffice |
|---|---|
| `cashout` | 3 payouts of 2 kobo, wallet 3, ceiling 4: one fits in the wallet, two under the ceiling, so both limits refuse someone. 2 workers: the smallest number for a doubled call. `PayoutMaxAttempts` 2 (3 in the code): one retry and one exhaustion. `MaxCrashes` 2: a crash of the recovery as well |
| `settlement`, `settlement_live` | 2 payments of 4 kobo with a fee of a quarter: net and total differ. 2 sessions and a reviewer, since every race found needs two. `MaxPayouts` 2: a row and its successor. `Ceiling` 5 holds one net payout of one payment and not two. `PayoutMaxAttempts` 1 for safety (a failed row is reversed at once; the retry is explored by `settlement_live`, where it is 2). One crash. The constraint `Apart` keeps the run small: a behaviour in which a payment is refunded has no crash, and while a held payout is reviewed or re-evaluated no payment has been refunded. What it leaves out is covered by the theorems of section 6, which prove all properties of this run without it. Liveness with one payment and one session |
| `payment`, `payment_live` | one payment of any kind, 2 sessions, `MaxWebhookTries` and `MaxHookTries` 2 (more in the code): a retry and an exhaustion. `MaxFailures` 1 counts crashes and errors together; 0 in `payment_live`, where one crash refutes the property |
| `ledger` | 2 sessions, 2 journals of 1 pair and 1 note, 1 abort |
| `collections` | 3 payments over an invoice of 3 and capacities of 2, two hook runs, one that fails, one edit, one refund; a group of one or two members, 4 payments, one mishap: two payments of one purpose race, and a third comes when it is full |
| `queues` | 2 messages of one conversation, 2 replicas that claim one row at a time (so a second claim finds something left), 2 attempts (5 in the code), one failure, one overrun; 2 payments of one link, one process that fails once; one text, two senders, three faults; two posts that share a message, two requests, on each platform |
| `operations` | 2 remittances, 2 agents whose cap allows one payout, 2 consoles, one code with 2 guesses; 1 batch of 2 items, 2 late replies, 2 tries, 1 fault; 1 purse, 2 grants, 2 payments of which only one is covered; 2 orders, 2 workers, 1 text, 2 asks |
| `accounts` | 1 payment, a second channel at the confirmation; 2 persons over 1 number, 2 requests, 2 screenings; 1 business with 2 papers; 2 customers, 2 cards, 3 codes, 2 areas; two tabs on the flows named in the configuration |
| `office` | 2 requests at a time throughout, two of whatever can collide (sign-in steps, methods, slugs, numbers, links, rows of one reference, records), one administrator, one purger; two appends and two sweeps at once, 3 entries, 3 sweeps: an append behind a stale tail, a purge in the middle of a chain, a sweep after a break. A row of a sign-in step is used again, so two methods and open steps coexist; the constraint `Apart` allows at most one request in progress while two steps are live |

Every bound is a CONSTANT or a set given in the configuration, or one of the two constraints named `Apart`, with a comment there. Symmetry is used only in runs without liveness
properties, on sets whose members no constant tells apart. Deadlock is not checked: all these systems come to
rest when every request is done.

Larger instances were checked by hand, without a violation: `Ladder` alone with two numbers (2 588 094 states); `WebFlow` with two tabs on
`individual_pay` and `data` (1 539 414); `Retention` with records of any kind (600 154); `Monitoring` with three scans (715 281), and the
network cases with three people (648 598) and without the bound on rulings (407 770); the sign-in of `Access` without its constraint
(1 478 952); the invariants of the proofs of
`PaymentLifecycle` with two payments (5 610 929), of `LedgerChain` (1 806 095) and of `Remittance` (192 497).

What bounded runs do not show: three sessions at once (in particular a deadlock of row locks in the ledger, which takes
three sessions and four journals), two chats with four accounts in `Contacts` (over 12 million states, not finished), and, where section 6 has no
theorem, many rows.

## 5. Fairness

* `CashOut!LiveSpec`: strong fairness of claiming a payout by *some* goroutine, weak fairness of the sweep's requeue, retry and
  reversal, and of the answer and its recording. The worker ticks for ever and lists every row; a claim can be
  disabled and enabled again by other claims, hence strong fairness there. Strong fairness of a *definite* answer says that
  the rail does not answer "pending" for ever. Requests owe nothing: the customer may stop.
* `Settlement!LiveSpec`: the same for one replica, per batch and per row. With two replicas one's sweep can requeue what the other
  has just claimed, again and again (`RequeuesOrphans`), so the live run has one session.
* `PaymentLifecycle!LiveSpec`: a session goes on once begun; each job (reconciliation, hook retry, webhook queue) is done for each
  payment by *some* session again and again, because each ticker has its own goroutine and gate. Strong fairness, since another job
  of the same payment disables it for a while. Customers, webhooks and return pages owe nothing: a webhook may be lost.
* `InboundQueue!Fairness`: *some* replica ticks, a claim and a goroutine that began go on, time passes. No single replica has to
  survive, and enqueueing owes nothing. Deaths and dropped updates are finitely many.
* `EventBus!BusFairness`: the publisher, the consumers and the delivery worker tick, and time passes. Payments and visitors owe nothing.

The other modules state no liveness: what they would promise depends on a person, or the code does not promise it (section 8).

## 6. Proofs

All proofs are checked by TLAPS to the last leaf, for any sets and any values of the constants that satisfy the named
assumption of the module (`CashOutAssumption` and so on), which TLC evaluates in every run. The assumptions ask that sums
range over finite sets, amounts are natural numbers and limits positive where the code has a CHECK or a constant saying so. No theorem has a
hypothesis beyond the assumption of its module.

| theorem | for every instance |
|---|---|
| `CashOutProof` `TypeCorrect`, `OneCallerAlways`, `OutcomesAreFinal`, `WalletIsConserved`, `CeilingIsKept` | `TypeOK`, `OneCaller`, `OutcomeIsFinal`, `WalletConserved`, `CeilingHolds`: however many replicas, crashes and requeues, and whatever errors mean |
| `CashOutProof` `ReturnedOnlyWhenDenied`, `RecordIsTrue`, `CashOutImplementsPromise` | `ReturnedOnlyIfDenied`, `RecordMatchesRail`, and `Implements` (`Spec` refines `Disbursement`), whatever the rail answers |
| `SettlementProof` `SettlementTypeCorrect`, `BooksAlwaysBalance`, `CompletedPayoutsWereTransferred`, `OneLivePayoutPerBatch` | `TypeOK`, `BooksBalance`, `CompletedWasTransferred`, and that at most one payout row of a batch is not reversed |
| `SettlementProof` `WalletIsNeverOverdrawn` | `WalletNeverOverdrawn` |
| `SettlementProof` `OutcomesAreFinal`, `ProcessedBatchesHavePayout`, `ReservationsAreKept` | `OutcomeIsFinal`, `ProcessedHasPayout`, `ReservationKept`, with any number of reviewers, re-evaluations and crashes between statements |
| `PaymentProof` `PaymentTypeCorrect`, `SuccessWasPaid`, `ReservationFollowsPayment`, `TopupReachesOnce`, `WalletIsExplained`, `OutcomesStay` | `TypeOK` with the posting of what counts, `SucceededWasPaid`, `ReservedWhileItCounts`, `ToppedUpOnce`, `WalletExplained`, `OutcomeIsFinal` |
| `OperationsProof` `AlwaysRooted`, `BookAlwaysSumsToZero` | `Rooted`, `BookSumsToZero`, with any number of sessions and roll-backs |
| `QueuesProof` `InboundHeldOnce`, `InboundFinishedStays`, `InboundRetriesAreBounded` | `HeldOnce`, `FinishedStays`, and that a waiting message has attempts left while a given up one has used them |
| `QueuesProof` `QueuesToldFaithfully` | `ToldFaithfully`, of the composition; `OutboxRepeatsAreFaults` and `ReceiverAcceptedIsQueued` state two of its parts of their modules alone |
| `CollectionsProof` `PurchasesAreSafe`, `ThriftGroupsAreSafe` | `PurchasesSafe`, `ThriftSafe`: any payments, purposes, amounts and hook runs; any members, targets and payments |
| `OperationsProof` `RemittancesAreSafe`, `BulkIsSafe`, `PursesAreSafe`, `DataOrdersAreSafe` | `RemittanceSafe`, `BulkSafe`, `PurseSafe`, `DataOrderSafe` |
| `OfficeProof` `RetriesAreAlwaysSafe` | `RetriesAreSafe`, of the composition, from `PartnerRepliesAgree` (`RepliesAgree`) and `ScansAlwaysCovered` (`ScansAreCovered`): any requests, orders, rows, sales and readers |

Every argument is an inductive invariant; each was checked by TLC on the instance of its run before it was proved.

*CashOut.* `OneCaller` is not inductive: that nobody else is in flight follows from the row being processing, which must be
carried along. The invariant `CallInv` is `TypeOK` together with `CallerHoldsRow` (who calls the rail has a processing row), `SoleCaller`
(at most one such goroutine) and `RowsAreAccepted` (a row exists only for an accepted request). It needs no assumption about the
rail, and neither do the two sums: the wallet and the ceiling change by one payout's amount at a time, and the check
that precedes each change is made under the lock that the change holds. What an answer is worth is `RailInv`: `CallInv` with `TransferredIsLive` (a transferred
payout that is failed or reversed was denied) and `AnswersAreTrue` (an answer not yet recorded is the last the rail gave). `OneCaller` is what makes the second one stand: a worker
that holds an answer is the only one that asks. `RailStep` is its step, the refinement (`RefineStep`) maps each action to a step of `Disbursement` or to a stutter by
it. `cashout_ambiguous` shows that "denied" cannot be dropped.

*Settlement.* Every step is first read as one of a few kinds (`StepKinds`): it leaves the tables alone, moves a batch's total to the wallet,
takes a refund out, or moves one payout row with its batch. The books balance because a refund in progress holds its payment
(`Locks`, `LocksApart`) and so takes it out of what is payable once. A completed row was transferred because a session that holds
an answer holds it for its own row, or for one that is reversed (`CallInv`, with `OneLiveRow` and `RowsStand`). That the wallet covers what it pays is not visible in the
balances: a refund lowers a batch after its cut, and a rejection that comes too late lets a batch discharge the wallet again. So the strengthening (`CreditInv`) carries what each cut
brought in: the wallet and the amounts of all rows that discharged it add up to these credits (`WalletIs`), and the amount of a live row is within the credit of its batch
(`RowsCovered`, `LinesCovered`). With `JournalInv` (a row that discharged the wallet is completed or was) a batch has at most one such row that no rejection wrote
over. `OutcomesAreFinal` says what a rejection can do at worst; it cannot be excluded, since `ReleaseHeldPayout` updates without a guard (`store_payment_screening.go:343`).

*PaymentLifecycle.* A session holds what it read of a payment and may act on it much later. The invariant says what the rows of one payment say of
each other (`Sound`), what a session may still rely on although others went on (`Relies`: a verified success was collected, a checked reservation
is the session's), that no two sessions hold one claim (`Apart`), and that statuses only move along `Successors` (`Onward`). `WalletExplained` is a sum over
payments, each of which contributes what its own rows say.

*LedgerChain.* A row may hang on a row that is not committed, or was rolled back, unless something stops it. `RootInv` is the
shape of the state plus `Named` (a session's own rows are in the book and are nobody else's), `TailVisible` (the tail a
session read is committed or its own), `KeptLinked` and `MineLinked` (committed and own rows hang on earlier rows that are
committed, or committed or own). A session that rolls back takes with it only rows nobody else could see, which is what
READ COMMITTED gives and the proof uses. The sum is zero because a session commits whole pairs.

*Queues.* A claim lists conversations first and claims rows later, so a replica may claim a message whose former holder is still on its way
to write. `InboundInv` says what a goroutine knows of each message it holds (`Known`: unless the handler outran its lease, the row is claimed, its lease
runs, and it has one attempt more than the goroutine read), that two holders of one message are one replica, and the bounds of the attempts. `BusInv` ties a notice to its slot and its
payment's success; `OutboxInv` counts what may still be sent of a text against the faults so far (`Owed`, `Hot`), because a repeat is never seen in one
row; `ReceiverInv` says that a request has queued everything before the message it works on.

*Purchases.* A run of a hook may wait with a sum or a count taken before others committed. Two runs never hold one invoice payment, nor two the offer
(`RunsApart`), so a run that holds the payment knows whether it was applied (`RunSound`); what it summed can only be too little by the
time it writes, because no application of an invoice payment is ever undone: a refund reverses journal entries and leaves the purchase applied. A refund in
progress found the whole allocation or none (`RefundsSound`). The order of the journal's lock plays no part.

*Thrift.* The contributions owed are exactly those of the cycles opened, one of every member (`Owing`). A contribution takes one payment and a payment is for
one contribution (`SharesSound`), so a hook knows whether its contribution was paid, and if its count found nobody else unpaid the others of that cycle
have paid and stay so (`ThriftHookSound`): the whole pot is there although the count may be old. Only the last cycle's payout can be due (`CyclesSound`); the pool
is the number of contributions paid into cycles not paid out (`PoolSound`) as long as nothing was refunded.

*Remittance.* A redemption reads the pickup and the cap and pays later. The rows of one remittance agree (`RowSound`), a console may rely on what it
locked (`DesksSound`), two consoles never hold pickups of one agent (`DesksApart`), so the payout a console was allowed still fits its agent's
cap (`AllowedFits`), which only another payout of that agent could take; the float is what the agent is owed by a sum (`FloatIsOwed`).

*BulkPay.* An item's status does not keep a second payment out: a late location reply can take "paid" from it and a retried run then
finds it payable. What does is that the journal has its reference, hence `LineSound`: a wallet item's credits equal its charges, at most one, and
a charged bank item is at the rail. `RunSound` says that a run that pays holds one item of a batch that was let through.

*Purse.* The check of a balance is good until the payment because a payment that was allowed holds its purse's row (`LocksOfPurses`, `SpendsSound`), and a grant
or refund, which take no lock, only add. `Accounted` ties the balance to sums over the grants posted and the payments that stand.

*DataOrder.* A worker that claimed an order holds it alone although the claim keeps no lock, because no transition leads from where it stands
to where another could claim it, until its own holder lets it go (`HandsSound`); revenue follows the one step into "fulfilled" (`OrderSound`).

*Partner.* A reference is on one row at most because it is put on a row only while nobody holds it (`OneHolder`); and a draft waits for the one request
that made it (`Drafting`), so no other row takes its place between the two steps. What was answered are rows that hold the reference
(`RepliesAreHolders`). `OrdersAssumption` says that no row equals `NoRecord`.

*Scanning.* A sale has one code (`OneCodeEach`); while it has one, what it still admits and what was admitted are what was bought (`UsesAddUp`).

*Sums.* Sums over finite sets of the model's `FoldSet`/`SumFunctionOnSet` kind are reduced to the library's theorems by set induction once, in
lemmas on adding, removing, changing and comparing (`SumAdd`, `SumRemove`, `SumAgree`, `SumSubset`, ...), which the proofs cite.

Only model-checked: all liveness properties, since TLAPS proves neither liveness under fairness nor facts about ENABLED; anything that would need
induction over data a recursive definition computes; and the safety properties of `accounts` and `office` (`AlwaysKnows`, `AccountsSafe`,
`OfficeSafe`), whose modules are many and small, and whose invariants no theorem states.

## 7. What is not modelled

* Wording, pages, parsing (amounts, names and dates typed by customers), amounts beyond a few kobo, account codes, JSON and HTTP details.
* Matching of names against sanction lists and the evidence behind a tier: pure data processing, represented by its
  outcomes. Adverse media and risk questionnaires only annotate.
* Rate limiting: a counter per key and window that fails open. It refuses a request before anything is read or written, so each modelled
  action also stands for a request that was let through, and none for one that was not.
* Disputes: they are recorded and notified, and block nothing. Step-up grants refuse a request before it starts.
* Reconciliation, reports, exports and dashboards: they read.
* Withdrawals of merchants other than settlement payouts, statements, program and region administration, catalogues, branding: master data
  without a race of their own.
* Process start, provisioning, configuration, sealing of secrets: no control state.
* Unused code: `ReissueRemittancePickupCode`, `SettleAgentFloat`, `FundAgentFloat`, `SetAgentStatus`, `SetAgentLimits`, `EnsureAgentProfile`,
  `SetBulkBatchProgram`, `SetMerchantMemberStatus`, `LinkChannelToUser`, `ResolveTransactionAlert`, `MarkReportFiled` have no caller; a customer cannot reach
  the handlers `select_data_payment_method`, `pay_individual_method`, `pay_individual_bank_pick`.

## 8. What a reader might expect and the code does not do

Each of these is an operator at the end of its module, not used by a run. To see the counterexample, put it in place of the properties of the
configuration and change the constants named here, if any; in a composition, let `focus` start at the part the property is about. A set of
`Kinds` is given to TLC as a definition beside `CardCollections`.

| module, configuration | property | change | what the repository says, and what happens |
|---|---|---|---|
| `CashOut`, `MCCashOut.cfg` | `CeilingNotEaten` | - | `service/wallet_payouts.go:193-195`: a request that dies after reserving leaves the reservation for good |
| `Settlement`, `MCSettlement.cfg` | `BatchPaidOnce` | - | a payout reversed during its transfer is requested again under a new rail key |
| | `PaidIsReserved` | - | `service/settlement.go:211-212`: the row is queued before the allowance is checked; refused, it is paid anyway |
| | `RefundedNotSettled` | - | `store/store_refunds.go:3-4`: the batch is checked at the request of a refund, not at its approval |
| | `PayoutIsNet` | - | `README.md:483`: a refund changes the open batch, not the payout already queued |
| | `TotalIsSumOfLines` | - | two refund requests recompute one total, the second from its older snapshot |
| | `OneBatchPerPayment` | `Batches <- TwoBatches` | `store/store_settlements.go:234`: two cuts at once both take a payment |
| | `RequeuesOrphans` | as PROPERTY | `store/store_settlements.go:659-660`: staleness is the age of the row, so a call in flight is requeued |
| | `RejectsHeld` | as PROPERTY | `store_payment_screening.go:303` "a reviewer disposition to a held payout": a row is read held, its re-evaluation queues it, and the rejection, whose UPDATE has no guard (line 343), reverses it |
| | `WalletCovers` | - | a rejection writes over a completed payout and reopens its batch, which pays again |
| `PaymentLifecycle`, `MCPaymentLifecycle.cfg` | `NoLateMoneyStranded` | - | `store/store_payments.go:672-674`: a payment listed for expiry is paid before it expires |
| | `RefundedOnce` | - | an approved refund credits the wallet *and* goes to the gateway |
| | `SplitOnce` | - | `store/store_split_payments.go:20-21`: inline hook and retry job both post the splits |
| | `RefundUnwindsAll` | - | `store/store_refunds.go:170-171`: splits posted after a refund, or under another journal, stay |
| | `RefundReleases` | - | `service/payments.go:308-309`: a refund keeps the reservation |
| | `WalletNeverOverdrawn` | `Payments = {pay1, pay2}`, `Kinds` the wallet collection | two wallet payments both see one balance |
| | `WalletSpendReserved` | `Payments = {pay1, pay2}`, `Kinds` the wallet collection and a card top-up, `OpeningBalance = 0` | `service/payments.go:311-312`: a failed confirmation releases the reservation of a concurrent one |
| `PaymentLifecycle`, `MCPaymentLifecycleLive.cfg` | `PurposeApplied` | `MaxFailures = 1` | a crash before the hook row exists loses the purpose |
| | `PaidIsResolved` | `Kinds` the bank-transfer collection | `store/store_payments.go:663-668`: a bank transfer with a lost webhook is never looked at |
| | `SupersededIsRefunded` | - | `app/webflow.go:483-487`: an abandoned attempt verified by a worker is not refunded |
| `LedgerChain`, `MCLedgerChain.cfg` | `ChainSound` | `MaxAborts = 0` | `store/store_ledger.go:130-131` "cannot fork": the session that waited for the lock still has the old tail |
| | `ReversedOnce`, `ReversedWhole` | for the second `Pairs = 2` | `store/store_ledger.go:205-207`: two reversals read the journal before either posts; a pair posted after the reversal stays |
| `InboundQueue`, `MCQueues.cfg` | `SerialPerConversation` | - | `store/store_payments.go:187-189`: two claims list one conversation, the second takes its next message while the first is answered |
| `Receivers`, `MCQueues.cfg` | `AnsweredIsAccepted` | - | the error of recording the outcome is dropped, so an answered post may be shown as received; Telegram and TikTok record it only for a post not seen before |
| `AuditChain`, `MCOffice.cfg` | `CannotFork`, `RetainedVerifies`, `AlertStays` | - | `store/store_admin.go:200-201` "cannot fork", but a waiting append still has the old tail; `store/store_retention.go:606-608`: a head re-rooted with entries after it no longer binds them; `app/workers.go:99-104`: sweeps of two replicas overlap, and the older verdict closes the newer one's alert |
| `EventBus`, `Outbox`, `MCQueues.cfg` | `PublishedIsConsumed`, `LinkPaidOnce`, `ReportStays` | - | "at-least-once overall", but a published event dies with its process; two visitors pay one link; a late completion writes over the provider's report |
| `Purchases`, `MCCollections.cfg` | `RefundUnwinds` | - | `store_invoices.go:293-294` "unwinds both": a refund reads the journal (`store_refunds.go:418`) before the invoice hook of its payment commits the allocation, which stays |
| | `InvoiceIsExact`, `SoldIsExact`, `IssuedWithinCapacity` | - | a sum over a stale snapshot misses the other payment; a purchase that found no room is applied (`store_events.go:299-304`) and gets a code for its full quantity (`service/payments.go:1084-1128`), so more can be issued than the capacity although the count is kept |
| `Thrift`, `MCCollections.cfg` | `NothingPaidInVain`, `ReadyWhenPaid`, `PoolCovers`, `NotOverfull` | the last with three users | a payment is applied to a contribution that is paid already; the last two contributions each count one short; a refund comes after the payout; members joining at once both see room |
| `Remittance`, `MCOperations.cfg` | `CodeReachesSender` | - | a retried hook finds the remittance and never delivers the code, although the hook's comment says so |
| `BulkPay`, `MCOperations.cfg` | `WalletCovers`, `TransfersAreCharged`, `NobodyIsCutOff`, `PaidStays` | two batches; -; `PageLimit = 1`; - | balances read without a lock; a wallet emptied between transfer and charge; one run lists one page; late replies |
| `Purse`, `MCOperations.cfg` | `DelistedIsNotPaid` | - | the allow-list is read before the lock is waited for |
| `DataOrder`, `MCOperations.cfg` | `BoughtOnce`, `FulfillingHasWorker`, `FailedWasNotBought`, `RefundedWasNotBought` | - | a pending purchase is asked for again under a new reference; a dead worker's order is claimed by nobody; an answer lost on its way fails an order that was bought; a refund meets one being bought |
| `Access`, `MCOffice.cfg` | `CodeReachesOwner`, `RevokedStaysRevoked`, `OneLiveLink`, `InviteIsSpentOnce` | - | renaming a mailed code's method changes its address; an answer read for one method takes its step after the step was switched to another and the first was revoked (`mfa.go:380-414`, `store_mfa.go:332-370`), and an open passkey ceremony outruns a revocation that "cannot be outrun"; two links sent at once are both live; an invitation is accepted twice at once |
| `Registry`, `MCOffice.cfg` | `OwnShop`, `NumberHasOneOwner` | - | a second approval of an application opens a second merchant; a merchant and a customer looking at once get one number, although the pool is "shared with merchants" |
| `Partner`, `Scanning`, `MCOffice.cfg` | `NoOrphanDraft`, `CodeReachesBuyer` | - | a request cut off before its reference is on the row leaves a draft; a hook run again finds the code and does not send it |
| `Retention`, `MCOffice.cfg` | `NothingIsLost`, `ErasureWaits` | - | a registration, or a record made after its customer was picked, goes without a snapshot; an erasure runs within its cooling-off period |
| `Contacts`, `MCOffice.cfg` | `LinkStays`, `SurvivorIsFree` | - | a second chat takes the place of the first; the survivor of a merge inherits the session that waits for the code |
| `Monitoring`, `MCOffice.cfg` | `AlertedOnce`, `LanesApart` | - | two scans both find nothing and both write; a dismissed fraud alert takes off a weight it never put on (`092_fraud_lane.sql:8`) |

The same property can hold in one instance and fail in another: `WalletNeverOverdrawn` of `PaymentLifecycle` holds for one wallet payment and fails for
two, `PaidIsResolved` holds for a card and fails for a transfer. The
pair says exactly where the boundary is.

Seen while modelling, without an operator of their own:

* Bulk: a dead worker's job stays 'running'; an approved batch whose enqueueing fails has no job; a rail's "pending" leaves the item unpaid; `RunDirectPayment` ignores the program
  of a batch (`store_programs.go:636` says otherwise).
* Dialogues: an operation that committed is repeated when the save of the session after it fails; a checkout link is lost when its send fails after the session went to the menu;
  CANCEL after a link was sent answers "Nothing is in progress" while the draft stays open; declining a switch at a confirmation calls a payment expired that still can be confirmed.
* Browser flows: two submissions of one page create two payments; an attempt superseded between the two reads of the hook is neither refunded nor completes its flow; the identity form reports success before it
  advances the tier.
* Held payouts: the console looks for a held payout by the reference of a payment, so it never finds one (`admin_payment_screening.go:98`).
* Ladders: the approval of a manual review commits and then reports an error; a PEP approval leaves the screening decision, so the person stays blocked; a frozen business wallet is
  never active again; the attempts of a card code are never counted.
* Portals: `mfa_challenges.method` refuses what `beginSecondFactor` inserts (`mfa.go:147`); `secondFactorRequired` is false when the methods cannot be read (`auth.go:70`).
* Merging accounts moves only columns named after a user: the wallet's `owner_id`, `thrift_groups.creator_user_id` and `remittances.sender_user_id` stay with the emptied account, although the comment
  of `MergeUsers` says that wallets are moved.
* Audit log: the column's check refuses the actor type `agent` that the application writes (`023`, line 7), so those entries are lost.
* Retention: a foreign key without CASCADE aborts a purge; `legal_holds` refuses holds on registrations that the code places.
* Monitoring: a risk event without a time never decays; structuring ignores its window; `RecomputeRiskScore` writes blindly; a reopened network case gets no weight, and two refreshes double weights.
* Editing an event's tiers deletes its purchases by cascade (`051_events.sql:38`); changing a service's custom fields deletes buyers' answers (`020_custom_fields.sql:21`).

## 9. Running it

```
tlc -workers 2 -config MCCashOut.cfg MCCashOut      # a configuration with the module PROJECT.json names for its run
tlapm CashOutProof.tla                              # and CollectionsProof, OfficeProof, OperationsProof, PaymentProof, QueuesProof, SettlementProof, Sums
```

The longest runs are `accounts`, `queues`, `operations`, `collections` and `office`, about three minutes each with two TLC workers; the
other safety runs take one to two. The longest proofs are `OperationsProof` and `PaymentProof`, up to ten minutes each on four cores.
