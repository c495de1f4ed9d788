------------------------------- MODULE Registry -------------------------------
(***************************************************************************)
(* The register of merchants: applications from the chat, approval and     *)
(* direct creation by an administrator, wallet numbers shared with the     *)
(* standing accounts of customers, disabling and removal                   *)
(* (internal/store/store_merchants.go, store_standing_accounts.go;         *)
(* internal/app/admin.go; migrations 001, 011, 012, 039, 040, 072, 113).   *)
(*                                                                         *)
(* A slug and a number are looked for and taken in two steps, and so are a *)
(* removal's count of financial records and its delete: requests           *)
(* interleave between them.  Applications and shops of this model have one *)
(* business name, the case in which slugs collide.                         *)
(***************************************************************************)
EXTENDS Naturals, FiniteSets

CONSTANTS Desks,         \* requests in progress
          Applications,  \* rows of merchant_registrations
          Shops,         \* ids of merchants
          Savers,        \* customers with a standing account
          PoolSize,      \* bound: numbers of the 9330000000 pool
          MaxSlugs       \* slugs tried for one name (20)

Slugs == 1 .. MaxSlugs  \* base, base-2, ...

VARIABLES applied,   \* merchant_registrations.status, and the merchant it opened
          shop,      \* merchants
          standing,  \* standing_accounts.account_number, 0 without a row
          movement,  \* merchants with a payment, invoice, checkout or ledger entry
          desk       \* what each request in progress read

registryVars == <<applied, shop, standing, movement, desk>>

NoRow == [state |-> "none", slug |-> 0, number |-> 0]
Absent == [state |-> "none", shops |-> {}]
Idle == [at |-> "idle"]

RegistryInit ==
  /\ applied = [a \in Applications |-> Absent]
  /\ shop = [m \in Shops |-> NoRow]
  /\ standing = [u \in Savers |-> 0]
  /\ movement = {}
  /\ desk = [d \in Desks |-> Idle]

There(m) == shop[m].state \in {"active", "disabled"}
Reads(d, rec) == desk[d] = Idle /\ desk' = [desk EXCEPT ![d] = rec]
Done(d) == desk' = [desk EXCEPT ![d] = Idle]

(***************************************************************************)
(* Lookups                                                                 *)
(***************************************************************************)
SlugTaken(s) == \E m \in Shops : There(m) /\ shop[m].slug = s
\* allocateMerchantSlug: the first free one, or none.
AllocateMerchantSlug(s) == ~SlugTaken(s) /\ \A t \in 1 .. s - 1 : SlugTaken(t)

Taken == {shop[m].number : m \in {x \in Shops : There(x)}} \cup {standing[u] : u \in Savers}
\* NextAvailableWalletAccountNumber, over both tables.
NextAvailableWalletAccountNumber(n) ==
  n \in 1 .. PoolSize /\ n \notin Taken /\ \A i \in 1 .. n - 1 : i \in Taken

(***************************************************************************)
(* Applications and approval                                               *)
(***************************************************************************)
CreateMerchantRegistration(a) ==
  /\ applied[a].state = "none"
  /\ applied' = [applied EXCEPT ![a].state = "awaiting"]
  /\ UNCHANGED <<shop, standing, movement, desk>>

\* ApproveMerchantRegistration holds the application's row to its commit; one
\* already approved is not turned away.
BeginApproval(d, a) ==
  /\ applied[a].state # "none"
  /\ \A e \in Desks : desk[e].at = "approve" => desk[e].a # a
  /\ \E s \in Slugs : AllocateMerchantSlug(s) /\ Reads(d, [at |-> "approve", a |-> a, slug |-> s])
  /\ UNCHANGED <<applied, shop, standing, movement>>

\* A slug taken meanwhile is updated in place: the row is shared.
ApproveMerchantRegistration(d) ==
  /\ desk[d].at = "approve"
  /\ LET q == desk[d]
     IN \E m \in Shops :
          /\ IF SlugTaken(q.slug) THEN There(m) /\ shop[m].slug = q.slug
             ELSE shop[m].state = "none"
          /\ shop' = [shop EXCEPT ![m].state = "active", ![m].slug = q.slug]
          /\ applied' = [applied EXCEPT ![q.a] = [state |-> "approved", shops |-> @.shops \cup {m}]]
  /\ Done(d)
  /\ UNCHANGED <<standing, movement>>

\* CreateMerchantDirect: a slug typed in by the administrator must be free.
BeginCreateDirect(d) ==
  /\ \E s \in Slugs, n \in 1 .. PoolSize :
       /\ ~SlugTaken(s)
       /\ NextAvailableWalletAccountNumber(n)
       /\ Reads(d, [at |-> "create", slug |-> s, number |-> n])
  /\ UNCHANGED <<applied, shop, standing, movement>>

\* Mutant: the unique indexes of merchants are missing.
CollidesMutant(slug, n) == FALSE
\* merchants.slug and uq_merchants_wallet_account_number.
Collides(slug, n) == SlugTaken(slug) \/ \E m \in Shops : There(m) /\ shop[m].number = n

CreateMerchantDirect(d) ==
  /\ desk[d].at = "create"
  /\ LET q == desk[d]
     IN IF Collides(q.slug, q.number) THEN UNCHANGED shop
        ELSE \E m \in Shops : /\ shop[m].state = "none"
                              /\ \E on \in {"active", "disabled"} :
                                   shop' = [shop EXCEPT ![m] = [state |-> on, slug |-> q.slug,
                                                               number |-> q.number]]
  /\ Done(d)
  /\ UNCHANGED <<applied, standing, movement>>

(***************************************************************************)
(* Standing accounts                                                       *)
(***************************************************************************)
BeginEnsureStanding(d, u) ==
  /\ standing[u] = 0
  /\ \E n \in 1 .. PoolSize : NextAvailableWalletAccountNumber(n)
                              /\ Reads(d, [at |-> "reserve", u |-> u, number |-> n])
  /\ UNCHANGED <<applied, shop, standing, movement>>

\* EnsureStandingAccount: a number another customer took falls back to the local
\* range, one of the customer's own; a row of the customer refuses every number.
EnsureStandingAccount(d) ==
  /\ desk[d].at = "reserve"
  /\ LET q == desk[d]
     IN standing' = IF standing[q.u] # 0 THEN standing
                    ELSE [standing EXCEPT ![q.u] =
                           IF \E v \in Savers : standing[v] = q.number THEN PoolSize + 1 ELSE q.number]
  /\ Done(d)
  /\ UNCHANGED <<applied, shop, movement>>

(***************************************************************************)
(* Disabling, money and removal                                            *)
(***************************************************************************)
SetMerchantActive(m) ==
  /\ There(m)
  /\ \E on \in {"active", "disabled"} : shop' = [shop EXCEPT ![m].state = on]
  /\ UNCHANGED <<applied, standing, movement, desk>>

\* The catalogue lists the merchant; the payment is inserted later.
ChooseMerchant(d, m) ==
  /\ shop[m].state = "active" /\ Reads(d, [at |-> "pay", m |-> m])
  /\ UNCHANGED <<applied, shop, standing, movement>>

\* A payment, invoice, checkout or ledger entry: its foreign key must hold.
RecordMovement(d) ==
  /\ desk[d].at = "pay"
  /\ movement' = IF There(desk[d].m) THEN movement \cup {desk[d].m} ELSE movement
  /\ Done(d)
  /\ UNCHANGED <<applied, shop, standing>>

\* adminDeleteMerchant: MerchantFinancialRecordCounts first.
CountFinancialRecords(d, m) ==
  /\ There(m) /\ m \notin movement
  /\ Reads(d, [at |-> "delete", m |-> m])
  /\ UNCHANGED <<applied, shop, standing, movement>>

\* Mutant: the financial records follow the merchant.
HeldByRecordsMutant(m) == FALSE
\* payments, invoices, checkouts and ledger_entries reference it without CASCADE.
HeldByRecords(m) == m \in movement

DeleteMerchant(d) ==
  /\ desk[d].at = "delete"
  /\ LET m == desk[d].m
     IN shop' = IF There(m) /\ ~HeldByRecords(m) THEN [shop EXCEPT ![m].state = "gone"] ELSE shop
  /\ Done(d)
  /\ UNCHANGED <<applied, standing, movement>>

RegistryNext ==
  \/ \E a \in Applications : CreateMerchantRegistration(a)
  \/ \E d \in Desks :
       \/ \E a \in Applications : BeginApproval(d, a)
       \/ ApproveMerchantRegistration(d) \/ BeginCreateDirect(d) \/ CreateMerchantDirect(d)
       \/ \E u \in Savers : BeginEnsureStanding(d, u)
       \/ EnsureStandingAccount(d) \/ RecordMovement(d) \/ DeleteMerchant(d)
       \/ \E m \in Shops : ChooseMerchant(d, m) \/ CountFinancialRecords(d, m)
  \/ \E m \in Shops : SetMerchantActive(m)

RegistrySpec == RegistryInit /\ [][RegistryNext]_registryVars

(***************************************************************************)
(* Properties                                                              *)
(***************************************************************************)
\* A merchant with a financial record is never removed, also when the record
\* lands between the count and the delete (adminDeleteMerchant).
MoneyKeepsItsShop == \A m \in movement : There(m)

\* Two merchants never answer to one slug or one wallet number, although both are
\* looked for before they are taken (CreateMerchantDirect, allocateMerchantSlug).
NamesAreDistinct ==
  \A m, n \in {x \in Shops : There(x)} :
    m # n => /\ shop[m].slug # shop[n].slug
             /\ shop[m].number = shop[n].number => shop[m].number = 0

RegistrySafe == MoneyKeepsItsShop /\ NamesAreDistinct

\* Not checked: a second approval of an application opens a second merchant, and
\* two applications of one name approved at the same time share one.
OwnShop == \A a, b \in Applications :
             /\ Cardinality(applied[a].shops) <= 1
             /\ a # b => applied[a].shops \cap applied[b].shops = {}

\* Not checked: a merchant and a customer that look at the same time get one
\* number, although the pool is "shared with merchants" (EnsureStandingAccount).
NumberHasOneOwner == \A m \in Shops, u \in Savers :
                       There(m) /\ shop[m].number # 0 => shop[m].number # standing[u]
=============================================================================
