-------------------------------- MODULE Ladder --------------------------------
(***************************************************************************)
(* The identity ladder of a person (internal/store/store_kyc.go,           *)
(* store_pep_edd.go, store_identity_keys.go, internal/kyc/kyc.go; callers  *)
(* in service/conversation_individual.go and app/cli.go): tiers L0 to L3   *)
(* climbed one at a time on evidence, gated by the last screening and by   *)
(* an open case of senior management, and lowered by a rescreen.           *)
(*                                                                         *)
(* AdvanceKYCTier reads the profile, then the open cases, then writes the  *)
(* tier it was asked for, each on its own; so do the case and the          *)
(* downgrade.  Every clerk below is one such request, of a channel, of a   *)
(* form or of the rescreen worker, and may end anywhere.                   *)
(*                                                                         *)
(* The evidence list of a profile is left out: no gate reads it, the       *)
(* requirements are checked against the list the caller brings.  The other *)
(* review cases are left out too: they gate nothing.                       *)
(***************************************************************************)
EXTENDS Naturals, FiniteSets

CONSTANTS People,      \* customers with a profile
          IDs,         \* the numbers a person may present as BVN or as NIN
          Clerks,      \* requests in progress at the same time
          Nobody,      \* the owner of a number nobody claimed
          MaxScreens   \* bound: screenings recorded in one behaviour

VARIABLES tier,      \* kyc_profiles.tier
          screened,  \* kyc_profiles.last_screening_decision
          results,   \* screening_results: person and decision
          pepCases,  \* pending pep_edd cases of the person
          purseOf,   \* wallet_accounts.status of the person
          owner,     \* identity_keys: who claimed a number
          proved,    \* customer_verifications of a BVN or NIN
          lively,    \* persons with a completed liveness verification
          clerk      \* what each request is at

ladderVars == <<tier, screened, results, pepCases, purseOf, owner, proved, lively, clerk>>

Kinds == {"bvn", "nin"}
Off == [at |-> "off"]

LadderInit ==
  /\ tier = [p \in People |-> 0]
  /\ screened = [p \in People |-> "none"]
  /\ results = {}
  /\ pepCases = [p \in People |-> 0]
  /\ purseOf = [p \in People |-> "pending"]
  /\ owner = [k \in Kinds \X IDs |-> Nobody]
  /\ proved = {}
  /\ lively = {}
  /\ clerk = [c \in Clerks |-> Off]

(***************************************************************************)
(* The rules (kyc.go).  The evidence of a step is known by the tier it     *)
(* leads to.                                                               *)
(***************************************************************************)
CanAdvance(from, to, brought) == to = from + 1 /\ to \in brought

\* Mutant: a profile that was never screened is not blocked.
BlockedByScreeningMutant(decision) == decision = "hit"
BlockedByScreening(decision) == decision # "clear"

CanDowngrade(from, to) == to < from

(***************************************************************************)
(* AdvanceKYCTierTo: one AdvanceKYCTier per tier, all with the same list.  *)
(***************************************************************************)
Climb(p, goal) == IF tier[p] < goal
                  THEN [at |-> "read", who |-> p, to |-> tier[p] + 1, goal |-> goal] ELSE Off

Goto(c, step) == clerk' = [clerk EXCEPT ![c].at = step]
Done(c) == clerk' = [clerk EXCEPT ![c] = Off]

\* A list that serves the goal serves no other tier.
Brought(c) == {clerk[c].goal}

ReadProfile(c) ==
  /\ clerk[c].at = "read"
  /\ LET p == clerk[c].who  to == clerk[c].to
     IN IF CanAdvance(tier[p], to, Brought(c)) /\ (to >= 2 => ~BlockedByScreening(screened[p]))
        THEN Goto(c, "gate") ELSE Done(c)
  /\ UNCHANGED <<tier, screened, results, pepCases, purseOf, owner, proved, lively>>

HasOpenPEPEDDCase(p) == pepCases[p] > 0
PEPGate(c) ==
  /\ clerk[c].at = "gate"
  /\ IF HasOpenPEPEDDCase(clerk[c].who) THEN Done(c) ELSE Goto(c, "write")
  /\ UNCHANGED <<tier, screened, results, pepCases, purseOf, owner, proved, lively>>

\* Mutant: the first tier leaves the wallet as it is.
ActivatedMutant(p, to) == purseOf
Activated(p, to) == IF to = 1 THEN [purseOf EXCEPT ![p] = "active"] ELSE purseOf

\* The tier is written whatever it has become since it was read.
WriteTier(c) ==
  /\ clerk[c].at = "write"
  /\ LET p == clerk[c].who  to == clerk[c].to  goal == clerk[c].goal
     IN /\ tier' = [tier EXCEPT ![p] = to]
        /\ purseOf' = Activated(p, to)
        /\ clerk' = [clerk EXCEPT ![c] = IF to < goal THEN [@ EXCEPT !.at = "read", !.to = to + 1] ELSE Off]
  /\ UNCHANGED <<screened, results, pepCases, owner, proved, lively>>

(***************************************************************************)
(* Screening.  A hit opens a case once the decision is committed.          *)
(***************************************************************************)
Screens == Cardinality(results)
Record(p, d) == screened' = [screened EXCEPT ![p] = d] /\ results' = results \cup {<<p, d, Screens>>}

\* handleIndividualDetails: screened, then the first tier unless it was a hit.
HandleDetails(c, p) ==
  /\ clerk[c] = Off /\ Screens < MaxScreens
  /\ \E d \in {"clear", "hit"} :
       /\ Record(p, d)
       /\ clerk' = [clerk EXCEPT ![c] = IF d = "clear" THEN Climb(p, 1)
                                        ELSE [at |-> "check", who |-> p, lower |-> FALSE]]
  /\ UNCHANGED <<tier, pepCases, purseOf, owner, proved, lively>>

\* RescreenDue: a hit also lowers the person to L1.
Rescreen(c, p) ==
  /\ clerk[c] = Off /\ Screens < MaxScreens
  /\ \E d \in {"clear", "hit"} :
       /\ Record(p, d)
       /\ clerk' = [clerk EXCEPT ![c] = IF d = "clear" THEN Off
                                        ELSE [at |-> "check", who |-> p, lower |-> TRUE]]
  /\ UNCHANGED <<tier, pepCases, purseOf, owner, proved, lively>>

Lowering(c) == IF clerk[c].lower THEN Goto(c, "lower") ELSE Done(c)

\* EnsurePEPEDDCase: the case is looked for, then opened.
CheckCase(c) ==
  /\ clerk[c].at = "check"
  /\ IF HasOpenPEPEDDCase(clerk[c].who) THEN Lowering(c) ELSE Goto(c, "open")
  /\ UNCHANGED <<tier, screened, results, pepCases, purseOf, owner, proved, lively>>
OpenCase(c) ==
  /\ clerk[c].at = "open"
  /\ pepCases' = [pepCases EXCEPT ![clerk[c].who] = @ + 1]
  /\ Lowering(c)
  /\ UNCHANGED <<tier, screened, results, purseOf, owner, proved, lively>>

\* DowngradeKYCTier to L1, read and written apart.
ReadDowngrade(c) ==
  /\ clerk[c].at = "lower"
  /\ IF CanDowngrade(tier[clerk[c].who], 1) THEN Goto(c, "lowered") ELSE Done(c)
  /\ UNCHANGED <<tier, screened, results, pepCases, purseOf, owner, proved, lively>>
WriteDowngrade(c) ==
  /\ clerk[c].at = "lowered"
  /\ tier' = [tier EXCEPT ![clerk[c].who] = 1]
  /\ Done(c)
  /\ UNCHANGED <<screened, results, pepCases, purseOf, owner, proved, lively>>

\* ReviewPEPEDDCase: senior management disposes of one case.
ReviewPEPEDDCase(p) ==
  /\ HasOpenPEPEDDCase(p)
  /\ pepCases' = [pepCases EXCEPT ![p] = @ - 1]
  /\ UNCHANGED <<tier, screened, results, purseOf, owner, proved, lively, clerk>>

(***************************************************************************)
(* The steps of the dialogues that lead to a tier.                         *)
(***************************************************************************)
\* handleAccountConfirmation: the first tier, without a screening.
ConfirmAccount(c, p) ==
  /\ clerk[c] = Off
  /\ clerk' = [clerk EXCEPT ![c] = Climb(p, 1)]
  /\ UNCHANGED <<tier, screened, results, pepCases, purseOf, owner, proved, lively>>

\* handleIndividualBVNNIN: both numbers are verified and claimed, one by one.
HandleBVNNIN(c, p) ==
  /\ clerk[c] = Off
  /\ \E b, n \in IDs : clerk' = [clerk EXCEPT ![c] = [at |-> "bvn", who |-> p, bvn |-> b, nin |-> n]]
  /\ UNCHANGED <<tier, screened, results, pepCases, purseOf, owner, proved, lively>>

\* Mutant: whose the number is is not read back after the insert.
ClaimIdentityKeyMutant(p, key) == TRUE
\* claimIdentityKey: INSERT ... ON CONFLICT DO NOTHING, then whose it is.
ClaimIdentityKey(p, key) == owner[key] \in {Nobody, p}

\* RecordCustomerVerification: claim and verification in one transaction.
RecordIdentity(p, key) ==
  /\ owner' = [owner EXCEPT ![key] = IF @ = Nobody THEN p ELSE @]
  /\ proved' = proved \cup {<<p, key>>}

VerifyBVN(c) ==
  /\ clerk[c].at = "bvn"
  /\ LET key == <<"bvn", clerk[c].bvn>>
     IN IF ClaimIdentityKey(clerk[c].who, key)
        THEN RecordIdentity(clerk[c].who, key) /\ Goto(c, "nin")
        ELSE Done(c) /\ UNCHANGED <<owner, proved>>
  /\ UNCHANGED <<tier, screened, results, pepCases, purseOf, lively>>
VerifyNIN(c) ==
  /\ clerk[c].at = "nin"
  /\ LET p == clerk[c].who  key == <<"nin", clerk[c].nin>>
     IN IF ClaimIdentityKey(p, key)
        THEN RecordIdentity(p, key) /\ clerk' = [clerk EXCEPT ![c] = Climb(p, 2)]
        ELSE Done(c) /\ UNCHANGED <<owner, proved>>
  /\ UNCHANGED <<tier, screened, results, pepCases, purseOf, lively>>

\* handleIndividualLiveness: due diligence recorded, then the last tier.
HandleLiveness(c, p) ==
  /\ clerk[c] = Off
  /\ lively' = lively \cup {p}
  /\ clerk' = [clerk EXCEPT ![c] = Climb(p, 3)]
  /\ UNCHANGED <<tier, screened, results, pepCases, purseOf, owner, proved>>

\* An error, a refused number or a crash ends a request between two steps.
Abort(c) == /\ clerk[c] # Off /\ Done(c)
            /\ UNCHANGED <<tier, screened, results, pepCases, purseOf, owner, proved, lively>>

LadderNext ==
  \/ \E c \in Clerks :
       \/ ReadProfile(c) \/ PEPGate(c) \/ WriteTier(c)
       \/ CheckCase(c) \/ OpenCase(c) \/ ReadDowngrade(c) \/ WriteDowngrade(c)
       \/ VerifyBVN(c) \/ VerifyNIN(c) \/ Abort(c)
       \/ \E p \in People : \/ HandleDetails(c, p) \/ Rescreen(c, p)
                            \/ ConfirmAccount(c, p)
                            \/ HandleBVNNIN(c, p) \/ HandleLiveness(c, p)
  \/ \E p \in People : ReviewPEPEDDCase(p)

LadderSpec == LadderInit /\ [][LadderNext]_ladderVars

(***************************************************************************)
(* Properties                                                              *)
(***************************************************************************)
\* A number belongs to one person, and nobody else has it verified
\* (RecordCustomerVerification: one person, one customer).
OneOwnerPerNumber == \A v \in proved : owner[v[2]] = v[1]

\* Whatever requests of whatever channels overlapped, nobody stands on a tier
\* that skips what the tiers below ask: the wallet is active from L1, both
\* numbers are the person's own and a screening once was clear from L2, and the
\* liveness check was passed at L3 (AdvanceKYCTier, AdvanceKYCTierTo).
TierIsEarned ==
  \A p \in People :
    /\ tier[p] >= 1 => purseOf[p] = "active"
    /\ tier[p] >= 2 => /\ \A k \in Kinds : \E n \in IDs : <<p, <<k, n>>>> \in proved
                       /\ \E r \in results : r[1] = p /\ r[2] = "clear"
    /\ tier[p] = 3 => p \in lively

LadderSafe == OneOwnerPerNumber /\ TierIsEarned

-----------------------------------------------------------------------------
(***************************************************************************)
(* The business ladder (internal/store/store_allowances.go,                *)
(* internal/kyc/allowances.go, app/admin_kyb.go, admin_kyb_documents.go,   *)
(* cli.go): a merchant hands in corporate documents, a reviewer disposes   *)
(* of each, a provider judges each, and an operator moves the merchant up  *)
(* the tiers B0 to B3.  A rescreen may throw it back to B0 and a rejected  *)
(* review freezes its wallet.                                              *)
(*                                                                         *)
(* Reviews and verdicts are two maps in the document row: every writer     *)
(* loads the row, changes its copy of a map and stores the map, without a  *)
(* lock.  A desk is one such request of the console, of the chat or of the *)
(* rescreen worker.  The upgrade request itself is advisory and left out.  *)
(***************************************************************************)
CONSTANTS Firms,      \* merchants
          Papers,     \* the evidence keys of the corporate hard gate
          Editions,   \* what may be handed in under a key
          Missing,    \* nothing is on file under a key
          Offices,    \* requests in progress at the same time
          MaxFilings  \* bound: documents handed in per merchant

VARIABLES btier,      \* business_kyb_profiles.tier
          bscreened,  \* its last_screening_decision
          bpurse,     \* wallet_accounts.status of the business
          file,       \* business_kyb_documents: papers, reviews, verdicts
          filings,    \* documents handed in so far
          trail,      \* audit log and provider records: what ever happened
          office      \* what each request is at

businessVars == <<btier, bscreened, bpurse, file, filings, trail, office>>

Away == [at |-> "away"]

BusinessInit ==
  /\ btier = [f \in Firms |-> 0]
  /\ bscreened = [f \in Firms |-> "none"]
  /\ bpurse = [f \in Firms |-> "none"]
  /\ file = [f \in Firms |-> [paper |-> [k \in Papers |-> Missing], verified |-> {}, genuine |-> {}]]
  /\ filings = [f \in Firms |-> 0]
  /\ trail = {}
  /\ office = [o \in Offices |-> Away]

Enter(o, job) == office[o] = Away /\ office' = [office EXCEPT ![o] = job]
Leave(o) == office' = [office EXCEPT ![o] = Away]
GoOn(o, step) == office' = [office EXCEPT ![o].at = step]

(***************************************************************************)
(* Documents                                                               *)
(***************************************************************************)
\* UpsertKYBDocuments: the row is loaded; reviews and verdicts are kept only
\* with unchanged documents.
Submit(o, f) ==
  /\ filings[f] < MaxFilings
  /\ filings' = [filings EXCEPT ![f] = @ + 1]
  /\ \E papers \in [Papers -> Editions \cup {Missing}] :
       Enter(o, [at |-> "store", who |-> f,
                 row |-> IF file[f].paper = papers THEN file[f]
                         ELSE [paper |-> papers, verified |-> {}, genuine |-> {}]])
  /\ UNCHANGED <<btier, bscreened, bpurse, file, trail>>
StoreDocuments(o) ==
  /\ office[o].at = "store"
  /\ file' = [file EXCEPT ![office[o].who] = office[o].row]
  /\ Leave(o)
  /\ UNCHANGED <<btier, bscreened, bpurse, filings, trail>>

\* ReviewKYBDocument: a document on file, and the reviewer's disposition.
LoadReview(o, f) ==
  /\ \E k \in Papers, good \in BOOLEAN :
       /\ file[f].paper[k] # Missing
       /\ Enter(o, [at |-> "review", who |-> f, key |-> k, good |-> good,
                    map |-> IF good THEN file[f].verified \cup {k} ELSE file[f].verified \ {k}])
  /\ UNCHANGED <<btier, bscreened, bpurse, file, filings, trail>>
StoreReview(o) ==
  /\ office[o].at = "review"
  /\ file' = [file EXCEPT ![office[o].who].verified = office[o].map]
  /\ trail' = IF office[o].good THEN trail \cup {<<office[o].who, "verified", office[o].key>>} ELSE trail
  /\ Leave(o)
  /\ UNCHANGED <<btier, bscreened, bpurse, filings>>

\* adminKYBCheckAuthenticity: the documents are loaded, the provider judges
\* one, the row is loaded again for the map of verdicts, and the map stored.
CheckAuthenticity(o, f) ==
  /\ \E k \in Papers : /\ file[f].paper[k] # Missing
                       /\ Enter(o, [at |-> "judge", who |-> f, key |-> k])
  /\ UNCHANGED <<btier, bscreened, bpurse, file, filings, trail>>
Judge(o) ==
  /\ office[o].at = "judge"
  /\ LET f == office[o].who  k == office[o].key
     IN \E good \in BOOLEAN :
          /\ trail' = IF good THEN trail \cup {<<f, "genuine", k>>} ELSE trail
          /\ office' = [office EXCEPT ![o] = [at |-> "verdict", who |-> f,
               map |-> IF good THEN file[f].genuine \cup {k} ELSE file[f].genuine \ {k}]]
  /\ UNCHANGED <<btier, bscreened, bpurse, file, filings>>
StoreVerdict(o) ==
  /\ office[o].at = "verdict"
  /\ file' = [file EXCEPT ![office[o].who].genuine = office[o].map]
  /\ Leave(o)
  /\ UNCHANGED <<btier, bscreened, bpurse, filings, trail>>

\* Mutant: a review alone counts.
VerifiedKYBEvidenceMutant(d) == {k \in Papers : d.paper[k] # Missing /\ k \in d.verified}
VerifiedKYBEvidence(d) == {k \in Papers : d.paper[k] # Missing /\ k \in d.verified /\ k \in d.genuine}

(***************************************************************************)
(* AdvanceKYBTier: profile, documents and tier, each on its own.           *)
(***************************************************************************)
CanAdvanceBusiness(from, to) == to = from + 1 /\ to <= 3

Advance(o, f) ==
  /\ \E to \in 1 .. 3 : /\ CanAdvanceBusiness(btier[f], to) /\ bscreened[f] = "clear"
                        /\ Enter(o, [at |-> IF to = 1 THEN "gate" ELSE "raise", who |-> f, to |-> to])
  /\ UNCHANGED <<btier, bscreened, bpurse, file, filings, trail>>
HardGate(o) ==
  /\ office[o].at = "gate"
  /\ IF VerifiedKYBEvidence(file[office[o].who]) = Papers THEN GoOn(o, "raise") ELSE Leave(o)
  /\ UNCHANGED <<btier, bscreened, bpurse, file, filings, trail>>

\* Mutant: a wallet that exists is made active again.
EnsuredMutant(f) == [bpurse EXCEPT ![f] = "active"]
\* ensureWalletTx: a wallet that exists keeps its status.
Ensured(f) == [bpurse EXCEPT ![f] = IF @ = "none" THEN "active" ELSE @]
\* freezeWalletTx: without a wallet there is nothing to freeze.
Frozen(f) == [bpurse EXCEPT ![f] = IF @ = "none" THEN @ ELSE "frozen"]

RaiseTier(o) ==
  /\ office[o].at = "raise"
  /\ LET f == office[o].who
     IN /\ btier' = [btier EXCEPT ![f] = office[o].to]
        /\ bpurse' = Ensured(f)
  /\ Leave(o)
  /\ UNCHANGED <<bscreened, file, filings, trail>>

(***************************************************************************)
(* Rescreen, review, settlement                                            *)
(***************************************************************************)
\* RescreenDue: RecordKYBScreening, and a hit goes on to the downgrade.
RescreenBusiness(o, f) ==
  /\ \E d \in {"clear", "hit"} :
       /\ bscreened' = [bscreened EXCEPT ![f] = d]
       /\ IF d = "hit" THEN Enter(o, [at |-> "fall", who |-> f])
          ELSE office[o] = Away /\ UNCHANGED office
       /\ trail' = IF d = "clear" THEN trail \cup {<<f, "clear", d>>} ELSE trail
  /\ UNCHANGED <<btier, bpurse, file, filings>>

\* DowngradeKYBTier to B0, refused there.
ReadFall(o) ==
  /\ office[o].at = "fall"
  /\ IF btier[office[o].who] > 0 THEN GoOn(o, "fallen") ELSE Leave(o)
  /\ UNCHANGED <<btier, bscreened, bpurse, file, filings, trail>>
\* Mutant: the downgrade forgets the wallet.
WriteFallMutant(o) ==
  /\ office[o].at = "fallen"
  /\ btier' = [btier EXCEPT ![office[o].who] = 0]
  /\ trail' = trail \cup {<<office[o].who, "downgraded", 0>>}
  /\ Leave(o)
  /\ UNCHANGED <<bscreened, bpurse, file, filings>>
WriteFall(o) ==
  /\ office[o].at = "fallen"
  /\ btier' = [btier EXCEPT ![office[o].who] = 0]
  /\ bpurse' = Frozen(office[o].who)
  /\ trail' = trail \cup {<<office[o].who, "downgraded", 0>>}
  /\ Leave(o)
  /\ UNCHANGED <<bscreened, file, filings>>

\* adminKYBReview: the tier stays, the wallet follows.
ReviewKYBProfile(f) ==
  /\ bpurse' \in {Ensured(f), Frozen(f)}
  /\ UNCHANGED <<btier, bscreened, file, filings, trail, office>>

\* EnsureBusinessWallet before a settlement.
EnsureBusinessWallet(f) ==
  /\ bpurse' = Ensured(f)
  /\ UNCHANGED <<btier, bscreened, file, filings, trail, office>>

\* An error or a crash ends a request between two steps.
GiveUp(o) == /\ office[o] # Away /\ Leave(o)
             /\ UNCHANGED <<btier, bscreened, bpurse, file, filings, trail>>

BusinessNext ==
  \/ \E o \in Offices :
       \/ StoreDocuments(o) \/ StoreReview(o) \/ Judge(o) \/ StoreVerdict(o)
       \/ HardGate(o) \/ RaiseTier(o) \/ ReadFall(o) \/ WriteFall(o) \/ GiveUp(o)
       \/ \E f \in Firms : \/ Submit(o, f) \/ LoadReview(o, f) \/ CheckAuthenticity(o, f)
                           \/ Advance(o, f) \/ RescreenBusiness(o, f)
  \/ \E f \in Firms : ReviewKYBProfile(f) \/ EnsureBusinessWallet(f)

BusinessSpec == BusinessInit /\ [][BusinessNext]_businessVars

(***************************************************************************)
(* Properties                                                              *)
(***************************************************************************)
\* A bare request never reaches B1, whoever approves it: for every key a
\* reviewer once verified a document and the provider once judged one genuine,
\* and the business was cleared by a screening (AdvanceKYBTier).  It does not
\* say that it was the same document: the maps may be stored over new papers.
GateWasPassed ==
  \A f \in Firms : btier[f] >= 1 =>
    /\ \A k \in Papers : <<f, "verified", k>> \in trail /\ <<f, "genuine", k>> \in trail
    /\ <<f, "clear", "clear">> \in trail

\* A verified business has a wallet, and one thrown back to B0 is frozen and
\* stays so until it is raised again and afterwards too: nothing reopens it
\* (DowngradeKYBTier, freezeWalletTx, ensureWalletTx).
FallenIsFrozen ==
  \A f \in Firms : /\ btier[f] >= 1 => bpurse[f] # "none"
                   /\ <<f, "downgraded", 0>> \in trail => bpurse[f] = "frozen"

BusinessSafe == GateWasPassed /\ FallenIsFrozen
=============================================================================
