------------------------------- MODULE Retention -------------------------------
(***************************************************************************)
(* Retention of one customer's records: legal holds, the purge that        *)
(* archives before it deletes, and the erasure a customer asks for         *)
(* (internal/store/store_retention.go, store_dsr.go; internal/app/cli.go,  *)
(* admin.go, dsr.go; migrations 025, 029).                                 *)
(*                                                                         *)
(* A thrift group grows old once it has ended, it is not purged before.    *)
(* The purge goes through the classes in one order.  A batch is a          *)
(* transaction under READ COMMITTED: it picks rows, and archives and       *)
(* deletes what it picked; others act in between, and a batch or the run   *)
(* may fail.  The customer is picked and deleted in two statements.        *)
(***************************************************************************)
EXTENDS Naturals, FiniteSets

CONSTANTS Items,    \* records of the customer
          MayBe,    \* [Items -> SUBSET Kinds]: bound, what each may be
          Customer, \* the customer, as the subject of a hold
          Purgers,  \* replicas whose retention worker runs
          Clerks,   \* administrators' requests in progress
          Nothing   \* no kind

\* The classes of records in the order of PurgeBefore; the customer comes last.
Kinds == {"registration", "payment", "invoice", "thrift"}
After == [registration |-> "payment", payment |-> "invoice", invoice |-> "thrift",
          thrift |-> "user", user |-> "idle"]

\* Ages: 1 is past RETENTION_PERIOD, 2 is also past AML_RECORD_RETENTION.
VARIABLES item,     \* payments, invoices, thrift_groups, merchant_registrations
          person,   \* users
          hold,     \* legal_holds: the subjects under one
          tied,     \* payments with a settlement line, a refund, a dispute or a split
          archived, \* archive_ledger: snapshots of each record
          exported, \* records in the snapshot of an erased customer
          purge,    \* where each purger is
          request,  \* data_subject_requests: the erasure
          clerk,    \* what each administrator's request knows
          late,     \* records made after the customer was picked or exported
          guarded   \* records under a hold that was there before any purger picked them

retentionVars ==
  <<item, person, hold, tied, archived, exported, purge, request, clerk, late, guarded>>

Subjects == Items \cup {Customer}
OffDuty == [at |-> "idle", picked |-> {}]

RetentionInit ==
  /\ item = [i \in Items |-> [kind |-> Nothing, age |-> 1, there |-> FALSE]]
  /\ person = [there |-> TRUE, age |-> 1]
  /\ hold = {} /\ tied = {} /\ exported = {} /\ late = {} /\ guarded = {}
  /\ archived = [i \in Items |-> 0]
  /\ purge = [p \in Purgers |-> OffDuty]
  /\ request = "none"
  /\ clerk = [c \in Clerks |-> [at |-> "idle", export |-> {}]]

Stored(i) == item[i].there
Gone(i) == ~item[i].there /\ item[i].kind # Nothing
Held(s) == s \in hold
\* A hold of the customer covers his payments, invoices and thrift groups.
HeldBy(i) == {i} \cup (IF item[i].kind = "registration" THEN {} ELSE {Customer})
Picked == UNION {purge[p].picked : p \in Purgers}

(***************************************************************************)
(* The business                                                            *)
(***************************************************************************)
MakeRecord(i) ==
  /\ person.there /\ item[i].kind = Nothing
  /\ \E k \in MayBe[i] : item' = [item EXCEPT ![i] = [kind |-> k, age |-> 1, there |-> TRUE]]
  /\ late' = IF Customer \in Picked \/ \E c \in Clerks : clerk[c].at = "erase"
             THEN late \cup {i} ELSE late
  /\ UNCHANGED <<person, hold, tied, archived, exported, purge, request, clerk, guarded>>

\* settlement_lines, refunds, disputes and payment_splits reference the payment
\* without CASCADE.
TiePayment(i) ==
  /\ Stored(i) /\ item[i].kind = "payment" /\ i \notin tied
  /\ tied' = tied \cup {i}
  /\ UNCHANGED <<item, person, hold, archived, exported, purge, request, clerk, late, guarded>>

GrowOld ==
  /\ \/ \E i \in Items : Stored(i) /\ item[i].age = 1
                         /\ item' = [item EXCEPT ![i].age = 2] /\ UNCHANGED person
     \/ person' \in {[person EXCEPT !.age = 2], [person EXCEPT !.age = 1]} /\ UNCHANGED item
  /\ UNCHANGED <<hold, tied, archived, exported, purge, request, clerk, late, guarded>>

(***************************************************************************)
(* Legal holds                                                             *)
(***************************************************************************)
\* The records the holds h cover and no purger has picked.
Guards(h) == {i \in Items : Stored(i) /\ i \notin Picked /\ HeldBy(i) \cap h # {}}

Hold(s) == hold' = hold \cup {s} /\ guarded' = guarded \cup Guards(hold')
Release(s) == hold' = hold \ {s} /\ guarded' = guarded \cap Guards(hold')

\* A hold of what is not there, or no longer, covers nothing.
Exists(s) == IF s = Customer THEN person.there ELSE Stored(s)

\* adminAddLegalHold: one row of a subject, written over; not for a registration.
AddLegalHold(s) ==
  /\ Exists(s) /\ ~Held(s)
  /\ s \in Items => item[s].kind # "registration"
  /\ Hold(s)
  /\ UNCHANGED <<item, person, tied, archived, exported, purge, request, clerk, late>>

\* adminRemoveLegalHold, or the hold expires.
RemoveLegalHold(s) ==
  /\ Exists(s) /\ Held(s) /\ Release(s)
  /\ UNCHANGED <<item, person, tied, archived, exported, purge, request, clerk, late>>

(***************************************************************************)
(* The purge                                                               *)
(***************************************************************************)
PurgeTurns(p, at, picked) == purge' = [purge EXCEPT ![p] = [at |-> at, picked |-> picked]]

PurgeBefore(p) ==
  /\ purge[p].at = "idle"
  /\ PurgeTurns(p, "registration", {})
  /\ UNCHANGED <<item, person, hold, tied, archived, exported, request, clerk, late, guarded>>

\* Mutant: the cutoff asked for holds for every class.
PastTheFloorMutant(age) == age >= 1
\* The AML floor overrides the cutoff of these classes.
PastTheFloor(age) == age = 2

\* Mutant: only a hold of the record itself counts.
SelectableMutant(i, k) ==
  Stored(i) /\ item[i].kind = k /\ PastTheFloor(item[i].age) /\ ~Held(i)
\* The SELECT of a class: old enough, not under a hold of its own or the customer's.
Selectable(i, k) ==
  Stored(i) /\ item[i].kind = k /\ PastTheFloor(item[i].age) /\ \A s \in HeldBy(i) : ~Held(s)

Batch(k) == {i \in Items : Selectable(i, k)}

PickBatch(p) ==
  /\ purge[p].at \in Kinds /\ purge[p].picked = {}
  /\ IF Batch(purge[p].at) = {} THEN PurgeTurns(p, After[purge[p].at], {})
     ELSE PurgeTurns(p, purge[p].at, Batch(purge[p].at))
  /\ UNCHANGED <<item, person, hold, tied, archived, exported, request, clerk, late, guarded>>

\* appendArchiveGuarded: a record that has a snapshot gets no second one.
Snapshot(ids) == [i \in Items |-> IF i \in ids /\ archived[i] = 0 THEN 1 ELSE archived[i]]

\* A row that is gone has no payload.
HasPayload(i) == Stored(i)

\* The snapshots and the DELETE commit together: a missing payload or a row that is
\* referred to ends the run.
ArchiveAndPurge(p) ==
  /\ purge[p].at \in Kinds /\ purge[p].picked # {}
  /\ LET ids == purge[p].picked
     IN IF (\A i \in ids : HasPayload(i)) /\ ids \cap tied = {}
        THEN /\ archived' = Snapshot(ids)
             /\ item' = [i \in Items |-> IF i \in ids THEN [item[i] EXCEPT !.there = FALSE] ELSE item[i]]
             /\ PurgeTurns(p, purge[p].at, {})
        ELSE PurgeTurns(p, "idle", {}) /\ UNCHANGED <<archived, item>>
  /\ UNCHANGED <<person, hold, tied, exported, request, clerk, late, guarded>>

\* Mutant: the sweep looks for payments only.
FootprintMutant == {i \in Items : Stored(i) /\ item[i].kind = "payment"}
\* Payments, invoices, groups and memberships; a registration does not count.
Footprint == {i \in Items : Stored(i) /\ item[i].kind # "registration"}

PickUser(p) ==
  /\ purge[p].at = "user" /\ purge[p].picked = {}
  /\ IF person.there /\ PastTheFloor(person.age) /\ Footprint = {} /\ ~Held(Customer)
     THEN PurgeTurns(p, "user", {Customer})
     ELSE PurgeTurns(p, "idle", {})
  /\ UNCHANGED <<item, person, hold, tied, archived, exported, request, clerk, late, guarded>>

\* DELETE FROM users: everything of the customer goes with him, unless a payment
\* is referred to.
Erased == /\ person' = [person EXCEPT !.there = FALSE]
          /\ item' = [i \in Items |-> [item[i] EXCEPT !.there = FALSE]]

DeleteUser(p) ==
  /\ purge[p].at = "user" /\ purge[p].picked # {}
  /\ IF \E i \in tied : Stored(i) THEN UNCHANGED <<person, item, request>>
     ELSE Erased /\ request' = "none"
  /\ PurgeTurns(p, "idle", {})
  /\ UNCHANGED <<hold, tied, archived, exported, clerk, late, guarded>>

\* A statement of the run fails, or the process dies: the batch is rolled back.
PurgeFails(p) ==
  /\ purge[p].at # "idle" /\ PurgeTurns(p, "idle", {})
  /\ UNCHANGED <<item, person, hold, tied, archived, exported, request, clerk, late, guarded>>

(***************************************************************************)
(* The erasure request                                                     *)
(***************************************************************************)
ClerkTurns(c, at, export) == clerk' = [clerk EXCEPT ![c] = [at |-> at, export |-> export]]
ClerkDone(c) == ClerkTurns(c, "idle", {})

\* CreateDataSubjectRequest: the row, then the hold of the cooling-off.
CreateDataSubjectRequest(c) ==
  /\ clerk[c].at = "idle" /\ request = "none" /\ person.there
  /\ request' = "pending"
  /\ ClerkTurns(c, "hold", {})
  /\ UNCHANGED <<item, person, hold, tied, archived, exported, purge, late, guarded>>

PlaceErasureHold(c) ==
  /\ clerk[c].at = "hold"
  /\ \/ Hold(Customer)
     \/ UNCHANGED <<hold, guarded>>  \* the request fails here
  /\ ClerkDone(c)
  /\ UNCHANGED <<item, person, tied, archived, exported, purge, request, late>>

\* CompleteDataSubjectRequest: the request is read, and the export taken.
ExportUserData(c) ==
  /\ clerk[c].at = "idle" /\ request \in {"pending", "rejected"} /\ person.there
  /\ ClerkTurns(c, "erase", {i \in Items : Stored(i)})
  /\ UNCHANGED <<item, person, hold, tied, archived, exported, purge, request, late, guarded>>

\* Mutant: the snapshot is left to the purge.
CarriedMutant(export) == {}
\* The snapshot written with the erasure.
Carried(export) == export

\* completeErasure: snapshot, request, hold and customer in one transaction.
CompleteErasure(c) ==
  /\ clerk[c].at = "erase"
  /\ IF \E i \in tied : Stored(i) THEN UNCHANGED <<item, person, hold, exported, request, guarded>>
     ELSE /\ exported' = exported \cup Carried(clerk[c].export)
          /\ Release(Customer)
          /\ Erased /\ request' = "none"  \* the row goes with the customer
  /\ ClerkDone(c)
  /\ UNCHANGED <<tied, archived, purge, late>>

\* RejectDataSubjectRequest: whatever the status is, ...
Reject(c) ==
  /\ clerk[c].at = "idle" /\ request # "none"
  /\ request' = "rejected"
  /\ ClerkTurns(c, "release", {})
  /\ UNCHANGED <<item, person, hold, tied, archived, exported, purge, late, guarded>>

\* ... then any hold of the customer is removed.
ReleaseHold(c) ==
  /\ clerk[c].at = "release"
  /\ Release(Customer)
  /\ ClerkDone(c)
  /\ UNCHANGED <<item, person, tied, archived, exported, purge, request, late>>

RetentionNext ==
  \/ \E i \in Items : MakeRecord(i) \/ TiePayment(i)
  \/ GrowOld
  \/ \E s \in Subjects : AddLegalHold(s) \/ RemoveLegalHold(s)
  \/ \E p \in Purgers : \/ PurgeBefore(p) \/ PickBatch(p) \/ ArchiveAndPurge(p)
                        \/ PickUser(p) \/ DeleteUser(p) \/ PurgeFails(p)
  \/ \E c \in Clerks : \/ CreateDataSubjectRequest(c) \/ PlaceErasureHold(c)
                       \/ ExportUserData(c) \/ CompleteErasure(c)
                       \/ Reject(c) \/ ReleaseHold(c)

RetentionSpec == RetentionInit /\ [][RetentionNext]_retentionVars

(***************************************************************************)
(* Properties                                                              *)
(***************************************************************************)
\* A financial record goes only when the floor has passed and with a snapshot, or
\* in the snapshot of its erased customer; the exceptions are a registration, which
\* the sweep of customers overlooks, and a record made after the customer was picked
\* (PurgeBefore, completeErasure).
GoneIsArchived ==
  \A i \in Items :
    Gone(i) => \/ archived[i] > 0 /\ item[i].age = 2
               \/ i \in exported \cup late
               \/ item[i].kind = "registration"

\* A record whose hold was there before a run picked it, and stayed, is still
\* there, unless its customer was erased (archiveAndPurgePayments).
HeldIsKept == \A i \in guarded : Stored(i) \/ i \in exported \cup late

RetentionSafe == GoneIsArchived /\ HeldIsKept

\* Not checked: the records the exceptions of GoneIsArchived name.
NothingIsLost == \A i \in Items : Gone(i) => archived[i] > 0 \/ i \in exported

\* Not checked: the erasure asks for no hold, although the request "places a 30-day
\* cooling-off" so that "the erasure step cannot run during the response window".
ErasureWaits == [][\A c \in Clerks : CompleteErasure(c) /\ person # person' => ~Held(Customer)]_retentionVars
=============================================================================
