------------------------------ MODULE AuditChain ------------------------------
(***************************************************************************)
(* The audit log: a chain of entries that privileged requests append to,   *)
(* that the retention worker archives and purges from the old end, and     *)
(* that a sweep verifies and raises an alert about                         *)
(* (internal/store/store_admin.go, store_audit_chain.go,                   *)
(* store_retention.go; internal/app/audit_chain.go; migrations 023, 084).  *)
(*                                                                         *)
(* A transaction is as many steps as there are waits in it: an append      *)
(* reads the tail, gets its row lock, and inserts; a purge takes the table *)
(* lock that keeps inserts out, and ends.  A sweep reads the log batch by  *)
(* batch and records its verdict in a transaction of its own.              *)
(***************************************************************************)
EXTENDS Naturals, Sequences, FiniteSets

CONSTANTS Authors,    \* requests that append an entry
          Sweepers,   \* replicas whose sweep runs
          MaxEntries, \* bound: entries ever appended
          MaxSweeps   \* bound: sweeps ever begun

ASSUME AuditAssumption == MaxEntries \in Nat /\ MaxSweeps \in Nat

VARIABLES trail,    \* audit_logs: [the live ids -> prev_hash and hash]
          drawn,    \* ids drawn from the sequence
          aged,     \* entries up to this one are older than the cutoff
          author,   \* [Authors -> the append in progress]
          purging,  \* entries the purge has picked under the table lock, or NotPurging
          snapshot, \* archive_ledger: [purged ids -> the entry as it was]
          sweeper,  \* [Sweepers -> the sweep in progress]
          checks,   \* audit_chain_checks, as a set
          alarm,    \* audit_chain_alerts, in the order of opened_at
          strained  \* what happened that can break the chain or confuse the sweeps

auditVars == <<trail, drawn, aged, author, purging, snapshot, sweeper, checks, alarm, strained>>

\* A hash binds the entry to its predecessor's hash: no two lists have the same.
auditHash(prev, id) == Append(prev, id)
Entry(prev, id) == [prev |-> prev, hash |-> auditHash(prev, id)]

Logged == DOMAIN trail
Newest(ids) == CHOOSE i \in ids : \A j \in ids : j <= i
Oldest(ids) == CHOOSE i \in ids : \A j \in ids : i <= j
Adding(f, x, y) == [z \in DOMAIN f \cup {x} |-> IF z = x THEN y ELSE f[z]]
Only(f, s) == [z \in DOMAIN f \cap s |-> f[z]]

Away == [pc |-> "away", target |-> 0, prev |-> <<>>]
NotPurging == [on |-> FALSE, picked |-> {}]
Asleep == [pc |-> "asleep", cursor |-> 0, expected |-> <<>>, sound |-> TRUE, began |-> 0]

AuditInit ==
  /\ trail = <<>> /\ drawn = 0 /\ aged = 0
  /\ author = [a \in Authors |-> Away]
  /\ purging = NotPurging /\ snapshot = <<>>
  /\ sweeper = [s \in Sweepers |-> Asleep]
  /\ checks = {} /\ alarm = <<>> /\ strained = {}

-----------------------------------------------------------------------------
(* Appending.                                                              *)

Locked(i) == \E a \in Authors : author[a].pc = "insert" /\ author[a].target = i

\* The tail as the statement's snapshot shows it, 0 for an empty log.
ReadTail(a) ==
  /\ author[a].pc = "away" /\ drawn + Cardinality({b \in Authors : author[b].pc # "away"}) < MaxEntries
  /\ author' = [author EXCEPT ![a] = [pc |-> "lock", prev |-> <<>>,
                                      target |-> IF Logged = {} THEN 0 ELSE Newest(Logged)]]
  /\ strained' = strained \cup
       (IF \E b \in Authors : author[b].pc # "away" THEN {"appends overlap"} ELSE {})
  /\ UNCHANGED <<trail, drawn, aged, purging, snapshot, sweeper, checks, alarm>>

\* FOR UPDATE: the row as it is once nobody holds it, or no row when it was purged.
LockTail(a) ==
  LET i == author[a].target
  IN  /\ author[a].pc = "lock" /\ ~(i # 0 /\ Locked(i))
      /\ author' = [author EXCEPT ![a].pc = "insert",
                                  ![a].prev = IF i \in Logged THEN trail[i].hash ELSE <<>>]
      /\ UNCHANGED <<trail, drawn, aged, purging, snapshot, sweeper, checks, alarm, strained>>

\* The insert, and the commit that releases the row.
AppendAuditLog(a) ==
  /\ author[a].pc = "insert" /\ ~purging.on
  /\ drawn' = drawn + 1
  /\ trail' = Adding(trail, drawn', Entry(author[a].prev, drawn'))
  /\ author' = [author EXCEPT ![a] = Away]
  /\ UNCHANGED <<aged, purging, snapshot, sweeper, checks, alarm, strained>>

\* The error is logged and the action goes on without its entry.
AuditFails(a) ==
  /\ author[a].pc # "away"
  /\ author' = [author EXCEPT ![a] = Away]
  /\ UNCHANGED <<trail, drawn, aged, purging, snapshot, sweeper, checks, alarm, strained>>

audit(a) == ReadTail(a) \/ LockTail(a) \/ AppendAuditLog(a) \/ AuditFails(a)

-----------------------------------------------------------------------------
(* Purging.                                                                *)

\* The cutoff passes an entry.
GrowOlder ==
  /\ aged < drawn /\ aged' = aged + 1
  /\ UNCHANGED <<trail, drawn, author, purging, snapshot, sweeper, checks, alarm, strained>>

\* DISABLE TRIGGER takes the table lock, and the old entries are picked.
PickOld ==
  /\ ~purging.on /\ \E i \in Logged : i <= aged
  /\ purging' = [on |-> TRUE, picked |-> {i \in Logged : i <= aged}]
  /\ UNCHANGED <<trail, drawn, aged, author, snapshot, sweeper, checks, alarm, strained>>

\* Mutant: the head keeps its predecessor.
RerootMutant(log) == log

\* The first entry left points at an empty predecessor.
rerootAuditChain(log) ==
  IF DOMAIN log = {} THEN log
  ELSE LET head == Oldest(DOMAIN log) IN [log EXCEPT ![head] = Entry(<<>>, head)]

\* Archive, delete, re-root, commit; rows an append holds are waited for.
archiveAndPurgeAudit ==
  LET left == Only(trail, Logged \ purging.picked)
      head == IF DOMAIN left = {} THEN {} ELSE {Oldest(DOMAIN left)}
      busy == {s \in Sweepers : sweeper[s].pc = "read"}
  IN  /\ purging.on /\ \A i \in purging.picked \cup head : ~Locked(i)
      /\ snapshot' = [i \in DOMAIN snapshot \cup purging.picked |->
                        IF i \in purging.picked THEN trail[i] ELSE snapshot[i]]
      /\ trail' = rerootAuditChain(left)
      /\ purging' = NotPurging
      /\ strained' = strained \cup (IF Cardinality(DOMAIN left) > 1 THEN {"rerooted"} ELSE {})
                              \cup (IF busy # {} THEN {"purge under a sweep"} ELSE {})
      /\ UNCHANGED <<drawn, aged, author, sweeper, checks, alarm>>

\* A statement fails, a deadlock with an append is broken, or the worker dies.
AuditPurgeFails ==
  /\ purging.on /\ purging' = NotPurging
  /\ UNCHANGED <<trail, drawn, aged, author, snapshot, sweeper, checks, alarm, strained>>

-----------------------------------------------------------------------------
(* Verifying.                                                              *)

Begun == Cardinality(checks) + Cardinality({s \in Sweepers : sweeper[s].pc # "asleep"})

\* The tick; sweeps are ordered by the time it passes on.
RunAuditChainVerification(s) ==
  /\ sweeper[s] = Asleep /\ Begun < MaxSweeps
  /\ sweeper' = [sweeper EXCEPT ![s] = [Asleep EXCEPT !.pc = "read", !.began = Begun + 1]]
  /\ strained' = strained \cup
       (IF \E r \in Sweepers : sweeper[r].pc # "asleep" THEN {"sweeps overlap"} ELSE {})
  /\ UNCHANGED <<trail, drawn, aged, author, purging, snapshot, checks, alarm>>

\* The next batch, of one entry: recomputed, and compared with the one before.
VerifyAuditChain(s) ==
  LET ahead == {i \in Logged : i > sweeper[s].cursor}
      next == Oldest(ahead)
      holds == trail[next] = Entry(sweeper[s].expected, next)
  IN  /\ sweeper[s].pc = "read"
      /\ sweeper' =
           IF ahead = {} THEN [sweeper EXCEPT ![s].pc = "record"]
           ELSE IF holds THEN [sweeper EXCEPT ![s].cursor = next, ![s].expected = trail[next].hash]
           ELSE [sweeper EXCEPT ![s].pc = "record", ![s].sound = FALSE]
      /\ UNCHANGED <<trail, drawn, aged, author, purging, snapshot, checks, alarm, strained>>

\* The verdict of the sweep that began last, of those recorded.
LatestSound == checks = {} \/ \E c \in checks : c.sound /\ \A d \in checks : d.began <= c.began

Open(k) == alarm[k].status = "open"
Recover(alert) ==
  IF alert.status = "open" THEN [status |-> "recovered", recovered |-> TRUE]
  ELSE IF alert.status = "acknowledged_bug" THEN [alert EXCEPT !.recovered = TRUE]
  ELSE alert

\* Mutant: every broken sweep opens an alert.
RaisesMutant == \A k \in DOMAIN alarm : ~Open(k)

\* The sweep before was sound, and no alert is open (the unique index).
Raises == LatestSound /\ \A k \in DOMAIN alarm : ~Open(k)

VerifyAuditChainScheduled(s) ==
  /\ sweeper[s].pc = "record"
  /\ alarm' = IF sweeper[s].sound THEN [k \in DOMAIN alarm |-> Recover(alarm[k])]
              ELSE IF Raises THEN Append(alarm, [status |-> "open", recovered |-> FALSE])
              ELSE alarm
  /\ checks' = checks \cup {[began |-> sweeper[s].began, sound |-> sweeper[s].sound]}
  /\ sweeper' = [sweeper EXCEPT ![s] = Asleep]
  /\ UNCHANGED <<trail, drawn, aged, author, purging, snapshot, strained>>

DisposeAuditChainAlert(k, status) == Open(k) /\ alarm' = [alarm EXCEPT ![k].status = status]

\* The reviewer's word on the open alert; his own entry is an append like any other.
adminAuditChainDispose(k) ==
  /\ \E status \in {"acknowledged_bug", "confirmed_tampering"} : DisposeAuditChainAlert(k, status)
  /\ UNCHANGED <<trail, drawn, aged, author, purging, snapshot, sweeper, checks, strained>>

AuditNext ==
  \/ \E a \in Authors : audit(a)
  \/ GrowOlder \/ PickOld \/ archiveAndPurgeAudit \/ AuditPurgeFails
  \/ \E s \in Sweepers :
       RunAuditChainVerification(s) \/ VerifyAuditChain(s) \/ VerifyAuditChainScheduled(s)
  \/ \E k \in DOMAIN alarm : adminAuditChainDispose(k)

AuditSpec == AuditInit /\ [][AuditNext]_auditVars

-----------------------------------------------------------------------------
(* Properties.                                                             *)

\* No entry is lost: it is in the log or in the archive, never in both, and
\* the archive has it with the hash that binds what was before it.
NoEntryIsLost ==
  /\ Logged \cap DOMAIN snapshot = {} /\ Logged \cup DOMAIN snapshot = 1 .. drawn
  /\ \A i \in DOMAIN snapshot : snapshot[i] = Entry(snapshot[i].prev, i)

\* A sweep finds a break only after two appends overlapped, a head with entries
\* after it was re-rooted, or a purge passed a sweep: neither an append that
\* overtakes the sweep nor one that a purge overtakes breaks the chain.
BreaksHaveCauses ==
  (\E c \in checks : ~c.sound) =>
    strained \cap {"appends overlap", "rerooted", "purge under a sweep"} # {}

\* "a transition rule": one alert for every sound sweep that a broken one follows,
\* whatever the reviewer did in between; while the last sweep is sound every alert
\* has recovered but those of confirmed tampering, and while it is broken its
\* alert has not.  Sweeps that overlap are recorded in another order than they
\* are compared in.
AlertsFollowChecks ==
  LET soundAt(n) == \A c \in checks : c.began = n => c.sound
      breaks == {c \in checks : ~c.sound /\ soundAt(c.began - 1)}
      last == alarm[Len(alarm)]
  IN  "sweeps overlap" \notin strained =>
        /\ Len(alarm) = Cardinality(breaks)
        /\ LatestSound =>
             \A k \in DOMAIN alarm : alarm[k].recovered <=> alarm[k].status # "confirmed_tampering"
        /\ ~LatestSound => ~last.recovered

\* At most one alert is open (audit_chain_alerts_open_one).
OneAlertOpen == \A j, k \in DOMAIN alarm : Open(j) /\ Open(k) => j = k

AuditTrailSafe == NoEntryIsLost /\ BreaksHaveCauses /\ AlertsFollowChecks /\ OneAlertOpen

-----------------------------------------------------------------------------
(* What the comments say and the code does not do.                         *)

\* "the hash chain cannot fork under concurrency".
CannotFork == \A i, j \in Logged : trail[i].prev = trail[j].prev => i = j

\* "so the retained chain still verifies".
RetainedVerifies == (\E c \in checks : ~c.sound) => "appends overlap" \in strained

\* The alert of a break is not closed while the break is there.
AlertStays == ~LatestSound => \E k \in DOMAIN alarm : ~alarm[k].recovered
=============================================================================
