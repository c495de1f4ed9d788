------------------------------ MODULE LedgerChain ------------------------------
(***************************************************************************)
(* The double-entry journal of store_ledger.go: an append-only table whose *)
(* rows are chained by hash.  A posting writes a debit and a credit in the *)
(* transaction of its domain change, a reversal writes an opposite entry   *)
(* for every entry of a journal.  Every append reads the last row FOR      *)
(* UPDATE and inserts behind it.                                           *)
(*                                                                         *)
(* Transactions run at READ COMMITTED: each statement sees what was        *)
(* committed when it started and the transaction's own rows.  A row that   *)
(* was only locked, never updated, comes back from the wait as it was      *)
(* read, so a session that waited for the tail still holds the old tail.   *)
(* Ids come from a sequence: taken at the insert, never given back.        *)
(*                                                                         *)
(* An entry's prev is the id of the row its prev_hash was copied from, 0   *)
(* for the empty string.  Stored hashes are unique, so two rows have one   *)
(* hash exactly when they agree on prev and on the rest of the entry.      *)
(***************************************************************************)
EXTENDS Integers, Sequences, FiniteSets, TLC

CONSTANTS Journals,  \* journal references
          Pairs,     \* debit/credit pairs a journal gets, each in a transaction
          Notes,     \* reason and reviewer of a reversal
          Sessions,  \* database sessions of all replicas
          MaxAborts  \* bound: transactions rolled back in a behaviour

\* Journals, notes and sessions are never told apart.
Interchangeable == Permutations(Journals) \cup Permutations(Notes) \cup Permutations(Sessions)

ASSUME LedgerAssumption == Pairs \in Nat \ {0} /\ MaxAborts \in Nat

VARIABLES book,     \* the rows by id, those of rolled back transactions included
          kept,     \* ids of the committed rows
          session,  \* [Sessions -> SessionStates]
          aborts    \* transactions rolled back so far

vars == <<book, kept, session, aborts>>

Sides    == {"debit", "credit"}
NoNote   == "posting"
Opposite == [debit |-> "credit", credit |-> "debit"]

Ids == 1 .. Len(book)

\* What a caller asks to append; a row is this and its prev.
Entries == [journal : Journals, pair : 1 .. Pairs, side : Sides, of : Nat,
            note : Notes \cup {NoNote}]

Stored(e, prev) == [entry |-> e, prev |-> prev]
Rows == [entry : Entries, prev : Nat]

Idle == [pc |-> "idle", todo |-> <<>>, tail |-> 0, mine |-> {}, locks |-> {}, shares |-> {}]

SessionStates == [pc     : {"idle", "pick", "lock", "insert", "refer"},
                  todo   : Seq(Entries),  \* entries still to append
                  tail   : Nat,           \* the tail row last read
                  mine   : SUBSET Nat,    \* rows inserted
                  locks  : SUBSET Nat,    \* rows locked FOR UPDATE
                  shares : SUBSET Nat]    \* rows locked by a foreign key check

Init ==
  /\ book = <<>>
  /\ kept = {}
  /\ session = [s \in Sessions |-> Idle]
  /\ aborts = 0

-----------------------------------------------------------------------------
(* Beginning a posting or a reversal.                                      *)

Posting(j, k, side) == [journal |-> j, pair |-> k, side |-> side, of |-> 0, note |-> NoNote]

PairPosted(j, k) == \E i \in kept : book[i].entry = Posting(j, k, "debit")

\* A transaction under way has the posting among what it wrote or will write.
BeingPosted(j, k) ==
  \E s \in Sessions :
    \/ \E n \in DOMAIN session[s].todo : session[s].todo[n] = Posting(j, k, "debit")
    \/ \E i \in session[s].mine : book[i].entry = Posting(j, k, "debit")

Begin(s, todo) ==
  session' = [session EXCEPT ![s] = [Idle EXCEPT !.pc = "pick", !.todo = todo]]

\* Mutant: a failed insert of the credit goes unnoticed.
BothSidesMutant(j, k) == <<Posting(j, k, "debit")>>

\* The two entries of a posting.
BothSides(j, k) == <<Posting(j, k, "debit"), Posting(j, k, "credit")>>

\* postLedgerPair.  Its callers post a pair once, from the row lock of their
\* domain record, and the pairs of one journal in order.
PostPair(s, j, k) ==
  /\ session[s] = Idle
  /\ ~PairPosted(j, k) /\ ~BeingPosted(j, k)
  /\ k > 1 => PairPosted(j, k - 1)
  /\ Begin(s, BothSides(j, k))
  /\ UNCHANGED <<book, kept, aborts>>

EntriesOf(j) == {i \in kept : book[i].entry.journal = j}

\* Mutant: the journal's earlier reversals are not looked for.
ReversibleMutant(j) == EntriesOf(j) # {}

\* A known journal without a reversal entry.
Reversible(j) == EntriesOf(j) # {} /\ \A i \in EntriesOf(j) : book[i].entry.of = 0

Reversal(i, note) ==
  [book[i].entry EXCEPT !.side = Opposite[@], !.of = i, !.note = note]

\* Some rows in order of their ids.
InOrder(ids) == {row \in [1 .. Cardinality(ids) -> ids] :
                   \A m, n \in DOMAIN row : m < n => row[m] < row[n]}

\* PostLedgerReversal reads the journal without a lock; a journal that is
\* unknown or already reversed ends it with an error.
ReverseJournal(s, j, note) ==
  /\ session[s] = Idle
  /\ Reversible(j)
  /\ \E row \in InOrder(EntriesOf(j)) : Begin(s, [n \in DOMAIN row |-> Reversal(row[n], note)])
  /\ UNCHANGED <<book, kept, aborts>>

-----------------------------------------------------------------------------
(* Appending one entry.                                                    *)

\* The greatest of the ids, 0 when there is none.
MaxOf(ids) == IF \E m \in ids : \A i \in ids : i <= m
              THEN CHOOSE m \in ids : \A i \in ids : i <= m
              ELSE 0

\* Mutant: the tail is remembered by the process instead of read.
LastVisibleMutant(s) == Len(book)

\* The last row that s can see.
LastVisible(s) == MaxOf(kept \cup session[s].mine)

\* The SELECT of the tail takes its snapshot.
PickTail(s) ==
  /\ session[s].pc = "pick" /\ session[s].todo # <<>>
  /\ session' = [session EXCEPT ![s].pc = "lock", ![s].tail = LastVisible(s)]
  /\ UNCHANGED <<book, kept, aborts>>

Others(s) == Sessions \ {s}

\* It locks the row it found, after the holders of the row are done; an empty
\* book has no row to lock.
LockTail(s) ==
  /\ session[s].pc = "lock"
  /\ \A o \in Others(s) : session[s].tail \notin session[o].locks \cup session[o].shares
  /\ session' = [session EXCEPT ![s].pc = "insert", ![s].locks = @ \cup ({session[s].tail} \ {0})]
  /\ UNCHANGED <<book, kept, aborts>>

\* The row s is about to insert.
NextRow(s) == Stored(Head(session[s].todo), session[s].tail)

SameHash(s, ids) == \E i \in ids : book[i] = NextRow(s)

Uncommitted == UNION {session[o].mine : o \in Sessions}

\* The INSERT; it waits while a row with the same hash is uncommitted.
Insert(s) ==
  /\ session[s].pc = "insert"
  /\ ~SameHash(s, kept \cup Uncommitted)
  /\ book' = Append(book, NextRow(s))
  /\ session' = [session EXCEPT
       ![s].pc   = IF Head(session[s].todo).of = 0 THEN "pick" ELSE "refer",
       ![s].todo = Tail(@),
       ![s].mine = @ \cup {Len(book) + 1}]
  /\ UNCHANGED <<kept, aborts>>

\* The foreign key of reversal_of locks the row it names against FOR UPDATE.
Refer(s) ==
  /\ session[s].pc = "refer"
  /\ LET named == book[MaxOf(session[s].mine)].entry.of
     IN  /\ \A o \in Others(s) : named \notin session[o].locks
         /\ session' = [session EXCEPT ![s].pc = "pick", ![s].shares = @ \cup {named}]
  /\ UNCHANGED <<book, kept, aborts>>

-----------------------------------------------------------------------------
(* Ending the transaction.                                                 *)

Commit(s) ==
  /\ session[s].pc = "pick" /\ session[s].todo = <<>>
  /\ kept' = kept \cup session[s].mine
  /\ session' = [session EXCEPT ![s] = Idle]
  /\ UNCHANGED <<book, aborts>>

\* The hash is taken: the insert fails and the transaction with it.
HashTaken(s) ==
  /\ session[s].pc = "insert"
  /\ SameHash(s, kept)
  /\ session' = [session EXCEPT ![s] = Idle]
  /\ UNCHANGED <<book, kept, aborts>>

\* Anything else fails: a later statement of the domain change, the
\* connection, a deadlock among the row locks.
Abort(s) ==
  /\ session[s] # Idle
  /\ aborts < MaxAborts
  /\ session' = [session EXCEPT ![s] = Idle]
  /\ aborts' = aborts + 1
  /\ UNCHANGED <<book, kept>>

Next ==
  \E s \in Sessions :
    \/ \E j \in Journals, k \in 1 .. Pairs : PostPair(s, j, k)
    \/ \E j \in Journals, note \in Notes : ReverseJournal(s, j, note)
    \/ PickTail(s)
    \/ LockTail(s)
    \/ Insert(s)
    \/ Refer(s)
    \/ Commit(s)
    \/ HashTaken(s)
    \/ Abort(s)

Spec == Init /\ [][Next]_vars

-----------------------------------------------------------------------------
(* Properties.                                                             *)

TypeOK ==
  /\ book \in Seq(Rows)
  /\ kept \in SUBSET Ids
  /\ session \in [Sessions -> SessionStates]
  /\ aborts \in 0 .. MaxAborts

\* Every committed entry was chained to the beginning of the book or to an
\* earlier entry that was committed too, whatever was rolled back meanwhile:
\* the committed journal never hangs on a row that is not there.
Rooted == \A i \in kept : book[i].prev \in (kept \cup {0}) /\ book[i].prev < i

\* What VerifyLedgerChain looks for: in the order of the ids, every entry holds
\* the hash of the entry before it.
ChainSound == \A i \in kept : book[i].prev = MaxOf({h \in kept : h < i})

OnSide(side) == {i \in kept : book[i].entry.side = side}

\* "The book provably sums to zero" (migration 030): a pair's committed debits
\* and credits, its reversals included, cancel out at every moment.
BookSumsToZero ==
  \A j \in Journals, k \in 1 .. Pairs :
    LET pair == {i \in EntriesOf(j) : book[i].entry.pair = k}
    IN  Cardinality(pair \cap OnSide("debit")) = Cardinality(pair \cap OnSide("credit"))

\* No committed entry is offset twice: a journal that is already reversed is
\* not reversed again.
ReversedOnce ==
  \A h, i \in kept : h # i /\ book[h].entry.of # 0 => book[h].entry.of # book[i].entry.of

\* A reversal leaves nothing of its journal behind: once an entry of a journal
\* is offset, so is every entry of it.
ReversedWhole ==
  \A j \in Journals : LET offset == {book[i].entry.of : i \in EntriesOf(j)}
                      IN  offset = {0} \/ \A i \in EntriesOf(j) : book[i].entry.of = 0 => i \in offset

=============================================================================
