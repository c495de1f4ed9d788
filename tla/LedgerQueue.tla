------------------------------ MODULE LedgerQueue ------------------------------
(***************************************************************************)
(* What a transaction that posts to the journal waits for: the last row it *)
(* read, FOR UPDATE.  LedgerChain has the rows themselves; here only the   *)
(* order in which posting transactions get through is kept, because it     *)
(* decides which of them overlap.  A transaction that waited comes back    *)
(* with the row it read, so one that starts later, behind a newer row,     *)
(* does not wait for it.                                                   *)
(***************************************************************************)
EXTENDS Integers, FiniteSets

CONSTANT Appenders  \* transactions that may post at the same time

VARIABLES tail,    \* the last committed row
          append   \* [Appenders -> the tail read and the row inserted, 0 for none]

NoAppend == [tail |-> -1, row |-> 0]

LedgerInit ==
  /\ tail = 0
  /\ append = [a \in Appenders |-> NoAppend]

\* The row a transaction inserts comes after every row inserted so far.
NewRow ==
  LET rows == {tail} \cup {append[a].row : a \in Appenders}
  IN  1 + CHOOSE n \in rows : \A m \in rows : m <= n

\* SELECT hash ... FOR UPDATE is sent; whether it waits is seen in Insert.
ReadTail(a) == append' = [append EXCEPT ![a].tail = tail]

\* Nobody else holds the row the transaction read.
Granted(a) == \A b \in Appenders \ {a} : append[b].row # 0 => append[b].tail # append[a].tail

Insert(a) ==
  /\ Granted(a)
  /\ append' = [append EXCEPT ![a].row = NewRow]

\* Commit publishes the row and releases the lock; a rollback only releases.
Publish(a) ==
  /\ tail' = IF append[a].row > tail THEN append[a].row ELSE tail
  /\ append' = [append EXCEPT ![a] = NoAppend]

Withdraw(a) == append' = [append EXCEPT ![a] = NoAppend]

\* A posting that reads, inserts and commits without being overtaken.
PostAtOnce ==
  /\ \A b \in Appenders : append[b].row # 0 => append[b].tail # tail
  /\ tail' = NewRow
  /\ UNCHANGED append
=============================================================================
