------------------------------ MODULE OfficeProof ------------------------------
(***************************************************************************)
(* Proofs about the parts of MCOffice, for any number of requests, rows    *)
(* and identities.  Each part has an inductive invariant of its own, and a *)
(* behaviour of MCOffice is a behaviour of one of them.                    *)
(***************************************************************************)
EXTENDS MCOffice, FiniteSetTheorems, TLAPS

\* The time a leaf may take on a slow machine.
USE SMTT(40), ZenonT(20)

-----------------------------------------------------------------------------
(* The Partner API.  A reference is on one row at most (OneHolder), as it  *)
(* is put on a row only while nobody holds it; and a draft waits for the   *)
(* one request that made it (Drafting), so that no other row gets in       *)
(* between.                                                                *)

PartnerRows == [o : Orders, stamped : BOOLEAN]
Stamped(i) == record[i] # NoRecord /\ record[i].stamped

PartnerTypes ==
  /\ record \in [Records -> PartnerRows \cup {NoRecord}]
  /\ replies \in [Orders -> SUBSET Records]
  /\ call = [r \in Calls |-> call[r]]
  /\ \A r \in Calls : call[r].at # "idle" => call[r].o \in Orders

OneHolder ==
  \A i, j \in Records :
    Stamped(i) /\ Stamped(j) /\ SameReference(record[i].o, record[j].o) => i = j

\* The row a request drafted is its own and without a reference.
Drafting ==
  /\ \A r \in Calls : call[r].at = "stamp" =>
       /\ call[r].i \in Records
       /\ record[call[r].i] = [o |-> call[r].o, stamped |-> FALSE]
       /\ call[r].o.kind = "payment"
  /\ \A r, q \in Calls :
       call[r].at = "stamp" /\ call[q].at = "stamp" /\ call[r].i = call[q].i => r = q

RepliesAreHolders ==
  \A o \in Orders : \A i \in replies[o] :
    Stamped(i) /\ SameReference(record[i].o, o) /\ record[i].o.payee = o.payee

PartnerInv == PartnerTypes /\ OneHolder /\ Drafting /\ RepliesAreHolders

LEMMA PartnerInvIsSafe ==
  ASSUME PartnerInv PROVE RepliesAgree
<1>1. \A o \in Orders : \A i \in replies[o] : record[i].stamped /\ record[i].o.payee = o.payee
  BY DEF PartnerInv, RepliesAreHolders, Stamped
<1>2. ASSUME NEW o \in Orders PROVE Cardinality(replies[o]) <= 1
  <2>1. \A i, j \in replies[o] : i = j
    <3> SUFFICES ASSUME NEW i \in replies[o], NEW j \in replies[o] PROVE i = j
      OBVIOUS
    <3>1. i \in Records /\ j \in Records
      BY DEF PartnerInv, PartnerTypes
    <3>2. /\ Stamped(i) /\ SameReference(record[i].o, o) /\ record[i].o.payee = o.payee
          /\ Stamped(j) /\ SameReference(record[j].o, o) /\ record[j].o.payee = o.payee
      BY DEF PartnerInv, RepliesAreHolders
    <3>3. SameReference(record[i].o, record[j].o)
      BY <3>2 DEF SameReference
    <3> QED BY <3>1, <3>2, <3>3 DEF PartnerInv, OneHolder
  <2>2. replies[o] = {} \/ \E i : replies[o] = {i}
    BY <2>1
  <2>3. CASE replies[o] = {}
    <3>1. Cardinality(replies[o]) = 0
      BY <2>3, FS_EmptySet, Zenon
    <3> QED BY <3>1
  <2>4. CASE \E i : replies[o] = {i}
    <3>1. PICK i : replies[o] = {i}
      BY <2>4
    <3>2. Cardinality({i}) = 1
      BY FS_Singleton, Zenon
    <3>3. Cardinality(replies[o]) = 1
      BY <3>1, <3>2, Zenon
    <3> QED BY <3>3
  <2> QED BY <2>2, <2>3, <2>4
<1> QED BY <1>1, <1>2 DEF RepliesAgree

\* A request that leaves the rows alone, drafts nothing and answers with rows
\* that hold its reference.
LEMMA PartnerTurn ==
  ASSUME PartnerInv, NEW r \in Calls, UNCHANGED record,
         call' = [q \in Calls |-> call'[q]],
         \A q \in Calls \ {r} : call'[q] = call[q],
         call'[r].at # "idle" => call'[r].o \in Orders,
         call'[r].at # "stamp",
         replies' \in [Orders -> SUBSET Records],
         \A o \in Orders : \A i \in replies'[o] \ replies[o] :
           Stamped(i) /\ SameReference(record[i].o, o) /\ record[i].o.payee = o.payee
  PROVE  PartnerInv'
<1>1. PartnerTypes'
  BY DEF PartnerInv, PartnerTypes, PartnerRows
<1>2. OneHolder' /\ Drafting'
  BY DEF PartnerInv, OneHolder, Drafting, Stamped
<1>3. RepliesAreHolders'
  BY DEF PartnerInv, PartnerTypes, RepliesAreHolders, Stamped
<1> QED BY <1>1, <1>2, <1>3 DEF PartnerInv

LEMMA PartnerTurns ==
  ASSUME PartnerInv, NEW r \in Calls, NEW rec, Turns(r, rec)
  PROVE  /\ call' = [q \in Calls |-> call'[q]]
         /\ \A q \in Calls \ {r} : call'[q] = call[q]
         /\ call'[r] = rec
BY DEF PartnerInv, PartnerTypes, Turns

\* A request that makes a row with its reference on it and answers with it.
LEMMA PartnerInsert ==
  ASSUME OrdersAssumption, PartnerInv, NEW r \in Calls, call[r].at = "create",
         ~ReferenceTaken(call[r].o),
         NEW i \in Records, NewRecord(i, call[r].o, TRUE), Replies(r, i)
  PROVE  PartnerInv'
<1> DEFINE o == call[r].o
           made == [o |-> o, stamped |-> TRUE]
<1>1. o \in Orders
  BY DEF PartnerInv, PartnerTypes
<1>2. /\ record[i] = NoRecord
      /\ \A j \in Records : record'[j] = IF j = i THEN made ELSE record[j]
      /\ record' \in [Records -> PartnerRows \cup {NoRecord}]
  BY <1>1 DEF NewRecord, PartnerInv, PartnerTypes, PartnerRows
<1>3. made # NoRecord
  <2>1. made \in [o : Orders, stamped : BOOLEAN]
    BY <1>1
  <2> QED BY <2>1 DEF OrdersAssumption
<1>4. /\ call' = [q \in Calls |-> call'[q]]
      /\ \A q \in Calls : call'[q] = IF q = r THEN NoCall ELSE call[q]
  BY DEF Replies, Ends, Turns, PartnerInv, PartnerTypes
<1>5. /\ replies' \in [Orders -> SUBSET Records]
      /\ \A p \in Orders : replies'[p] = IF p = o THEN replies[p] \cup {i} ELSE replies[p]
  BY <1>1 DEF Replies, PartnerInv, PartnerTypes
<1>6. \A j \in Records \ {i} : Stamped(j)' <=> Stamped(j)
  BY <1>2 DEF Stamped
<1>7. PartnerTypes'
  BY <1>2, <1>4, <1>5 DEF PartnerInv, PartnerTypes, NoCall
<1>8. OneHolder'
  <2>1. \A j \in Records : Stamped(j) => ~SameReference(record[j].o, o)
    BY DEF ReferenceTaken, Holders, Stamped
  <2>2. \A j \in Records : Stamped(j) => ~SameReference(o, record[j].o)
    BY <2>1 DEF SameReference
  <2> QED BY <1>2, <1>6, <2>1, <2>2 DEF PartnerInv, OneHolder
<1>9. Drafting'
  <2>1. ASSUME NEW q \in Calls, call[q].at = "stamp" PROVE call[q].i # i
    <3>1. [o |-> call[q].o, stamped |-> FALSE] \in [o : Orders, stamped : BOOLEAN]
      BY <2>1 DEF PartnerInv, PartnerTypes
    <3>2. record[call[q].i] # NoRecord
      BY <2>1, <3>1 DEF OrdersAssumption, PartnerInv, Drafting
    <3> QED BY <1>2, <3>2
  <2> QED BY <1>2, <1>4, <2>1 DEF PartnerInv, Drafting, NoCall
<1>10. RepliesAreHolders'
  <2>1. Stamped(i)' /\ ~Stamped(i)
    BY <1>2, <1>3 DEF Stamped
  <2>2. SameReference(o, o)
    BY DEF SameReference
  <2> QED BY <1>2, <1>5, <1>6, <2>1, <2>2 DEF PartnerInv, PartnerTypes, RepliesAreHolders
<1> QED BY <1>7, <1>8, <1>9, <1>10 DEF PartnerInv

\* The reference is put on a row.
LEMMA Referenced ==
  ASSUME NEW f \in PartnerRows, NEW b \in BOOLEAN
  PROVE  [f EXCEPT !.stamped = b] = [o |-> f.o, stamped |-> b]
BY DEF PartnerRows

LEMMA PartnerStep ==
  ASSUME OrdersAssumption, PartnerInv, [PartnerNext]_partnerVars
  PROVE  PartnerInv'
<1>1. ASSUME UNCHANGED <<record, call, replies>> PROVE PartnerInv'
  BY <1>1 DEF PartnerInv, PartnerTypes, OneHolder, Drafting, RepliesAreHolders, Stamped
<1> SUFFICES ASSUME NEW r \in Calls, \/ \E o \in Orders : RequireAPIKey(r, o)
                                    \/ Lookup(r) \/ CreateCollectionDraft(r) \/ SetPaymentInitiationMeta(r)
                                    \/ ApiCreateInvoice(r) \/ CreateCheckout(r) \/ CutOff(r)
             PROVE  PartnerInv'
  BY <1>1 DEF PartnerNext, partnerVars, RevokeMerchantAPIKey, CreateMerchantAPIKey, SwitchTrading
<1>2. ASSUME NEW o \in Orders, RequireAPIKey(r, o) PROVE PartnerInv'
  <2>1. Turns(r, [at |-> "lookup", o |-> o]) /\ UNCHANGED <<record, replies>>
    BY <1>2 DEF RequireAPIKey
  <2>2. /\ call' = [q \in Calls |-> call'[q]]
        /\ \A q \in Calls \ {r} : call'[q] = call[q]
        /\ call'[r] = [at |-> "lookup", o |-> o]
    BY <2>1, PartnerTurns
  <2>3. call'[r].at = "lookup" /\ call'[r].o \in Orders
    BY <2>2
  <2>4. replies' \in [Orders -> SUBSET Records] /\ \A p \in Orders : replies'[p] \ replies[p] = {}
    BY <2>1 DEF PartnerInv, PartnerTypes
  <2> QED BY <2>1, <2>2, <2>3, <2>4, PartnerTurn
<1>3. ASSUME Ends(r), UNCHANGED <<record, replies>> PROVE PartnerInv'
  <2>1. /\ call' = [q \in Calls |-> call'[q]]
        /\ \A q \in Calls \ {r} : call'[q] = call[q]
        /\ call'[r] = NoCall
    BY <1>3, PartnerTurns DEF Ends
  <2>2. call'[r].at = "idle"
    BY <2>1 DEF NoCall
  <2>3. replies' \in [Orders -> SUBSET Records] /\ \A p \in Orders : replies'[p] \ replies[p] = {}
    BY <1>3 DEF PartnerInv, PartnerTypes
  <2> QED BY <1>3, <2>1, <2>2, <2>3, PartnerTurn
\* An answer from the rows there are.
<1>4. ASSUME NEW i \in Holders(call[r].o), record[i].o.payee = call[r].o.payee, call[r].at # "idle",
             Replies(r, i), UNCHANGED record
      PROVE  PartnerInv'
  <2>1. /\ call[r].o \in Orders /\ i \in Records
        /\ Stamped(i) /\ SameReference(record[i].o, call[r].o)
    BY <1>4 DEF Holders, Stamped, PartnerInv, PartnerTypes
  <2>2. /\ call' = [q \in Calls |-> call'[q]]
        /\ \A q \in Calls \ {r} : call'[q] = call[q]
        /\ call'[r] = NoCall
    BY <1>4, PartnerTurns DEF Replies, Ends
  <2>3. call'[r].at = "idle"
    BY <2>2 DEF NoCall
  <2>4. /\ replies' \in [Orders -> SUBSET Records]
        /\ \A p \in Orders : replies'[p] = IF p = call[r].o THEN replies[p] \cup {i} ELSE replies[p]
    BY <1>4, <2>1 DEF Replies, PartnerInv, PartnerTypes
  <2>5. \A p \in Orders : \A j \in replies'[p] \ replies[p] :
          Stamped(j) /\ SameReference(record[j].o, p) /\ record[j].o.payee = p.payee
    BY <1>4, <2>1, <2>4
  <2> QED BY <1>4, <2>2, <2>3, <2>4, <2>5, PartnerTurn
<1>5. ASSUME Lookup(r) PROVE PartnerInv'
  <2>1. CASE Holders(call[r].o) = {}
    <3>1. Turns(r, [at |-> "create", o |-> call[r].o]) /\ UNCHANGED <<record, replies>>
      BY <1>5, <2>1 DEF Lookup
    <3>2. call[r].o \in Orders
      BY <1>5 DEF Lookup, PartnerInv, PartnerTypes
    <3>3. /\ call' = [q \in Calls |-> call'[q]]
          /\ \A q \in Calls \ {r} : call'[q] = call[q]
          /\ call'[r] = [at |-> "create", o |-> call[r].o]
      BY <3>1, PartnerTurns
    <3>4. call'[r].at = "create" /\ call'[r].o \in Orders
      BY <3>2, <3>3
    <3>5. replies' \in [Orders -> SUBSET Records] /\ \A p \in Orders : replies'[p] \ replies[p] = {}
      BY <3>1 DEF PartnerInv, PartnerTypes
    <3> QED BY <3>1, <3>3, <3>4, <3>5, PartnerTurn
  <2>2. CASE Holders(call[r].o) # {}
    <3>1. /\ UNCHANGED record /\ call[r].at = "lookup"
          /\ \E i \in Holders(call[r].o) :
               IF record[i].o.payee = call[r].o.payee THEN Replies(r, i)
               ELSE Ends(r) /\ UNCHANGED replies
      BY <1>5, <2>2 DEF Lookup
    <3> QED BY <3>1, <1>3, <1>4
  <2> QED BY <2>1, <2>2
<1>6. ASSUME CreateCollectionDraft(r) PROVE PartnerInv'
  <2> DEFINE o == call[r].o
             made == [o |-> o, stamped |-> FALSE]
  <2>1. PICK i \in Records : /\ NewRecord(i, o, FALSE)
                             /\ Turns(r, [at |-> "stamp", o |-> o, i |-> i])
    BY <1>6 DEF CreateCollectionDraft
  <2>2. o \in Orders /\ o.kind = "payment" /\ UNCHANGED replies
    BY <1>6 DEF CreateCollectionDraft, PartnerInv, PartnerTypes
  <2>3. /\ record[i] = NoRecord
        /\ \A j \in Records : record'[j] = IF j = i THEN made ELSE record[j]
        /\ record' \in [Records -> PartnerRows \cup {NoRecord}]
    BY <2>1, <2>2 DEF NewRecord, PartnerInv, PartnerTypes, PartnerRows
  <2>4. /\ call' = [q \in Calls |-> call'[q]]
        /\ \A q \in Calls : call'[q] = IF q = r THEN [at |-> "stamp", o |-> o, i |-> i] ELSE call[q]
    BY <2>1 DEF Turns, PartnerInv, PartnerTypes
  <2>5. \A j \in Records : Stamped(j)' <=> Stamped(j)
    BY <2>3 DEF Stamped
  <2>6. PartnerTypes'
    BY <2>2, <2>3, <2>4 DEF PartnerInv, PartnerTypes
  <2>7. OneHolder'
    BY <2>3, <2>5 DEF PartnerInv, OneHolder, Stamped
  <2>8. Drafting'
    <3>1. ASSUME NEW q \in Calls, call[q].at = "stamp" PROVE call[q].i # i
      <4>1. [o |-> call[q].o, stamped |-> FALSE] \in [o : Orders, stamped : BOOLEAN]
        BY <3>1 DEF PartnerInv, PartnerTypes
      <4>2. record[call[q].i] # NoRecord
        BY <3>1, <4>1 DEF OrdersAssumption, PartnerInv, Drafting
      <4> QED BY <2>3, <4>2
    <3>2. call'[r].i = i /\ call'[r].o = o /\ record'[i] = made
      BY <2>3, <2>4
    <3>3. \A q \in Calls \ {r} : call'[q] = call[q]
      BY <2>4
    <3>4. \A q \in Calls : call[q].at = "stamp" => call[q].i \in Records /\ record'[call[q].i] = record[call[q].i]
      BY <2>3, <3>1 DEF PartnerInv, Drafting
    <3>5. \A q \in Calls : call'[q].at = "stamp" =>
            /\ call'[q].i \in Records
            /\ record'[call'[q].i] = [o |-> call'[q].o, stamped |-> FALSE]
            /\ call'[q].o.kind = "payment"
      <4>1. ASSUME NEW q \in Calls \ {r}, call[q].at = "stamp"
            PROVE  /\ call[q].i \in Records /\ call[q].o.kind = "payment"
                   /\ record'[call[q].i] = [o |-> call[q].o, stamped |-> FALSE]
        BY <3>4, <4>1 DEF PartnerInv, Drafting
      <4> QED BY <2>2, <3>2, <3>3, <4>1
    <3>6. \A p, q \in Calls :
            call'[p].at = "stamp" /\ call'[q].at = "stamp" /\ call'[p].i = call'[q].i => p = q
      BY <3>1, <3>2, <3>3 DEF PartnerInv, Drafting
    <3> QED BY <3>5, <3>6 DEF Drafting
  <2>9. RepliesAreHolders'
    BY <2>2, <2>3, <2>5 DEF PartnerInv, PartnerTypes, RepliesAreHolders, Stamped
  <2> QED BY <2>6, <2>7, <2>8, <2>9 DEF PartnerInv
<1>7. ASSUME SetPaymentInitiationMeta(r) PROVE PartnerInv'
  <2> DEFINE o == call[r].o
             made == [o |-> o, stamped |-> TRUE]
  <2> PICK k : k = call[r].i
    OBVIOUS
  <2>1. /\ call[r].at = "stamp" /\ o \in Orders /\ k \in Records /\ o.kind = "payment"
        /\ record[k] = [o |-> o, stamped |-> FALSE]
    BY <1>7 DEF SetPaymentInitiationMeta, PartnerInv, PartnerTypes, Drafting
  <2>2. CASE ReferenceTaken(o)
    <3>1. PICK i \in Holders(o) : Replies(r, i) /\ UNCHANGED record
      BY <1>7, <2>2 DEF SetPaymentInitiationMeta
    <3>2. record[i].o.payee = o.payee
      BY <2>1 DEF Holders, SameReference
    <3> QED BY <2>1, <3>1, <3>2, <1>4
  <2>3. CASE ~ReferenceTaken(o)
    <3>1. record' = [record EXCEPT ![k].stamped = TRUE] /\ Replies(r, k)
      BY <1>7, <2>3 DEF SetPaymentInitiationMeta
    <3>2. /\ \A j \in Records : record'[j] = IF j = k THEN made ELSE record[j]
          /\ record' \in [Records -> PartnerRows \cup {NoRecord}]
      <4>1. [record[k] EXCEPT !.stamped = TRUE] = made
        <5>1. record[k] \in PartnerRows /\ record[k].o = o
          BY <2>1 DEF PartnerRows
        <5> QED BY <5>1, Referenced
      <4>2. record' = [record EXCEPT ![k] = made]
        BY <3>1, <4>1
      <4>3. made \in PartnerRows
        BY <2>1 DEF PartnerRows
      <4> QED BY <2>1, <4>2, <4>3 DEF PartnerInv, PartnerTypes
    <3>3. made # NoRecord
      <4>1. made \in [o : Orders, stamped : BOOLEAN]
        BY <2>1
      <4> QED BY <4>1 DEF OrdersAssumption
    <3>4. /\ call' = [q \in Calls |-> call'[q]]
          /\ \A q \in Calls : call'[q] = IF q = r THEN NoCall ELSE call[q]
      BY <3>1 DEF Replies, Ends, Turns, PartnerInv, PartnerTypes
    <3>5. /\ replies' \in [Orders -> SUBSET Records]
          /\ \A p \in Orders : replies'[p] = IF p = o THEN replies[p] \cup {k} ELSE replies[p]
      BY <2>1, <3>1 DEF Replies, PartnerInv, PartnerTypes
    <3>6. /\ \A j \in Records \ {k} : Stamped(j)' <=> Stamped(j)
          /\ ~Stamped(k)
      BY <2>1, <3>2 DEF Stamped
    <3>7. PartnerTypes'
      BY <3>2, <3>4, <3>5 DEF PartnerInv, PartnerTypes, NoCall
    <3>8. OneHolder'
      <4>1. \A j \in Records : Stamped(j) => ~SameReference(record[j].o, o)
        BY <2>3 DEF ReferenceTaken, Holders, Stamped
      <4>2. \A j \in Records : Stamped(j) => ~SameReference(o, record[j].o)
        BY <4>1 DEF SameReference
      <4> QED BY <3>2, <3>6, <4>1, <4>2 DEF PartnerInv, OneHolder
    <3>9. Drafting'
      BY <2>1, <3>2, <3>4 DEF PartnerInv, Drafting, NoCall
    <3>10. RepliesAreHolders'
      <4>1. Stamped(k)'
        BY <2>1, <3>2, <3>3 DEF Stamped
      <4>2. SameReference(o, o)
        BY DEF SameReference
      <4> QED BY <2>1, <3>2, <3>5, <3>6, <4>1, <4>2 DEF PartnerInv, PartnerTypes, RepliesAreHolders
    <3> QED BY <3>7, <3>8, <3>9, <3>10 DEF PartnerInv
  <2> QED BY <2>2, <2>3
<1>8. ASSUME ApiCreateInvoice(r) PROVE PartnerInv'
  <2>1. CASE ReferenceTaken(call[r].o)
    <3>1. /\ UNCHANGED record /\ call[r].at = "create"
          /\ \E i \in Holders(call[r].o) :
               IF record[i].o.payee = call[r].o.payee THEN Replies(r, i)
               ELSE Ends(r) /\ UNCHANGED replies
      BY <1>8, <2>1 DEF ApiCreateInvoice
    <3> QED BY <3>1, <1>3, <1>4
  <2>2. CASE ~ReferenceTaken(call[r].o)
    BY <1>8, <2>2, PartnerInsert DEF ApiCreateInvoice
  <2> QED BY <2>1, <2>2
<1>9. ASSUME CreateCheckout(r) PROVE PartnerInv'
  <2>1. CASE ReferenceTaken(call[r].o)
    BY <1>3, <1>9, <2>1 DEF CreateCheckout
  <2>2. CASE ~ReferenceTaken(call[r].o)
    BY <1>9, <2>2, PartnerInsert DEF CreateCheckout
  <2> QED BY <2>1, <2>2
<1>10. ASSUME CutOff(r) PROVE PartnerInv'
  BY <1>3, <1>10 DEF CutOff
<1> QED BY <1>2, <1>5, <1>6, <1>7, <1>8, <1>9, <1>10

LEMMA PartnerStart == ASSUME PartnerInit PROVE PartnerInv
BY DEF PartnerInit, PartnerInv, PartnerTypes, OneHolder, Drafting, RepliesAreHolders, Stamped, NoCall,
       PartnerRows

\* Every replay of a reference is answered with one row of the merchant that
\* asked, for any number of requests, cut off anywhere (apiCreatePayment,
\* apiCreateInvoice, CreateCheckout).
THEOREM PartnerRepliesAgree == PartnerSpec => []RepliesAgree
<1>1. PartnerInit => PartnerInv
  BY PartnerStart
<1>2. PartnerInv /\ [PartnerNext]_partnerVars => PartnerInv'
  BY PartnerStep, OrdersAssumption
<1>3. PartnerInv => RepliesAgree
  BY PartnerInvIsSafe
<1> QED BY <1>1, <1>2, <1>3, PTL DEF PartnerSpec

-----------------------------------------------------------------------------
(* Scan codes.  A sale has one code, and as long as it has one, what the   *)
(* code still admits and what was admitted is what was bought.             *)

Scannable == [p : Sales, s : Gatekeepers, left : Nat, expired : BOOLEAN]

ScanTypes ==
  /\ sale \in [Sales -> {"pending", "succeeded", "refunded"}]
  /\ admitted \in [Sales -> Nat]
  /\ code \subseteq Scannable
  /\ hook = [h \in Hooks |-> hook[h]]
  /\ \A h \in Hooks : hook[h].at # "idle" => hook[h].p \in Sales

OneCodeEach == \A c, d \in code : c.p = d.p => c = d

UsesAddUp ==
  /\ \A c \in code : c.left + admitted[c.p] = Uses(c.p)
  /\ \A p \in Sales : CodesOf(p) = {} => admitted[p] = 0
  /\ \A p \in Sales : admitted[p] > 0 => sale[p] # "pending"

ScanInv == ScanTypes /\ OneCodeEach /\ UsesAddUp

LEMMA UsesAreCounted == ASSUME NEW p \in Sales PROVE Uses(p) \in Nat \ {0}
BY UnitsAssumption DEF Uses

LEMMA ScanInvIsSafe == ASSUME ScanInv PROVE ScansAreCovered
<1> SUFFICES ASSUME NEW p \in Sales
             PROVE  /\ admitted[p] <= Uses(p)
                    /\ \A c \in CodesOf(p) : c.left + admitted[p] = Uses(p)
                    /\ admitted[p] > 0 => sale[p] # "pending"
  BY DEF ScansAreCovered
<1>1. \A c \in CodesOf(p) : c.left \in Nat /\ c.left + admitted[p] = Uses(p)
  BY DEF ScanInv, ScanTypes, UsesAddUp, CodesOf, Scannable
<1>2. admitted[p] \in Nat /\ Uses(p) \in Nat
  BY UsesAreCounted DEF ScanInv, ScanTypes
<1>3. CASE CodesOf(p) = {}
  BY <1>1, <1>2, <1>3 DEF ScanInv, UsesAddUp
<1>4. CASE CodesOf(p) # {}
  BY <1>1, <1>2, <1>4 DEF ScanInv, UsesAddUp
<1> QED BY <1>3, <1>4

\* A code is replaced by itself with so many uses less, and they are admitted.
LEMMA CodeChanges ==
  ASSUME ScanInv, NEW c \in code, NEW d \in Scannable, NEW n \in Nat,
         d.p = c.p, d.left + n = c.left, n > 0 => sale[c.p] = "succeeded",
         code' = (code \ {c}) \cup {d},
         admitted' = [admitted EXCEPT ![c.p] = @ + n],
         UNCHANGED <<sale, hook>>
  PROVE  ScanInv'
<1>1. c.p \in Sales /\ c.left \in Nat /\ d.left \in Nat /\ Uses(c.p) \in Nat
  BY UsesAreCounted DEF ScanInv, ScanTypes, Scannable
<1>2. /\ admitted' \in [Sales -> Nat] /\ admitted \in [Sales -> Nat]
      /\ \A p \in Sales : admitted'[p] = IF p = c.p THEN admitted[p] + n ELSE admitted[p]
  BY <1>1 DEF ScanInv, ScanTypes
<1>3. ScanTypes'
  BY <1>2 DEF ScanInv, ScanTypes
<1>4. OneCodeEach'
  BY DEF ScanInv, OneCodeEach
<1>5. \A e \in code' : e.left + admitted'[e.p] = Uses(e.p)
  <2> SUFFICES ASSUME NEW e \in code' PROVE e.left + admitted'[e.p] = Uses(e.p)
    OBVIOUS
  <2>1. CASE e = d
    <3>1. c.left + admitted[c.p] = Uses(c.p)
      BY DEF ScanInv, UsesAddUp
    <3>2. admitted'[c.p] = admitted[c.p] + n /\ admitted[c.p] \in Nat
      BY <1>1, <1>2
    <3> QED BY <1>1, <2>1, <3>1, <3>2
  <2>2. CASE e # d
    <3>1. e \in code /\ e # c
      BY <2>2
    <3>2. e.p # c.p /\ e.p \in Sales
      BY <3>1 DEF ScanInv, OneCodeEach, ScanTypes, Scannable
    <3> QED BY <1>2, <3>1, <3>2 DEF ScanInv, UsesAddUp
  <2> QED BY <2>1, <2>2
<1>6. ASSUME NEW p \in Sales, CodesOf(p)' = {} PROVE admitted'[p] = 0
  <2>1. p # c.p
    BY <1>6 DEF CodesOf
  <2>2. CodesOf(p) = {}
    BY <1>6, <2>1 DEF CodesOf
  <2> QED BY <1>2, <2>1, <2>2 DEF ScanInv, UsesAddUp
<1>7. ASSUME NEW p \in Sales, admitted'[p] > 0 PROVE sale'[p] # "pending"
  <2>1. CASE p = c.p /\ n > 0
    BY <2>1
  <2>2. CASE ~(p = c.p /\ n > 0)
    <3>1. admitted'[p] = admitted[p]
      BY <1>2, <2>2
    <3> QED BY <1>7, <3>1 DEF ScanInv, UsesAddUp
  <2> QED BY <2>1, <2>2
<1>8. UsesAddUp'
  BY <1>5, <1>6, <1>7 DEF UsesAddUp, Uses
<1> QED BY <1>3, <1>4, <1>8 DEF ScanInv

LEMMA ScanIsCounted ==
  ASSUME ScanInv, NEW c \in code, ScanIsValid(c), Consumes(c), UNCHANGED <<sale, hook>>
  PROVE  ScanInv'
<1> DEFINE d == [c EXCEPT !.left = @ - 1]
<1>1. c \in Scannable /\ c.left \in Nat /\ c.left > 0 /\ sale[c.p] = "succeeded"
  BY DEF ScanInv, ScanTypes, ScanIsValid, Scannable
<1>2. d \in Scannable /\ d.p = c.p /\ d.left = c.left - 1
  BY <1>1 DEF Scannable
<1>3. d.left + 1 = c.left
  BY <1>1, <1>2
<1>4. code' = (code \ {c}) \cup {d} /\ admitted' = [admitted EXCEPT ![c.p] = @ + 1]
  BY DEF Consumes
<1> HIDE DEF d
<1> QED BY <1>1, <1>2, <1>3, <1>4, CodeChanges

LEMMA ScanStep ==
  ASSUME ScanInv, [ScanNext]_scanVars
  PROVE  ScanInv'
<1>1. ASSUME UNCHANGED <<sale, code, hook, admitted>> PROVE ScanInv'
  BY <1>1 DEF ScanInv, ScanTypes, OneCodeEach, UsesAddUp, CodesOf, Uses
<1>2. ASSUME NEW p \in Sales, SaleMoves(p) PROVE ScanInv'
  <2>1. /\ sale' \in [Sales -> {"pending", "succeeded", "refunded"}]
        /\ \A q \in Sales : sale'[q] = "pending" => sale[q] = "pending"
        /\ UNCHANGED <<code, hook, admitted>>
    BY <1>2 DEF SaleMoves, ScanInv, ScanTypes
  <2> QED BY <2>1 DEF ScanInv, ScanTypes, OneCodeEach, UsesAddUp, CodesOf, Uses
\* A run that only changes its own step.
<1>3. ASSUME NEW h \in Hooks, NEW to, NEW p, HookTurns(h, to, p), to # "idle" => p \in Sales,
             UNCHANGED <<sale, code, admitted>>
      PROVE  ScanInv'
  <2>1. ScanTypes'
    BY <1>3 DEF HookTurns, ScanInv, ScanTypes
  <2> QED BY <1>3, <2>1 DEF ScanInv, OneCodeEach, UsesAddUp, CodesOf, Uses
<1>4. ASSUME NEW h \in Hooks, HookEnds(h), UNCHANGED <<sale, code, admitted>> PROVE ScanInv'
  BY <1>3, <1>4 DEF HookEnds
<1>5. ASSUME NEW h \in Hooks, NEW p \in Sales, LooksUpCode(h, p) PROVE ScanInv'
  <2>1. CASE CodesOf(p) = {}
    BY <1>3, <1>5, <2>1 DEF LooksUpCode
  <2>2. CASE CodesOf(p) # {}
    BY <1>1, <1>5, <2>2 DEF LooksUpCode
  <2> QED BY <2>1, <2>2
<1>6. ASSUME NEW h \in Hooks, EnsureReceiptScanToken(h) PROVE ScanInv'
  <2>1. CASE UNCHANGED code /\ HookEnds(h)
    BY <1>4, <1>6, <2>1 DEF EnsureReceiptScanToken
  <2>2. ASSUME NEW p \in Sales, NEW s \in Gatekeepers, p = hook[h].p, OneCode(p),
               code' = code \cup {NewCode(p, s)}, HookTurns(h, "made", p),
               UNCHANGED <<sale, admitted>>
        PROVE  ScanInv'
    <3> DEFINE c == NewCode(p, s)
    <3>1. c \in Scannable /\ c.p = p /\ c.left = Uses(p) /\ Uses(p) \in Nat
      BY UsesAreCounted DEF NewCode, Scannable
    <3>2. CodesOf(p) = {} /\ admitted[p] = 0
      BY <2>2 DEF OneCode, ScanInv, UsesAddUp
    <3>3. ScanTypes'
      <4>1. /\ hook' = [g \in Hooks |-> hook'[g]]
            /\ \A g \in Hooks : hook'[g].at # "idle" => hook'[g].p \in Sales
        BY <2>2 DEF HookTurns, ScanInv, ScanTypes
      <4> QED BY <2>2, <3>1, <4>1 DEF ScanInv, ScanTypes
    <3>4. code' = code \cup {c}
      BY <2>2
    <3> HIDE DEF c
    <3>5. OneCodeEach'
      BY <3>1, <3>2, <3>4 DEF ScanInv, OneCodeEach, CodesOf
    <3>6. \A e \in code' : e.left + admitted'[e.p] = Uses(e.p)
      BY <2>2, <3>1, <3>2, <3>4 DEF ScanInv, UsesAddUp
    <3>7. \A q \in Sales : CodesOf(q)' = {} => CodesOf(q) = {}
      BY <3>4 DEF CodesOf
    <3>8. UsesAddUp'
      BY <2>2, <3>6, <3>7 DEF ScanInv, UsesAddUp, Uses
    <3> QED BY <3>3, <3>5, <3>8 DEF ScanInv
  <2>3. hook[h].p \in Sales /\ Serving(hook[h].p) \subseteq Gatekeepers
    BY <1>6 DEF EnsureReceiptScanToken, ScanInv, ScanTypes, Serving
  <2> QED BY <1>6, <2>1, <2>2, <2>3 DEF EnsureReceiptScanToken
<1>7. ASSUME NEW c \in code, CodeExpires(c) PROVE ScanInv'
  <2> DEFINE d == [c EXCEPT !.expired = TRUE]
  <2>1. c \in Scannable /\ c.left \in Nat /\ c.p \in Sales
    BY DEF ScanInv, ScanTypes, Scannable
  <2>2. d \in Scannable
    BY <2>1 DEF Scannable
  <2>5. d.p = c.p /\ d.left + 0 = c.left
    BY <2>1 DEF Scannable
  <2>3. code' = (code \ {c}) \cup {d} /\ UNCHANGED <<sale, hook, admitted>>
    BY <1>7 DEF CodeExpires
  <2>4. admitted' = [admitted EXCEPT ![c.p] = @ + 0]
    BY <2>1, <2>3 DEF ScanInv, ScanTypes
  <2> HIDE DEF d
  <2>6. 0 \in Nat /\ ~(0 > 0)
    OBVIOUS
  <2> QED BY <2>2, <2>3, <2>4, <2>5, <2>6, CodeChanges
<1>8. ASSUME NEW c \in code,
             \/ MerchantValidateScanToken(c) \/ \E d \in Readers : ValidateAndConsumeReceiptScan(d, c)
      PROVE  ScanInv'
  BY <1>8, ScanIsCounted DEF MerchantValidateScanToken, ValidateAndConsumeReceiptScan
<1>9. ASSUME NEW h \in Hooks, SendsCode(h) \/ HookCut(h) PROVE ScanInv'
  BY <1>4, <1>9 DEF SendsCode, HookCut
<1>10. CASE UNCHANGED scanVars
  BY <1>1, <1>10 DEF scanVars
<1>11. CASE ScanNext
  <2>1. ASSUME NEW s \in Gatekeepers,
               \/ \E on \in BOOLEAN, ps \in SUBSET Sales : CreateRegisteredService(s, on, ps)
               \/ \E ps \in SUBSET Sales : UpdateServicePhoneWhitelist(s, ps)
               \/ \E d \in Readers : CreateServiceReader(d, s)
        PROVE  ScanInv'
    BY <1>1, <2>1 DEF CreateRegisteredService, UpdateServicePhoneWhitelist, CreateServiceReader
  <2> QED BY <1>2, <1>5, <1>6, <1>7, <1>8, <1>9, <1>11, <2>1 DEF ScanNext
<1> QED BY <1>10, <1>11

LEMMA ScanStart == ASSUME ScanInit PROVE ScanInv
BY DEF ScanInit, ScanInv, ScanTypes, OneCodeEach, UsesAddUp, CodesOf

\* Never more people are admitted than units were paid for, however often the hook
\* ran and whoever scans (EnsureReceiptScanToken, ValidateAndConsumeReceiptScan).
THEOREM ScansAlwaysCovered == ScanSpec => []ScansAreCovered
<1>1. ScanInit => ScanInv
  BY ScanStart
<1>2. ScanInv /\ [ScanNext]_scanVars => ScanInv'
  BY ScanStep
<1>3. ScanInv => ScansAreCovered
  BY ScanInvIsSafe
<1> QED BY <1>1, <1>2, <1>3, PTL DEF ScanSpec

-----------------------------------------------------------------------------
(* The office.  A behaviour is one of the parts to its end.                *)

RetriesInv == (focus = "partner" => PartnerInv) /\ (focus = "scanning" => ScanInv)

\* One reference has one answer and a code admits what was paid for, whatever part
\* of the office a behaviour is about.
THEOREM RetriesAreAlwaysSafe == OfficeSpec => []RetriesAreSafe
<1>1. ASSUME OfficeInit PROVE RetriesInv
  BY <1>1, PartnerStart, ScanStart DEF OfficeInit, RetriesInv
<1>2. ASSUME RetriesInv, [OfficeNext]_officeVars PROVE RetriesInv'
  <2>1. focus' = focus
    BY <1>2 DEF OfficeNext, officeVars
  <2>2. ASSUME focus = "partner" PROVE PartnerInv'
    <3>1. CASE OfficeNext
      <4>1. PartnerNext
        BY <2>2, <3>1 DEF OfficeNext
      <4> QED BY <1>2, <2>2, <4>1, PartnerStep, OrdersAssumption DEF RetriesInv
    <3>2. CASE UNCHANGED officeVars
      <4>1. UNCHANGED partnerVars
        BY <3>2 DEF officeVars
      <4> QED BY <1>2, <2>2, <4>1, PartnerStep, OrdersAssumption DEF RetriesInv
    <3> QED BY <1>2, <3>1, <3>2
  <2>3. ASSUME focus = "scanning" PROVE ScanInv'
    <3>1. CASE OfficeNext
      <4>1. ScanNext
        BY <2>3, <3>1 DEF OfficeNext
      <4> QED BY <1>2, <2>3, <4>1, ScanStep DEF RetriesInv
    <3>2. CASE UNCHANGED officeVars
      <4>1. UNCHANGED scanVars
        BY <3>2 DEF officeVars
      <4> QED BY <1>2, <2>3, <4>1, ScanStep DEF RetriesInv
    <3> QED BY <1>2, <3>1, <3>2
  <2> QED BY <2>1, <2>2, <2>3 DEF RetriesInv
<1>3. ASSUME RetriesInv PROVE RetriesAreSafe
  BY <1>3, PartnerInvIsSafe, ScanInvIsSafe DEF RetriesInv, RetriesAreSafe
<1> QED BY <1>1, <1>2, <1>3, PTL DEF OfficeSpec
================================================================================
