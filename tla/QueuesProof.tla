----------------------------- MODULE QueuesProof -----------------------------
(***************************************************************************)
(* Proofs about the durable queues, for any number of messages, replicas,  *)
(* payments and posts.  Each queue has an inductive invariant: InboundInv, *)
(* BusInv, OutboxInv and ReceiverInv.                                      *)
(***************************************************************************)
EXTENDS MCQueues, FiniteSetTheorems, TLAPS

\* The time a leaf may take on a slow machine.
USE SMTT(40), ZenonT(20)

-----------------------------------------------------------------------------
(* The inbound queue.  What keeps a message in one pair of hands is that   *)
(* the hands know its row: until its lease ends under them it is leased    *)
(* and was claimed by them last (Known).  A claim takes only rows that are *)
(* due, so it never takes one of those.                                    *)

\* A message in somebody's hands whose handler kept its lease.
Known(r, c, t) ==
  t.id \notin overrun =>
    /\ row[t.id].status = "processing" /\ ~row[t.id].due
    /\ row[t.id].attempts = t.attempts + 1

InboundInv ==
  /\ TypeOK
  /\ \A m \in Messages : row[m].status = "none" => row[m].attempts = 0
  /\ \A r \in Replicas : listed[r] # {} => \A c \in Chats : group[r][c].todo = {}
  /\ \A r \in Replicas, c \in Chats : \A t \in group[r][c].todo : Known(r, c, t)
  /\ \A r \in Replicas, c \in Chats : \A t, u \in group[r][c].todo : t.id = u.id => t = u
  /\ \A r, s \in Replicas, c, d \in Chats : \A t \in group[r][c].todo, u \in group[s][d].todo :
       t.id = u.id /\ t.id \notin overrun => r = s
  /\ RetriesAreBounded

\* What the invariant says of the messages in the hands of the replicas.
LEMMA InboundGivesHeldOnce == InboundInv => HeldOnce
<1> SUFFICES ASSUME InboundInv, NEW m \in Messages \ overrun, NEW r \in Replicas, NEW s \in Replicas,
                    m \in Held(r), m \in Held(s)
             PROVE  r = s
  BY DEF HeldOnce
<1>1. PICK c \in Chats : \E t \in group[r][c].todo : t.id = m
  BY DEF Held
<1>2. PICK d \in Chats : \E u \in group[s][d].todo : u.id = m
  BY DEF Held
<1> QED BY <1>1, <1>2 DEF InboundInv

LEMMA InboundStart == Init => InboundInv
<1> SUFFICES ASSUME Init PROVE InboundInv
  OBVIOUS
<1> USE QueueAssumption DEF Init, NoMessage, NoGroup
<1>1. TypeOK
  BY DEF TypeOK, RowStatuses, Pcs
<1>2. RetriesAreBounded
  BY DEF RetriesAreBounded
<1> QED BY <1>1, <1>2 DEF InboundInv, Known

\* Where a step leaves every goroutine with a part of what it had, changes only
\* rows that are in nobody's hands afterwards, and names every handler whose
\* lease ends, the invariant needs nothing more of it than its rows.
LEMMA HandsShrink ==
  ASSUME InboundInv, TypeOK',
         \A m \in Messages : row'[m].status = "none" => row'[m].attempts = 0,
         RetriesAreBounded',
         \A r \in Replicas, c \in Chats : group'[r][c].todo \subseteq group[r][c].todo,
         \A r \in Replicas : listed'[r] # {} => \A c \in Chats : group'[r][c].todo = {},
         overrun \subseteq overrun',
         \A r \in Replicas, c \in Chats : \A t \in group'[r][c].todo :
           t.id \notin overrun' => row'[t.id] = row[t.id]
  PROVE  InboundInv'
<1>1. \A r \in Replicas, c \in Chats : \A t \in group'[r][c].todo : Known(r, c, t)'
  BY DEF InboundInv, Known
<1>2. \A r \in Replicas, c \in Chats : \A t, u \in group'[r][c].todo : t.id = u.id => t = u
  BY DEF InboundInv
<1>3. \A r, s \in Replicas, c, d \in Chats : \A t \in group'[r][c].todo, u \in group'[s][d].todo :
        t.id = u.id /\ t.id \notin overrun' => r = s
  BY DEF InboundInv
<1> QED BY <1>1, <1>2, <1>3 DEF InboundInv

\* A message nobody knows is in nobody's hands.
LEMMA NewIsFree ==
  ASSUME InboundInv, NEW m \in Messages, row[m].status = "none",
         NEW r \in Replicas, NEW c \in Chats, NEW t \in group[r][c].todo
  PROVE  t.id # m
<1>1. row[m].attempts = 0
  BY DEF InboundInv
<1>2. row[t.id].attempts > t.attempts /\ t.attempts \in Nat
  BY DEF InboundInv, TypeOK
<1> QED BY <1>1, <1>2 DEF InboundInv, TypeOK

LEMMA EnqueueKeeps ==
  ASSUME InboundInv, NEW m \in Messages, EnqueueInboundMessage(m)
  PROVE  InboundInv'
<1> DEFINE known == {n \in Messages : row[n].status # "none"}
<1>1. Cardinality(known) \in Nat
  <2>1. IsFiniteSet(known)
    BY QueueAssumption, FS_Subset
  <2> QED BY <2>1, FS_CardinalityType
<1> HIDE DEF known
<1>2. row' = [row EXCEPT ![m] = [status |-> "pending", attempts |-> 0, due |-> TRUE,
                                 received |-> 1 + Cardinality(known)]]
  BY DEF EnqueueInboundMessage, known
<1>3. /\ row \in [Messages -> [status : RowStatuses, attempts : Nat, due : BOOLEAN, received : Nat]]
      /\ UNCHANGED <<listed, group, overrun, failures>> /\ row[m].status = "none"
  BY DEF InboundInv, TypeOK, EnqueueInboundMessage
<1>4. row' \in [Messages -> [status : RowStatuses, attempts : Nat, due : BOOLEAN, received : Nat]]
  BY <1>1, <1>2, <1>3 DEF RowStatuses
<1>5. /\ \A n \in Messages \ {m} : row'[n] = row[n]
      /\ row'[m].status = "pending" /\ row'[m].attempts = 0
  BY <1>2, <1>3
<1>6. \A r \in Replicas, c \in Chats : \A t \in group[r][c].todo : t.id \in Messages /\ row'[t.id] = row[t.id]
  BY <1>3, <1>5, NewIsFree DEF InboundInv, TypeOK
<1>7. TypeOK'
  BY <1>3, <1>4, <1>6 DEF InboundInv, TypeOK
<1>8. RetriesAreBounded'
  BY <1>3, <1>5, QueueAssumption DEF InboundInv, RetriesAreBounded
<1>9. \A n \in Messages : row'[n].status = "none" => row'[n].attempts = 0
  BY <1>5 DEF InboundInv
<1>10. \A r \in Replicas : listed'[r] # {} => \A c \in Chats : group'[r][c].todo = {}
  BY <1>3 DEF InboundInv
<1> QED BY <1>3, <1>6, <1>7, <1>8, <1>9, <1>10, HandsShrink

LEMMA ListKeeps ==
  ASSUME InboundInv, NEW r \in Replicas, ListDue(r)
  PROVE  InboundInv'
<1>1. /\ UNCHANGED <<row, group, overrun, failures>>
      /\ listed' = [listed EXCEPT ![r] = {c \in DueChats : Cardinality({d \in DueChats : d < c}) < Limit}]
      /\ \A c \in Chats : group[r][c].todo = {}
  <2>1. \A c \in Chats : {t.id : t \in group[r][c].todo} \subseteq Held(r)
    BY DEF Held
  <2> QED BY <2>1 DEF ListDue, Idle
<1>2. TypeOK'
  BY <1>1 DEF InboundInv, TypeOK, DueChats
<1>3. \A s \in Replicas : listed'[s] # {} => \A c \in Chats : group'[s][c].todo = {}
  <2>1. listed \in [Replicas -> SUBSET Chats]
    BY DEF InboundInv, TypeOK
  <2>2. \A s \in Replicas \ {r} : listed'[s] = listed[s]
    BY <1>1, <2>1
  <2> QED BY <1>1, <2>2 DEF InboundInv
<1>4. RetriesAreBounded' /\ \A m \in Messages : row'[m].status = "none" => row'[m].attempts = 0
  BY <1>1 DEF InboundInv, RetriesAreBounded
<1> QED BY <1>1, <1>2, <1>3, <1>4, HandsShrink

\* A claim: the rows it takes were due, so whoever holds one outran its lease.
LEMMA ClaimKeeps ==
  ASSUME InboundInv, NEW r \in Replicas, ClaimDue(r)
  PROVE  InboundInv'
<1> DEFINE claim == Batch(r)
<1>1. /\ claim \subseteq Messages
      /\ \A m \in claim : Due(m)
  BY DEF Batch
<1>2. /\ row' = [m \in Messages |-> IF m \in claim THEN Lease(row[m]) ELSE row[m]]
      /\ group' = [group EXCEPT ![r] = [c \in Chats |-> GroupOf(claim, c)]]
      /\ listed' = [listed EXCEPT ![r] = {}]
      /\ UNCHANGED <<overrun, failures>> /\ listed[r] # {}
  BY DEF ClaimDue
<1> HIDE DEF claim
<1>3. TypeOK
  BY DEF InboundInv
<1>4. /\ \A s \in Replicas \ {r} : group'[s] = group[s]
      /\ \A c \in Chats : group'[r][c] = GroupOf(claim, c)
      /\ \A s \in Replicas \ {r} : listed'[s] = listed[s]
      /\ listed'[r] = {}
  BY <1>2, <1>3 DEF TypeOK
<1>5. \A m \in Messages : row'[m] = IF m \in claim THEN Lease(row[m]) ELSE row[m]
  BY <1>2
<1>6. \A m \in claim : /\ row'[m].status = "processing" /\ ~row'[m].due
                       /\ row'[m].attempts = row[m].attempts + 1
  <2> SUFFICES ASSUME NEW m \in claim
               PROVE  /\ row'[m].status = "processing" /\ ~row'[m].due
                      /\ row'[m].attempts = row[m].attempts + 1
    OBVIOUS
  <2>1. row'[m] = [status |-> "processing", attempts |-> row[m].attempts + 1, due |-> FALSE,
                   received |-> row[m].received]
    BY <1>1, <1>5 DEF Lease
  <2> QED BY <2>1
<1>7. \A s \in Replicas \ {r}, c \in Chats : \A t \in group[s][c].todo :
        t.id \in claim => t.id \in overrun
  <2> SUFFICES ASSUME NEW s \in Replicas \ {r}, NEW c \in Chats, NEW t \in group[s][c].todo, t.id \in claim
               PROVE  t.id \in overrun
    OBVIOUS
  <2>1. row[t.id].due
    BY <1>1 DEF Due
  <2> QED BY <2>1 DEF InboundInv, Known
<1>8. \A c \in Chats : \A t \in group'[r][c].todo :
        /\ t.id \in claim /\ Recipient[t.id] = c
        /\ t = [id |-> t.id, attempts |-> row[t.id].attempts]
  <2> SUFFICES ASSUME NEW c \in Chats, NEW t \in group'[r][c].todo
               PROVE  /\ t.id \in claim /\ Recipient[t.id] = c
                      /\ t = [id |-> t.id, attempts |-> row[t.id].attempts]
    OBVIOUS
  <2>1. t \in {[id |-> m, attempts |-> row[m].attempts] : m \in {n \in claim : Recipient[n] = c}}
    <3>1. group'[r][c] = [todo |-> {[id |-> m, attempts |-> row[m].attempts] :
                                      m \in {n \in claim : Recipient[n] = c}}, pc |-> "load"]
      BY <1>4, Zenon DEF GroupOf
    <3> QED BY <3>1
  <2>2. PICK m \in {n \in claim : Recipient[n] = c} : t = [id |-> m, attempts |-> row[m].attempts]
    BY <2>1
  <2> QED BY <2>2
<1>9. \A m \in Messages : /\ row[m].status \in RowStatuses /\ row[m].attempts \in Nat
                          /\ row[m].received \in Nat
  BY <1>3 DEF TypeOK
<1>10. TypeOK'
  <2>1. row' \in [Messages -> [status : RowStatuses, attempts : Nat, due : BOOLEAN, received : Nat]]
    <3>1. ASSUME NEW m \in Messages
          PROVE  row'[m] \in [status : RowStatuses, attempts : Nat, due : BOOLEAN, received : Nat]
      <4>1. CASE m \in claim
        <5>1. row'[m] = [status |-> "processing", attempts |-> row[m].attempts + 1, due |-> FALSE,
                         received |-> row[m].received]
          BY <1>5, <4>1 DEF Lease
        <5> QED BY <1>9, <5>1 DEF RowStatuses
      <4>2. CASE m \notin claim
        BY <1>3, <1>5, <4>2 DEF TypeOK
      <4> QED BY <4>1, <4>2
    <3> QED BY <1>2, <3>1
  <2>2. group' \in [Replicas -> [Chats -> [todo : SUBSET [id : Messages, attempts : Nat], pc : Pcs]]]
    <3>1. \A c \in Chats : GroupOf(claim, c) \in [todo : SUBSET [id : Messages, attempts : Nat], pc : Pcs]
      BY <1>1, <1>9 DEF GroupOf, Pcs
    <3>2. [c \in Chats |-> GroupOf(claim, c)] \in [Chats -> [todo : SUBSET [id : Messages, attempts : Nat], pc : Pcs]]
      BY <3>1
    <3> QED BY <1>2, <1>3, <3>2 DEF TypeOK
  <2>3. \A s \in Replicas, c \in Chats : \A t \in group'[s][c].todo :
          Recipient[t.id] = c /\ row'[t.id].attempts > t.attempts
    <3> SUFFICES ASSUME NEW s \in Replicas, NEW c \in Chats, NEW t \in group'[s][c].todo
                 PROVE  Recipient[t.id] = c /\ row'[t.id].attempts > t.attempts
      OBVIOUS
    <3>1. CASE s = r
      <4>1. /\ t.id \in claim /\ Recipient[t.id] = c
            /\ t.attempts = row[t.id].attempts
        BY <1>8, <3>1
      <4> QED BY <1>1, <1>6, <1>9, <4>1
    <3>2. CASE s # r
      <4>1. /\ t \in group[s][c].todo /\ t.id \in Messages /\ t.attempts \in Nat
            /\ Recipient[t.id] = c /\ row[t.id].attempts > t.attempts
        BY <1>3, <1>4, <3>2 DEF TypeOK
      <4> QED BY <1>5, <1>6, <1>9, <4>1
    <3> QED BY <3>1, <3>2
  <2>4. listed' \in [Replicas -> SUBSET Chats]
    BY <1>2, <1>3 DEF TypeOK
  <2> QED BY <1>2, <1>3, <2>1, <2>2, <2>3, <2>4 DEF TypeOK
<1>11. \A m \in Messages : row'[m].status = "none" => row'[m].attempts = 0
  BY <1>5, <1>6 DEF InboundInv
<1>12. \A s \in Replicas : listed'[s] # {} => \A c \in Chats : group'[s][c].todo = {}
  BY <1>4 DEF InboundInv
<1>13. \A s \in Replicas, c \in Chats : \A t \in group'[s][c].todo : Known(s, c, t)'
  <2> SUFFICES ASSUME NEW s \in Replicas, NEW c \in Chats, NEW t \in group'[s][c].todo,
                      t.id \notin overrun
               PROVE  /\ row'[t.id].status = "processing" /\ ~row'[t.id].due
                      /\ row'[t.id].attempts = t.attempts + 1
    BY <1>2 DEF Known
  <2>1. CASE s = r
    <3>1. t.id \in claim /\ t.attempts = row[t.id].attempts
      BY <1>8, <2>1
    <3> QED BY <1>6, <3>1
  <2>2. CASE s # r
    <3>1. t \in group[s][c].todo /\ t.id \in Messages /\ Known(s, c, t)
      BY <1>3, <1>4, <2>2 DEF InboundInv, TypeOK
    <3>2. t.id \notin claim
      BY <1>7, <2>2, <3>1
    <3> QED BY <1>5, <3>1, <3>2 DEF Known
  <2> QED BY <2>1, <2>2
<1>14. \A s \in Replicas, c \in Chats : \A t, u \in group'[s][c].todo : t.id = u.id => t = u
  <2> SUFFICES ASSUME NEW s \in Replicas, NEW c \in Chats,
                      NEW t \in group'[s][c].todo, NEW u \in group'[s][c].todo, t.id = u.id
               PROVE  t = u
    OBVIOUS
  <2>1. CASE s = r
    <3>1. /\ t = [id |-> t.id, attempts |-> row[t.id].attempts]
          /\ u = [id |-> u.id, attempts |-> row[u.id].attempts]
      BY <1>8, <2>1
    <3> QED BY <3>1
  <2>2. CASE s # r
    BY <1>4, <2>2 DEF InboundInv
  <2> QED BY <2>1, <2>2
<1>15. \A s, q \in Replicas, c, d \in Chats : \A t \in group'[s][c].todo, u \in group'[q][d].todo :
         t.id = u.id /\ t.id \notin overrun' => s = q
  <2> SUFFICES ASSUME NEW s \in Replicas, NEW q \in Replicas, NEW c \in Chats, NEW d \in Chats,
                      NEW t \in group'[s][c].todo, NEW u \in group'[q][d].todo,
                      t.id = u.id, t.id \notin overrun
               PROVE  s = q
    BY <1>2
  <2>1. CASE s = r /\ q # r
    <3>1. t.id \in claim
      BY <1>8, <2>1
    <3> QED BY <1>4, <1>7, <2>1, <3>1
  <2>2. CASE s # r /\ q = r
    <3>1. u.id \in claim
      BY <1>8, <2>2
    <3> QED BY <1>4, <1>7, <2>2, <3>1
  <2>3. CASE s # r /\ q # r
    BY <1>4, <2>3 DEF InboundInv
  <2> QED BY <2>1, <2>2, <2>3
<1>16. RetriesAreBounded'
  BY <1>2, <1>5, <1>6 DEF InboundInv, RetriesAreBounded
<1> QED BY <1>10, <1>11, <1>12, <1>13, <1>14, <1>15, <1>16 DEF InboundInv

\* A goroutine that loads its session or replies.
LEMMA GoroutineStepKeeps ==
  ASSUME InboundInv, NEW r \in Replicas, NEW c \in Chats, NEW pc \in Pcs, Step(r, c, pc),
         UNCHANGED <<row, listed, overrun, failures>>
  PROVE  InboundInv'
<1>1. /\ group \in [Replicas -> [Chats -> [todo : SUBSET [id : Messages, attempts : Nat], pc : Pcs]]]
      /\ group' = [group EXCEPT ![r][c].pc = pc]
  BY DEF InboundInv, TypeOK, Step
<1>2. group' \in [Replicas -> [Chats -> [todo : SUBSET [id : Messages, attempts : Nat], pc : Pcs]]]
  BY <1>1
<1>3. \A s \in Replicas, d \in Chats : group'[s][d].todo = group[s][d].todo
  BY <1>1
<1>4. TypeOK'
  BY <1>2, <1>3 DEF InboundInv, TypeOK
<1>5. RetriesAreBounded' /\ \A m \in Messages : row'[m].status = "none" => row'[m].attempts = 0
  BY DEF InboundInv, RetriesAreBounded
<1>6. \A s \in Replicas : listed'[s] # {} => \A d \in Chats : group'[s][d].todo = {}
  BY <1>3 DEF InboundInv
<1> QED BY <1>3, <1>4, <1>5, <1>6, HandsShrink

\* A goroutine that is through with a message, whose row it wrote or left.
LEMMA AdvanceKeeps ==
  ASSUME InboundInv, NEW r \in Replicas, NEW c \in Chats, NEW t \in group[r][c].todo,
         Advance(r, c, t), UNCHANGED <<listed, overrun>>, failures' \in 0 .. MaxFailures,
         NEW status \in RowStatuses \ {"none"}, NEW due \in BOOLEAN,
         row' = [row EXCEPT ![t.id] = [@ EXCEPT !.status = status, !.due = due]],
         t.id \notin overrun =>
           /\ status = "pending" => row[t.id].attempts < MaxAttempts
           /\ status = "failed" => row[t.id].attempts >= MaxAttempts
  PROVE  InboundInv'
<1>1. /\ group \in [Replicas -> [Chats -> [todo : SUBSET [id : Messages, attempts : Nat], pc : Pcs]]]
      /\ group' = [group EXCEPT ![r][c] = [todo |-> group[r][c].todo \ {t}, pc |-> "load"]]
      /\ row \in [Messages -> [status : RowStatuses, attempts : Nat, due : BOOLEAN, received : Nat]]
  BY DEF InboundInv, TypeOK, Advance
<1>2. t.id \in Messages
  BY <1>1
<1>3. /\ row'[t.id].status = status /\ row'[t.id].attempts = row[t.id].attempts
      /\ \A m \in Messages \ {t.id} : row'[m] = row[m]
      /\ row' \in [Messages -> [status : RowStatuses, attempts : Nat, due : BOOLEAN, received : Nat]]
  BY <1>1, <1>2
<1>4. /\ group'[r][c].todo = group[r][c].todo \ {t}
      /\ \A s \in Replicas, d \in Chats : s # r \/ d # c => group'[s][d] = group[s][d]
      /\ group' \in [Replicas -> [Chats -> [todo : SUBSET [id : Messages, attempts : Nat], pc : Pcs]]]
  BY <1>1 DEF Pcs
<1>5. \A s \in Replicas, d \in Chats : group'[s][d].todo \subseteq group[s][d].todo
  <2> SUFFICES ASSUME NEW s \in Replicas, NEW d \in Chats
               PROVE  group'[s][d].todo \subseteq group[s][d].todo
    OBVIOUS
  <2>1. CASE s = r /\ d = c
    BY <1>4, <2>1
  <2>2. CASE s # r \/ d # c
    BY <1>4, <2>2
  <2> QED BY <2>1, <2>2
<1>6. \A s \in Replicas, d \in Chats : \A u \in group'[s][d].todo :
        u.id = t.id => u.id \in overrun
  <2> SUFFICES ASSUME NEW s \in Replicas, NEW d \in Chats, NEW u \in group'[s][d].todo,
                      u.id = t.id, u.id \notin overrun
               PROVE  FALSE
    OBVIOUS
  <2>1. u \in group[s][d].todo
    BY <1>5
  <2>2. s = r
    BY <2>1 DEF InboundInv
  <2>3. d = c
    <3>1. Recipient[u.id] = d
      BY <2>1 DEF InboundInv, TypeOK
    <3>2. Recipient[t.id] = c
      BY DEF InboundInv, TypeOK
    <3> QED BY <3>1, <3>2
  <2>4. u = t
    BY <2>1, <2>2, <2>3 DEF InboundInv
  <2> QED BY <1>4, <2>2, <2>3, <2>4
<1>7. \A s \in Replicas, d \in Chats : \A u \in group'[s][d].todo :
        u.id \notin overrun' => row'[u.id] = row[u.id]
  BY <1>3, <1>4, <1>6
<1>8. TypeOK'
  <2>1. \A s \in Replicas, d \in Chats : \A u \in group'[s][d].todo :
          Recipient[u.id] = d /\ row'[u.id].attempts > u.attempts
    <3>1. \A m \in Messages : row'[m].attempts = row[m].attempts
      BY <1>2, <1>3
    <3> QED BY <1>4, <1>5, <3>1 DEF InboundInv, TypeOK
  <2> QED BY <1>3, <1>4, <2>1 DEF InboundInv, TypeOK
<1>9. RetriesAreBounded' /\ \A m \in Messages : row'[m].status = "none" => row'[m].attempts = 0
  BY <1>2, <1>3 DEF InboundInv, RetriesAreBounded
<1>10. \A s \in Replicas : listed'[s] # {} => \A d \in Chats : group'[s][d].todo = {}
  BY <1>5 DEF InboundInv
<1> QED BY <1>5, <1>7, <1>8, <1>9, <1>10, HandsShrink

LEMMA WorkKeeps ==
  ASSUME InboundInv, NEW r \in Replicas, NEW c \in Chats, Work(r, c)
  PROVE  InboundInv'
<1>1. CASE LoadSession(r, c)
  BY <1>1, GoroutineStepKeeps DEF LoadSession, Pcs
<1>2. CASE Reply(r, c)
  BY <1>2, GoroutineStepKeeps DEF Reply, Pcs
<1>3. ASSUME NEW t \in group[r][c].todo, Complete(r, c, t)
      PROVE  InboundInv'
  <2>1. /\ row' = [row EXCEPT ![t.id] = [@ EXCEPT !.status = "processed", !.due = FALSE]]
        /\ Advance(r, c, t) /\ UNCHANGED <<listed, overrun>> /\ failures' \in 0 .. MaxFailures
    BY <1>3 DEF Complete, InboundInv, TypeOK
  <2>2. "processed" \in RowStatuses \ {"none"} /\ FALSE \in BOOLEAN
    BY DEF RowStatuses
  <2> QED BY <2>1, <2>2, AdvanceKeeps
<1>4. ASSUME NEW t \in group[r][c].todo, Retry(r, c, t)
      PROVE  InboundInv'
  <2> DEFINE status == IF Exhausted(t.attempts) THEN "failed" ELSE "pending"
  <2>1. /\ row' = [row EXCEPT ![t.id] = [@ EXCEPT !.status = status, !.due = FALSE]]
        /\ Advance(r, c, t) /\ UNCHANGED <<listed, overrun>> /\ failures' \in 0 .. MaxFailures
    BY <1>4 DEF Retry, InboundInv, TypeOK
  <2>2. status \in RowStatuses \ {"none"} /\ FALSE \in BOOLEAN
    BY DEF RowStatuses
  <2>3. t.id \notin overrun =>
          /\ status = "pending" => row[t.id].attempts < MaxAttempts
          /\ status = "failed" => row[t.id].attempts >= MaxAttempts
    <3>1. t.attempts \in Nat /\ (t.id \notin overrun => row[t.id].attempts = t.attempts + 1)
      BY DEF InboundInv, TypeOK, Known
    <3> QED BY <3>1, QueueAssumption DEF Exhausted
  <2> HIDE DEF status
  <2> QED BY <2>1, <2>2, <2>3, AdvanceKeeps
<1> QED BY <1>1, <1>2, <1>3, <1>4 DEF Work

LEMMA UpdateFailsKeeps ==
  ASSUME InboundInv, NEW r \in Replicas, NEW c \in Chats, NEW t \in group[r][c].todo,
         UpdateFails(r, c, t)
  PROVE  InboundInv'
<1>1. /\ row \in [Messages -> [status : RowStatuses, attempts : Nat, due : BOOLEAN, received : Nat]]
      /\ t.id \in Messages /\ row' = row /\ failures \in 0 .. MaxFailures
      /\ Advance(r, c, t) /\ UNCHANGED <<listed, overrun>>
      /\ failures < MaxFailures /\ failures' = failures + 1
  BY DEF UpdateFails, InboundInv, TypeOK
<1>2. failures' \in 0 .. MaxFailures
  BY <1>1, QueueAssumption
<1> DEFINE was == row[t.id]
<1>3. /\ was.status \in RowStatuses \ {"none"} /\ was.due \in BOOLEAN
      /\ row' = [row EXCEPT ![t.id] = [@ EXCEPT !.status = was.status, !.due = was.due]]
  <2>1. row[t.id].status # "none"
    BY NewIsFree, <1>1
  <2>2. row[t.id] = [row[t.id] EXCEPT !.status = row[t.id].status, !.due = row[t.id].due]
    BY <1>1
  <2> QED BY <1>1, <2>1, <2>2
<1>4. t.id \notin overrun =>
        /\ was.status = "pending" => row[t.id].attempts < MaxAttempts
        /\ was.status = "failed" => row[t.id].attempts >= MaxAttempts
  BY <1>1 DEF InboundInv, RetriesAreBounded
<1>5. PICK status \in RowStatuses \ {"none"} : status = was.status
  BY <1>3
<1>6. PICK due \in BOOLEAN : due = was.due
  BY <1>3
<1>7. /\ row' = [row EXCEPT ![t.id] = [@ EXCEPT !.status = status, !.due = due]]
      /\ t.id \notin overrun =>
           /\ status = "pending" => row[t.id].attempts < MaxAttempts
           /\ status = "failed" => row[t.id].attempts >= MaxAttempts
  BY <1>3, <1>4, <1>5, <1>6
<1> HIDE DEF was
<1> QED BY <1>1, <1>2, <1>7, AdvanceKeeps

LEMMA CrashKeeps ==
  ASSUME InboundInv, NEW r \in Replicas, Crash(r)
  PROVE  InboundInv'
<1>1. /\ UNCHANGED <<row, overrun>> /\ failures' = failures + 1 /\ failures < MaxFailures
      /\ listed' = [listed EXCEPT ![r] = {}]
      /\ group' = [group EXCEPT ![r] = [c \in Chats |-> NoGroup]]
  BY DEF Crash
<1>2. TypeOK
  BY DEF InboundInv
<1>3. /\ \A s \in Replicas \ {r} : group'[s] = group[s] /\ listed'[s] = listed[s]
      /\ \A c \in Chats : group'[r][c].todo = {}
      /\ listed'[r] = {}
  BY <1>1, <1>2 DEF TypeOK, NoGroup
<1>4. \A s \in Replicas, c \in Chats : group'[s][c].todo \subseteq group[s][c].todo
  BY <1>3
<1>5. TypeOK'
  <2>1. [c \in Chats |-> NoGroup] \in [Chats -> [todo : SUBSET [id : Messages, attempts : Nat], pc : Pcs]]
    BY DEF NoGroup, Pcs
  <2>2. group' \in [Replicas -> [Chats -> [todo : SUBSET [id : Messages, attempts : Nat], pc : Pcs]]]
    BY <1>1, <1>2, <2>1 DEF TypeOK
  <2>3. listed' \in [Replicas -> SUBSET Chats] /\ failures' \in 0 .. MaxFailures
    BY <1>1, <1>2, QueueAssumption DEF TypeOK
  <2> QED BY <1>1, <1>2, <1>4, <2>2, <2>3 DEF TypeOK
<1>6. RetriesAreBounded' /\ \A m \in Messages : row'[m].status = "none" => row'[m].attempts = 0
  BY <1>1 DEF InboundInv, RetriesAreBounded
<1>7. \A s \in Replicas : listed'[s] # {} => \A c \in Chats : group'[s][c].todo = {}
  BY <1>3 DEF InboundInv
<1> QED BY <1>1, <1>4, <1>5, <1>6, <1>7, HandsShrink

\* A lease that ends under a running handler is counted as an overrun.
LEMMA ElapseKeeps ==
  ASSUME InboundInv, NEW m \in Messages, Elapse(m)
  PROVE  InboundInv'
<1>1. /\ row \in [Messages -> [status : RowStatuses, attempts : Nat, due : BOOLEAN, received : Nat]]
      /\ row' = [row EXCEPT ![m].due = TRUE] /\ UNCHANGED <<listed, group, failures>>
      /\ overrun \subseteq overrun' /\ overrun' \subseteq overrun \cup {m}
  BY DEF Elapse, InboundInv, TypeOK
<1>2. /\ \A n \in Messages \ {m} : row'[n] = row[n]
      /\ row'[m].status = row[m].status /\ row'[m].attempts = row[m].attempts
      /\ row' \in [Messages -> [status : RowStatuses, attempts : Nat, due : BOOLEAN, received : Nat]]
  BY <1>1
<1>3. \A r \in Replicas, c \in Chats : \A t \in group'[r][c].todo :
        t.id \notin overrun' => row'[t.id] = row[t.id]
  <2> SUFFICES ASSUME NEW r \in Replicas, NEW c \in Chats, NEW t \in group[r][c].todo,
                      t.id = m, m \notin overrun'
               PROVE  FALSE
    BY <1>1, <1>2 DEF InboundInv, TypeOK
  <2>1. m \in Held(r)
    BY DEF Held
  <2>2. row[m].status = "processing"
    BY <1>1 DEF InboundInv, Known
  <2> QED BY <2>1, <2>2 DEF Elapse
<1>4. TypeOK'
  <2>1. \A n \in Messages : row'[n].attempts = row[n].attempts
    BY <1>2
  <2>2. \A r \in Replicas, c \in Chats : \A t \in group[r][c].todo : t.id \in Messages
    BY DEF InboundInv, TypeOK
  <2> QED BY <1>1, <1>2, <2>1, <2>2 DEF InboundInv, TypeOK
<1>5. RetriesAreBounded' /\ \A n \in Messages : row'[n].status = "none" => row'[n].attempts = 0
  BY <1>1, <1>2 DEF InboundInv, RetriesAreBounded
<1>6. \A r \in Replicas : listed'[r] # {} => \A c \in Chats : group'[r][c].todo = {}
  BY <1>1 DEF InboundInv
<1> QED BY <1>1, <1>3, <1>4, <1>5, <1>6, HandsShrink

LEMMA InboundStep == InboundInv /\ [Next]_vars => InboundInv'
<1> SUFFICES ASSUME InboundInv, [Next]_vars PROVE InboundInv'
  OBVIOUS
<1>1. CASE UNCHANGED vars
  <2>1. /\ row' = row /\ listed' = listed /\ group' = group /\ overrun' = overrun /\ failures' = failures
    BY <1>1 DEF vars
  <2>2. TypeOK'
    BY <2>1 DEF InboundInv, TypeOK
  <2>3. RetriesAreBounded' /\ \A m \in Messages : row'[m].status = "none" => row'[m].attempts = 0
    BY <2>1 DEF InboundInv, RetriesAreBounded
  <2>4. \A r \in Replicas : listed'[r] # {} => \A c \in Chats : group'[r][c].todo = {}
    BY <2>1 DEF InboundInv
  <2> QED BY <2>1, <2>2, <2>3, <2>4, HandsShrink
<1>2. ASSUME NEW m \in Messages, EnqueueInboundMessage(m) \/ Elapse(m)
      PROVE  InboundInv'
  BY <1>2, EnqueueKeeps, ElapseKeeps
<1>3. ASSUME NEW r \in Replicas, ListDue(r) \/ ClaimDue(r) \/ Crash(r)
      PROVE  InboundInv'
  BY <1>3, ListKeeps, ClaimKeeps, CrashKeeps
<1>4. ASSUME NEW r \in Replicas, NEW c \in Chats,
             Work(r, c) \/ \E t \in group[r][c].todo : UpdateFails(r, c, t)
      PROVE  InboundInv'
  BY <1>4, WorkKeeps, UpdateFailsKeeps
<1> QED BY <1>1, <1>2, <1>3, <1>4 DEF Next

\* No goroutine that comes late opens a finished row again: a row is written by
\* the one that holds it, and a held row is leased.
LEMMA FinishedStep ==
  ASSUME InboundInv, Next, NEW m \in Messages \ overrun, row[m].status \in {"processed", "failed"}
  PROVE  row'[m].status = row[m].status
<1> DEFINE Same == row'[m].status = row[m].status
<1>1. row \in [Messages -> [status : RowStatuses, attempts : Nat, due : BOOLEAN, received : Nat]]
  BY DEF InboundInv, TypeOK
<1>2. \A r \in Replicas, c \in Chats : \A t \in group[r][c].todo : t.id # m /\ t.id \in Messages
  BY DEF InboundInv, TypeOK, Known
<1>3. ASSUME NEW n \in Messages, EnqueueInboundMessage(n) \/ Elapse(n)
      PROVE  Same
  <2>1. CASE EnqueueInboundMessage(n)
    <3>1. n # m /\ \A o \in Messages \ {n} : row'[o] = row[o]
      BY <1>1, <2>1 DEF EnqueueInboundMessage
    <3> QED BY <3>1
  <2>2. CASE Elapse(n)
    BY <1>1, <2>2 DEF Elapse
  <2> QED BY <1>3, <2>1, <2>2
<1>4. ASSUME NEW r \in Replicas, ListDue(r) \/ ClaimDue(r) \/ Crash(r)
      PROVE  Same
  <2>1. CASE ListDue(r) \/ Crash(r)
    BY <2>1 DEF ListDue, Crash
  <2>2. CASE ClaimDue(r)
    BY <2>2 DEF ClaimDue, Batch, Due
  <2> QED BY <1>4, <2>1, <2>2
<1>5. ASSUME NEW r \in Replicas, NEW c \in Chats,
             Work(r, c) \/ \E t \in group[r][c].todo : UpdateFails(r, c, t)
      PROVE  Same
  <2>1. CASE LoadSession(r, c) \/ Reply(r, c) \/ \E t \in group[r][c].todo : UpdateFails(r, c, t)
    BY <2>1 DEF LoadSession, Reply, UpdateFails
  <2>2. ASSUME NEW t \in group[r][c].todo, Complete(r, c, t) \/ Retry(r, c, t)
        PROVE  Same
    <3>1. \A n \in Messages \ {t.id} : row'[n] = row[n]
      BY <1>1, <2>2 DEF Complete, Retry
    <3> QED BY <1>2, <3>1
  <2> QED BY <1>5, <2>1, <2>2 DEF Work
<1> QED BY <1>3, <1>4, <1>5 DEF Next

\* A message is in the hands of one replica, whatever claims overlap and whoever
\* died, for any number of replicas, conversations and messages.
THEOREM InboundHeldOnce == Spec => []HeldOnce
<1>1. Init => InboundInv
  BY InboundStart
<1>2. InboundInv /\ [Next]_vars => InboundInv'
  BY InboundStep
<1>3. InboundInv => HeldOnce
  BY InboundGivesHeldOnce
<1> QED BY <1>1, <1>2, <1>3, PTL DEF Spec

\* A finished message is never opened again (RetryInboundMessage and
\* CompleteInboundMessage write by id, whatever the row says).
THEOREM InboundFinishedStays == Spec => FinishedStays
<1>1. Init => InboundInv
  BY InboundStart
<1>2. InboundInv /\ [Next]_vars => InboundInv'
  BY InboundStep
<1> DEFINE Stays == \A m \in Messages \ overrun :
             row[m].status \in {"processed", "failed"} => row'[m].status = row[m].status
<1>3. InboundInv /\ [Next]_vars => [Stays]_vars
  BY FinishedStep DEF vars
<1> QED BY <1>1, <1>2, <1>3, PTL DEF Spec, FinishedStays

\* A message that waits has attempts left and one that was given up has used them.
THEOREM InboundRetriesAreBounded == Spec => []RetriesAreBounded
<1>1. Init => InboundInv
  BY InboundStart
<1>2. InboundInv /\ [Next]_vars => InboundInv'
  BY InboundStep
<1>3. InboundInv => RetriesAreBounded
  BY DEF InboundInv
<1> QED BY <1>1, <1>2, <1>3, PTL DEF Spec

-----------------------------------------------------------------------------
(* The event bus.  The slot of a payment is claimed before the send, and   *)
(* the claim is what a second delivery of the record finds: a notice is    *)
(* out only for a payment whose slot is claimed and in nobody's hands any  *)
(* more, and only a payment that succeeded has a claimed slot.             *)

Links == [status : {"open", "paid", "expired"}, payment : Attempts \cup {Nobody}]
Facts == {"none", "draft", "linked", "succeeded", "failed"}

BusInv ==
  /\ fact \in [Attempts -> Facts]
  /\ link \in Links
  /\ link.status = "paid" => \E p \in Attempts : fact[p] = "succeeded"
  /\ batch \in [Processes -> [id : Attempts, attempts : Nat, out : BOOLEAN] \cup {NoEvent}]
  /\ event \in [Attempts -> Row]
  /\ log \in [Processes -> Seq(Attempts)]
  /\ slot \in [Processes -> Attempts \cup {Nobody}]
  /\ offset \in [Processes -> [Groups -> Nat]]
  /\ handled \in [Processes -> [Groups -> SUBSET Nat]]
  /\ \A w \in Processes, g \in Groups : handled[w][g] = 1 .. offset[w][g]
  /\ notified \subseteq Attempts
  /\ notices \in [Attempts -> Nat]
  /\ \A p \in notified : fact[p] = "succeeded"
  /\ \A p \in Attempts : notices[p] <= 1 /\ (notices[p] = 1 => p \in notified)
  /\ \A w \in Processes : slot[w] # Nobody => slot[w] \in notified /\ notices[slot[w]] = 0
  /\ \A v, w \in Processes : slot[v] = slot[w] /\ slot[v] # Nobody => v = w

LEMMA BusInvIsFaithful == BusInv => BusIsFaithful
<1> SUFFICES ASSUME BusInv PROVE BusIsFaithful
  OBVIOUS
<1>1. NotifiedOnce
  BY DEF BusInv, NotifiedOnce
<1>2. NothingPassedOver /\ PaidLinkIsPaid
  BY DEF BusInv, NothingPassedOver, PaidLinkIsPaid
<1> QED BY <1>1, <1>2 DEF BusIsFaithful

LEMMA BusStart == BusInit => BusInv
<1> SUFFICES ASSUME BusInit PROVE BusInv
  OBVIOUS
<1>1. NoRow \in Row
  BY DEF NoRow, Row, RowStatus
<1>2. \A w \in Processes, g \in Groups : handled[w][g] = 1 .. offset[w][g]
  BY DEF BusInit
<1> QED BY <1>1, <1>2 DEF BusInit, BusInv, Facts, Links, NoEvent

\* The rows a worker writes.
LEMMA RowsAreRows ==
  ASSUME NEW row0 \in Row, NEW read \in Nat
  PROVE  /\ Queued \in Row /\ Claimed(row0) \in Row /\ Completed(row0) \in Row
         /\ Retried(row0, read) \in Row /\ Replayed(row0) \in Row /\ Elapsed(row0) \in Row
<1>1. Queued \in Row /\ Replayed(row0) \in Row
  BY DEF Row, RowStatus, Queued, Replayed
<1>2. Claimed(row0) \in Row /\ Elapsed(row0) \in Row
  BY DEF Row, RowStatus, Claimed, Elapsed
<1>3. Completed(row0) \in Row
  <2>1. Completed(row0) = [status |-> "done", attempts |-> row0.attempts + 1, due |-> FALSE]
    BY DEF Row, Completed
  <2>2. row0.attempts + 1 \in Nat
    BY DEF Row
  <2> QED BY <2>1, <2>2 DEF Row, RowStatus
<1>4. Retried(row0, read) \in Row
  <2>1. CASE read + 1 >= MaxTries
    BY <2>1 DEF Row, RowStatus, Retried
  <2>2. CASE ~(read + 1 >= MaxTries)
    BY <2>2 DEF Row, RowStatus, Retried
  <2> QED BY <2>1, <2>2
<1> QED BY <1>1, <1>2, <1>3, <1>4

\* A step that leaves the log and the notices alone keeps the invariant when it
\* keeps a payment's success and pays a link for one only.
LEMMA QuietStep ==
  ASSUME BusInv, UNCHANGED <<log, offset, slot, handled, notified, notices>>,
         fact' \in [Attempts -> Facts], event' \in [Attempts -> Row],
         batch' \in [Processes -> [id : Attempts, attempts : Nat, out : BOOLEAN] \cup {NoEvent}],
         \A p \in Attempts : fact[p] = "succeeded" => fact'[p] = "succeeded",
         link' \in Links, link'.status = "paid" => \E p \in Attempts : fact'[p] = "succeeded"
  PROVE  BusInv'
BY DEF BusInv

LEMMA CustomersKeep ==
  ASSUME BusInv, Customers
  PROVE  BusInv'
<1>1. /\ fact \in [Attempts -> Facts] /\ event \in [Attempts -> Row] /\ link \in Links
      /\ link.status = "paid" => \E p \in Attempts : fact[p] = "succeeded"
      /\ batch \in [Processes -> [id : Attempts, attempts : Nat, out : BOOLEAN] \cup {NoEvent}]
  BY DEF BusInv
<1>2. ASSUME NEW p \in Attempts, ResolveCheckout(p)
      PROVE  BusInv'
  <2>1. /\ fact' = [fact EXCEPT ![p] = "draft"] /\ fact[p] = "none" /\ UNCHANGED <<link, event, batch>>
        /\ UNCHANGED <<log, offset, slot, handled, notified, notices>>
    BY <1>2 DEF ResolveCheckout, busRest, noticeRest
  <2>2. /\ fact' \in [Attempts -> Facts]
        /\ \A q \in Attempts : fact[q] = "succeeded" => fact'[q] = "succeeded"
    BY <1>1, <2>1 DEF Facts
  <2> QED BY <1>1, <2>1, <2>2, QuietStep
<1>3. ASSUME NEW p \in Attempts, LinkCheckoutPayment(p)
      PROVE  BusInv'
  <2>1. /\ fact' = [fact EXCEPT ![p] = "linked"] /\ fact[p] = "draft" /\ UNCHANGED <<event, batch>>
        /\ UNCHANGED <<log, offset, slot, handled, notified, notices>>
        /\ link' = [link EXCEPT !.payment = p]
    BY <1>3 DEF LinkCheckoutPayment, busRest, noticeRest
  <2>2. /\ fact' \in [Attempts -> Facts] /\ (link'.status = "paid" => link.status = "paid")
        /\ \A q \in Attempts : fact[q] = "succeeded" => fact'[q] = "succeeded"
        /\ link' \in Links
    BY <1>1, <2>1 DEF Facts, Links
  <2> QED BY <1>1, <2>1, <2>2, QuietStep
<1>4. ASSUME NEW p \in Attempts, NEW to \in {"succeeded", "failed"}, ResolvePayment(p, to)
      PROVE  BusInv'
  <2>1. /\ fact' = [fact EXCEPT ![p] = to] /\ fact[p] = "linked" /\ UNCHANGED <<link, batch>>
        /\ UNCHANGED <<log, offset, slot, handled, notified, notices>>
        /\ event' = [event EXCEPT ![p] = Queued]
    BY <1>4 DEF ResolvePayment, busRest, noticeRest
  <2>2. /\ fact' \in [Attempts -> Facts]
        /\ \A q \in Attempts : fact[q] = "succeeded" => fact'[q] = "succeeded"
    BY <1>1, <2>1 DEF Facts
  <2>3. event' \in [Attempts -> Row]
    BY <1>1, <2>1 DEF Queued, Row, RowStatus
  <2> QED BY <1>1, <2>1, <2>2, <2>3, QuietStep
<1>5. CASE ExpireCheckouts
  <2>1. /\ link' = [link EXCEPT !.status = "expired"] /\ UNCHANGED <<fact, event, batch>>
        /\ UNCHANGED <<log, offset, slot, handled, notified, notices>>
        /\ link.status = "open"
    BY <1>5 DEF ExpireCheckouts, busRest, noticeRest
  <2>2. link'.status # "paid" /\ link' \in Links
    BY <1>1, <2>1 DEF Links
  <2> QED BY <1>1, <2>1, <2>2, QuietStep
<1> QED BY <1>2, <1>3, <1>4, <1>5 DEF Customers

LEMMA PublisherKeeps ==
  ASSUME BusInv, NEW w \in Processes,
         DrainEvents(w) \/ RetryBusinessEvent(w)
  PROVE  BusInv'
<1> DEFINE Batches == [id : Attempts, attempts : Nat, out : BOOLEAN]
<1>1. /\ fact \in [Attempts -> Facts] /\ event \in [Attempts -> Row] /\ link \in Links
      /\ link.status = "paid" => \E p \in Attempts : fact[p] = "succeeded"
      /\ batch \in [Processes -> Batches \cup {NoEvent}]
  BY DEF BusInv
<1>2. [w0 \in Processes |-> NoEvent][w] = NoEvent
  OBVIOUS
<1>3. ASSUME NEW p \in Attempts, ClaimBusinessEvents(w, p)
      PROVE  BusInv'
  <2>1. /\ event' = [event EXCEPT ![p] = Claimed(@)]
        /\ batch' = [batch EXCEPT ![w] = [id |-> p, attempts |-> event[p].attempts, out |-> FALSE]]
        /\ UNCHANGED <<fact, link, log, offset, slot, handled, notified, notices>>
    BY <1>3 DEF ClaimBusinessEvents, busRest, noticeRest
  <2>2. event[p].attempts \in Nat /\ Claimed(event[p]) \in Row
    <3>1. event[p] \in Row
      BY <1>1
    <3> QED BY <3>1 DEF Claimed, Row, RowStatus
  <2>3. event' \in [Attempts -> Row] /\ batch' \in [Processes -> Batches \cup {NoEvent}]
    BY <1>1, <2>1, <2>2
  <2> QED BY <1>1, <2>1, <2>3, QuietStep
<1>4. ASSUME batch[w] # NoEvent
      PROVE  batch[w].id \in Attempts /\ batch[w].attempts \in Nat /\ batch[w] \in Batches
  BY <1>1, <1>4
<1>5. CASE Publish(w)
  <2>1. /\ batch[w] # NoEvent /\ log' = [log EXCEPT ![w] = Append(@, batch[w].id)]
        /\ batch' = [batch EXCEPT ![w].out = TRUE]
        /\ UNCHANGED <<fact, link, event, offset, slot, handled, notified, notices>>
    BY <1>5 DEF Publish, noticeRest
  <2>2. batch' \in [Processes -> Batches \cup {NoEvent}]
    BY <1>1, <1>4, <2>1
  <2>3. log' \in [Processes -> Seq(Attempts)]
    BY <1>4, <2>1 DEF BusInv
  <2> QED BY <2>1, <2>2, <2>3 DEF BusInv
<1>6. CASE CompleteBusinessEvent(w)
  <2>1. /\ batch[w] # NoEvent /\ batch' = [batch EXCEPT ![w] = NoEvent]
        /\ event' = [event EXCEPT ![batch[w].id] = Completed(@)] \/ UNCHANGED event
        /\ UNCHANGED <<fact, link, log, offset, slot, handled, notified, notices>>
    BY <1>6 DEF CompleteBusinessEvent, busRest, noticeRest
  <2>2. batch' \in [Processes -> Batches \cup {NoEvent}]
    BY <1>1, <2>1
  <2>3. event' \in [Attempts -> Row]
    <3>1. Completed(event[batch[w].id]) \in Row
      <4>1. event[batch[w].id] \in Row
        BY <1>1, <1>4, <2>1
      <4> QED BY <4>1, RowsAreRows
    <3> QED BY <1>1, <2>1, <3>1
  <2> QED BY <1>1, <2>1, <2>2, <2>3, QuietStep
<1>7. CASE RetryBusinessEvent(w)
  <2>1. /\ batch[w] # NoEvent /\ batch' = [batch EXCEPT ![w] = NoEvent]
        /\ event' = [event EXCEPT ![batch[w].id] = Retried(@, batch[w].attempts)]
        /\ UNCHANGED <<fact, link, log, offset, slot, handled, notified, notices>>
    BY <1>7 DEF RetryBusinessEvent, busRest, noticeRest
  <2>2. batch' \in [Processes -> Batches \cup {NoEvent}]
    BY <1>1, <2>1
  <2>3. event' \in [Attempts -> Row]
    <3>1. event[batch[w].id] \in Row /\ batch[w].attempts \in Nat
      BY <1>1, <1>4, <2>1
    <3>2. Retried(event[batch[w].id], batch[w].attempts) \in Row
      BY <3>1, RowsAreRows
    <3> QED BY <1>1, <2>1, <3>2
  <2> QED BY <1>1, <2>1, <2>2, <2>3, QuietStep
<1> QED BY <1>3, <1>5, <1>6, <1>7 DEF DrainEvents

\* Every step of a consumer moves its offset over the record it handled.
LEMMA CommitKeeps ==
  ASSUME BusInv, NEW w \in Processes, NEW g \in Groups, Commit(w, g)
  PROVE  /\ offset' \in [Processes -> [Groups -> Nat]]
         /\ handled' \in [Processes -> [Groups -> SUBSET Nat]]
         /\ \A v \in Processes, h \in Groups : handled'[v][h] = 1 .. offset'[v][h]
<1>1. /\ offset \in [Processes -> [Groups -> Nat]]
      /\ handled \in [Processes -> [Groups -> SUBSET Nat]]
      /\ \A v \in Processes, h \in Groups : handled[v][h] = 1 .. offset[v][h]
      /\ offset' = [offset EXCEPT ![w][g] = @ + 1]
      /\ handled' = [handled EXCEPT ![w][g] = @ \cup {offset[w][g] + 1}]
  BY DEF BusInv, Commit
<1>2. /\ offset' \in [Processes -> [Groups -> Nat]]
      /\ offset'[w][g] = offset[w][g] + 1
      /\ \A v \in Processes, h \in Groups : v # w \/ h # g => offset'[v][h] = offset[v][h]
  BY <1>1
<1>3. /\ handled' \in [Processes -> [Groups -> SUBSET Nat]]
      /\ handled'[w][g] = handled[w][g] \cup {offset[w][g] + 1}
      /\ \A v \in Processes, h \in Groups : v # w \/ h # g => handled'[v][h] = handled[v][h]
  BY <1>1
<1>4. handled'[w][g] = 1 .. offset'[w][g]
  <2>1. handled[w][g] = 1 .. offset[w][g] /\ offset[w][g] \in Nat
    BY <1>1
  <2> QED BY <1>2, <1>3, <2>1
<1>5. ASSUME NEW v \in Processes, NEW h \in Groups
      PROVE  handled'[v][h] = 1 .. offset'[v][h]
  <2>1. CASE v = w /\ h = g
    BY <1>4, <2>1
  <2>2. CASE v # w \/ h # g
    BY <1>1, <1>2, <1>3, <2>2
  <2> QED BY <2>1, <2>2
<1> QED BY <1>2, <1>3, <1>5

LEMMA ConsumersKeep ==
  ASSUME BusInv, NEW w \in Processes,
         Consume(w) \/ \E g \in Groups : SkipRecord(w, g)
  PROVE  BusInv'
<1>1. "notifications" \in Groups /\ "webhooks" \in Groups
  BY DEF Groups
<1>2. ASSUME NEW g \in Groups, SkipRecord(w, g)
      PROVE  BusInv'
  <2>1. Commit(w, g) /\ UNCHANGED <<fact, link, event, batch, log, slot, notified, notices>>
    BY <1>2 DEF SkipRecord, noticeRest
  <2> QED BY <2>1, CommitKeeps DEF BusInv
<1>3. ASSUME NEW g \in Groups, HasNext(w, g)
      PROVE  NextRecord(w, g) \in Attempts
  <2>1. /\ log[w] \in Seq(Attempts) /\ offset[w][g] \in Nat /\ offset[w][g] < Len(log[w])
    BY <1>3 DEF BusInv, HasNext
  <2> QED BY <2>1 DEF NextRecord
<1>4. CASE ClaimMerchantNotification(w)
  <2> DEFINE p == NextRecord(w, "notifications")
  <2>1. /\ p \in Attempts /\ slot[w] = Nobody
        /\ UNCHANGED <<fact, link, event, batch, log, notices>>
    BY <1>1, <1>3, <1>4 DEF ClaimMerchantNotification
  <2>2. CASE fact[p] = "succeeded" /\ SlotFree(p)
    <3>1. /\ notified' = notified \cup {p} /\ slot' = [slot EXCEPT ![w] = p]
          /\ UNCHANGED <<offset, handled>>
      BY <1>4, <2>2 DEF ClaimMerchantNotification
    <3>2. p \notin notified /\ notices[p] = 0
      <4>1. p \notin notified
        BY <2>2 DEF SlotFree
      <4> QED BY <2>1, <4>1 DEF BusInv
    <3> HIDE DEF p
    <3>3. /\ slot' \in [Processes -> Attempts \cup {Nobody}] /\ slot'[w] = p
          /\ \A v \in Processes \ {w} : slot'[v] = slot[v]
      BY <2>1, <3>1 DEF BusInv
    <3>4. /\ \A v \in Processes : slot'[v] # Nobody => slot'[v] \in notified' /\ notices[slot'[v]] = 0
      BY <3>1, <3>2, <3>3 DEF BusInv
    <3>5. \A u, v \in Processes : slot'[u] = slot'[v] /\ slot'[u] # Nobody => u = v
      <4>1. \A v \in Processes \ {w} : slot[v] # p
        BY <2>1, <3>2, BusAssumption DEF BusInv
      <4>2. \A u, v \in Processes : slot[u] = slot[v] /\ slot[u] # Nobody => u = v
        BY DEF BusInv
      <4> QED BY <3>3, <4>1, <4>2
    <3>6. /\ notified' \subseteq Attempts /\ \A q \in notified' : fact[q] = "succeeded"
          /\ \A q \in Attempts : notices[q] <= 1 /\ (notices[q] = 1 => q \in notified')
      BY <2>1, <2>2, <3>1 DEF BusInv
    <3> QED BY <2>1, <3>1, <3>3, <3>4, <3>5, <3>6 DEF BusInv
  <2>3. CASE ~(fact[p] = "succeeded" /\ SlotFree(p))
    <3>1. Commit(w, "notifications") /\ UNCHANGED <<notified, slot>>
      BY <1>4, <2>3 DEF ClaimMerchantNotification
    <3> QED BY <1>1, <2>1, <3>1, CommitKeeps DEF BusInv
  <2> QED BY <2>2, <2>3
<1>5. CASE NotifyMerchantPayment(w)
  <2>1. /\ slot[w] # Nobody /\ slot' = [slot EXCEPT ![w] = Nobody] /\ Commit(w, "notifications")
        /\ UNCHANGED <<fact, link, event, batch, log, notified>>
        /\ notices' = [notices EXCEPT ![slot[w]] = @ + 1] \/ UNCHANGED notices
    BY <1>5 DEF NotifyMerchantPayment
  <2>2. /\ slot \in [Processes -> Attempts \cup {Nobody}] /\ notices \in [Attempts -> Nat]
        /\ slot[w] \in notified /\ slot[w] \in Attempts /\ notices[slot[w]] = 0
    BY <2>1 DEF BusInv
  <2>3. /\ slot' \in [Processes -> Attempts \cup {Nobody}] /\ slot'[w] = Nobody
        /\ \A v \in Processes \ {w} : slot'[v] = slot[v] /\ (slot[v] # Nobody => slot[v] # slot[w])
    BY <2>1, <2>2 DEF BusInv
  <2>4. /\ notices' \in [Attempts -> Nat] /\ notices'[slot[w]] <= 1
        /\ \A q \in Attempts \ {slot[w]} : notices'[q] = notices[q]
    BY <2>1, <2>2
  <2>5. \A q \in Attempts : notices'[q] <= 1 /\ (notices'[q] = 1 => q \in notified)
    BY <2>2, <2>4 DEF BusInv
  <2>6. \A v \in Processes : slot'[v] # Nobody => slot'[v] \in notified /\ notices'[slot'[v]] = 0
    BY <2>3, <2>4 DEF BusInv
  <2>7. \A u, v \in Processes : slot'[u] = slot'[v] /\ slot'[u] # Nobody => u = v
    <3>1. \A u, v \in Processes : slot[u] = slot[v] /\ slot[u] # Nobody => u = v
      BY DEF BusInv
    <3>2. \A v \in Processes : slot'[v] # Nobody => slot'[v] = slot[v]
      BY <2>3
    <3> QED BY <3>1, <3>2
  <2> QED BY <1>1, <2>1, <2>3, <2>4, <2>5, <2>6, <2>7, CommitKeeps DEF BusInv
<1>6. CASE EnqueueMerchantWebhook(w)
  <2> DEFINE p == NextRecord(w, "webhooks")
  <2>1. /\ p \in Attempts /\ Commit(w, "webhooks")
        /\ UNCHANGED <<fact, event, batch, log, slot, notified, notices>>
        /\ link' = IF fact[p] = "succeeded" /\ Attached(p) THEN [link EXCEPT !.status = "paid"] ELSE link
    BY <1>1, <1>3, <1>6 DEF EnqueueMerchantWebhook, noticeRest
  <2> HIDE DEF p
  <2>2. link' \in Links /\ (link'.status = "paid" => \E q \in Attempts : fact[q] = "succeeded")
    BY <2>1 DEF BusInv, Links
  <2> QED BY <1>1, <2>1, <2>2, CommitKeeps DEF BusInv
<1> QED BY <1>2, <1>4, <1>5, <1>6 DEF Consume

LEMMA DeliverersKeep ==
  ASSUME BusInv, NEW w \in Processes, DeliverDue(w)
  PROVE  BusInv'
<1>1. UNCHANGED <<fact, link, event, batch, log, offset, slot, handled, notified, notices>>
  BY DEF DeliverDue, ClaimMerchantWebhooks, Deliver, busRest, noticeRest
<1> QED BY <1>1, QuietStep DEF BusInv

LEMMA BusCrashKeeps ==
  ASSUME BusInv, NEW w \in Processes, BusCrash(w)
  PROVE  BusInv'
<1>1. /\ batch' = [batch EXCEPT ![w] = NoEvent] /\ log' = [log EXCEPT ![w] = <<>>]
      /\ offset' = [offset EXCEPT ![w] = [g \in Groups |-> 0]]
      /\ slot' = [slot EXCEPT ![w] = Nobody]
      /\ handled' = [handled EXCEPT ![w] = [g \in Groups |-> {}]]
      /\ UNCHANGED <<fact, link, event, notified, notices>>
  BY DEF BusCrash, noticeRest
<1>2. /\ log' \in [Processes -> Seq(Attempts)] /\ slot' \in [Processes -> Attempts \cup {Nobody}]
      /\ batch' \in [Processes -> [id : Attempts, attempts : Nat, out : BOOLEAN] \cup {NoEvent}]
  BY <1>1 DEF BusInv
<1>3. /\ offset' \in [Processes -> [Groups -> Nat]]
      /\ handled' \in [Processes -> [Groups -> SUBSET Nat]]
  BY <1>1 DEF BusInv
<1>4. \A v \in Processes, g \in Groups : handled'[v][g] = 1 .. offset'[v][g]
  <2> SUFFICES ASSUME NEW v \in Processes, NEW g \in Groups PROVE handled'[v][g] = 1 .. offset'[v][g]
    OBVIOUS
  <2>1. CASE v = w
    <3>1. handled'[v][g] = {} /\ offset'[v][g] = 0
      BY <1>1, <2>1 DEF BusInv
    <3> QED BY <3>1
  <2>2. CASE v # w
    BY <1>1, <2>2 DEF BusInv
  <2> QED BY <2>1, <2>2
<1>5. \A v \in Processes : slot'[v] # Nobody => slot'[v] = slot[v]
  BY <1>1 DEF BusInv
<1>6. /\ \A v \in Processes : slot'[v] # Nobody => slot'[v] \in notified /\ notices[slot'[v]] = 0
      /\ \A u, v \in Processes : slot'[u] = slot'[v] /\ slot'[u] # Nobody => u = v
  BY <1>5 DEF BusInv
<1> QED BY <1>1, <1>2, <1>3, <1>4, <1>6 DEF BusInv

LEMMA RowsElapse ==
  ASSUME BusInv, NEW p \in Attempts,
         ReplayBusinessEvent(p) \/ EventElapse(p) \/ DeliveryElapse(p)
  PROVE  BusInv'
<1>1. /\ UNCHANGED <<fact, link, batch, log, offset, slot, handled, notified, notices>>
      /\ \/ event' = [event EXCEPT ![p] = Replayed(@)] \/ event' = [event EXCEPT ![p] = Elapsed(@)]
         \/ UNCHANGED event
  BY DEF ReplayBusinessEvent, EventElapse, DeliveryElapse, busRest, noticeRest
<1>2. event \in [Attempts -> Row] /\ Replayed(event[p]) \in Row /\ Elapsed(event[p]) \in Row
  <2>1. event \in [Attempts -> Row] /\ event[p] \in Row
    BY DEF BusInv
  <2> QED BY <2>1 DEF Replayed, Elapsed, Queued, Row, RowStatus
<1>3. event' \in [Attempts -> Row]
  BY <1>1, <1>2
<1> QED BY <1>1, <1>3, QuietStep DEF BusInv

LEMMA BusStep == BusInv /\ [BusNext]_eventVars => BusInv'
<1> SUFFICES ASSUME BusInv, [BusNext]_eventVars PROVE BusInv'
  OBVIOUS
<1>1. CASE UNCHANGED eventVars
  <2>1. UNCHANGED <<fact, link, event, batch, log, offset, slot, handled, notified, notices>>
    BY <1>1 DEF eventVars
  <2> QED BY <2>1, QuietStep DEF BusInv
<1>2. CASE Customers
  BY <1>2, CustomersKeep
<1>3. ASSUME NEW w \in Processes, DrainEvents(w) \/ Consume(w) \/ DeliverDue(w)
      PROVE  BusInv'
  BY <1>3, PublisherKeeps, ConsumersKeep, DeliverersKeep
<1>4. ASSUME NEW w \in Processes, RetryBusinessEvent(w) \/ BusCrash(w)
      PROVE  BusInv'
  BY <1>4, PublisherKeeps, BusCrashKeeps
<1>5. ASSUME NEW w \in Processes, NEW g \in Groups, SkipRecord(w, g)
      PROVE  BusInv'
  BY <1>5, ConsumersKeep
<1>6. ASSUME NEW p \in Attempts, ReplayBusinessEvent(p) \/ EventElapse(p) \/ DeliveryElapse(p)
      PROVE  BusInv'
  BY <1>6, RowsElapse
<1> QED BY <1>1, <1>2, <1>3, <1>4, <1>5, <1>6 DEF BusNext

-----------------------------------------------------------------------------
(* The outbox.  Every send is owed: to the message itself, once, or to a   *)
(* fault.  What is still owed is seen in the row, which may be claimed     *)
(* (RowCredit), and in the workers about to send or to ask for a retry     *)
(* (Hot): what was sent and what is owed never exceed one and the faults.  *)

Hot(m) == {s \in Senders : job[s].id = m /\ job[s].pc \in {"send", "retry"}}

\* The row asks for a send without a further fault.
Asks(m) ==
  \/ text[m].status \in {"none", "pending"}
  \/ text[m].status = "leased" /\ (text[m].due \/ ~InHands(m))
RowCredit(m) == IF Asks(m) THEN 1 ELSE 0

\* What was sent and may be sent, less the faults that would excuse it.
Owed(m) == sends[m] + RowCredit(m) - outboxFaults

OutboxInv ==
  /\ OutboxTypeOK
  /\ \A m \in Texts : Owed(m) + Cardinality(Hot(m)) <= 1

\* Two sets that differ in one element at most.
LEMMA OneMoves ==
  ASSUME NEW A, NEW B, NEW s, IsFiniteSet(A), A \ {s} = B \ {s}
  PROVE  /\ IsFiniteSet(B) /\ Cardinality(A) \in Nat /\ Cardinality(B) \in Nat
         /\ (s \in A <=> s \in B) => Cardinality(B) = Cardinality(A)
         /\ s \in A /\ s \notin B => Cardinality(B) = Cardinality(A) - 1
         /\ s \notin A /\ s \in B => Cardinality(B) = Cardinality(A) + 1
<1> DEFINE C == A \ {s}
<1>1. IsFiniteSet(C) /\ Cardinality(C) \in Nat
  BY FS_RemoveElement, FS_CardinalityType
<1>2. \/ s \in A /\ A = C \cup {s}
      \/ s \notin A /\ A = C
  OBVIOUS
<1>3. \/ s \in B /\ B = C \cup {s}
      \/ s \notin B /\ B = C
  OBVIOUS
<1>4. IsFiniteSet(C \cup {s}) /\ Cardinality(C \cup {s}) = Cardinality(C) + 1
  BY <1>1, FS_AddElement
<1> HIDE DEF C
<1>5. \/ s \in A /\ Cardinality(A) = Cardinality(C) + 1
      \/ s \notin A /\ Cardinality(A) = Cardinality(C)
  BY <1>2, <1>4
<1>6. /\ IsFiniteSet(B)
      /\ \/ s \in B /\ Cardinality(B) = Cardinality(C) + 1
         \/ s \notin B /\ Cardinality(B) = Cardinality(C)
  BY <1>1, <1>3, <1>4
<1> QED BY <1>1, <1>5, <1>6

LEMMA HotIsFinite == \A m : IsFiniteSet(Hot(m)) /\ Cardinality(Hot(m)) \in Nat
<1> SUFFICES ASSUME NEW m PROVE IsFiniteSet(Hot(m)) /\ Cardinality(Hot(m)) \in Nat
  OBVIOUS
<1>1. IsFiniteSet(Hot(m))
  BY OutboxAssumption, FS_Subset DEF Hot
<1> QED BY <1>1, FS_CardinalityType

\* What a step of one worker does to the sums of all messages: it is enough to
\* account for the messages the worker had and has in its hands.
LEMMA WorkerSteps ==
  ASSUME OutboxInv, OutboxTypeOK', outboxFaults' >= outboxFaults,
         NEW s \in Senders, \A r \in Senders \ {s} : job'[r] = job[r],
         \A n \in Texts : n # job[s].id /\ n # job'[s].id => text'[n] = text[n] /\ sends'[n] = sends[n],
         \A n \in Texts : n = job[s].id \/ n = job'[s].id =>
           /\ s \in Hot(n)' /\ s \in Hot(n) =>
                Owed(n)' <= Owed(n)
           /\ s \in Hot(n)' /\ s \notin Hot(n) =>
                Owed(n)' <= Owed(n) - 1
           /\ s \notin Hot(n)' /\ s \in Hot(n) =>
                Owed(n)' <= Owed(n) + 1
           /\ s \notin Hot(n)' /\ s \notin Hot(n) =>
                Owed(n)' <= Owed(n)
  PROVE  OutboxInv'
<1> SUFFICES ASSUME NEW n \in Texts
             PROVE  Owed(n)' + Cardinality(Hot(n)') <= 1
  BY DEF OutboxInv
<1>1. Owed(n) + Cardinality(Hot(n)) <= 1 /\ Owed(n) \in Int /\ Owed(n)' \in Int
  BY OutboxAssumption DEF OutboxInv, OutboxTypeOK, Owed, RowCredit
<1>2. Hot(n) \ {s} = Hot(n)' \ {s}
  BY DEF Hot
<1>3. IsFiniteSet(Hot(n))
  BY HotIsFinite
<1>4. PICK a \in Nat : a = Cardinality(Hot(n))
  BY HotIsFinite
<1>5. PICK b \in Nat : /\ b = Cardinality(Hot(n)')
                       /\ (s \in Hot(n) <=> s \in Hot(n)') => b = a
                       /\ s \in Hot(n) /\ s \notin Hot(n)' => b = a - 1
                       /\ s \notin Hot(n) /\ s \in Hot(n)' => b = a + 1
  BY <1>2, <1>3, <1>4, OneMoves
<1>6. CASE n = job[s].id \/ n = job'[s].id
  BY <1>1, <1>4, <1>5, <1>6
<1>7. CASE n # job[s].id /\ n # job'[s].id
  <2>1. text'[n] = text[n] /\ sends'[n] = sends[n] /\ s \notin Hot(n) /\ s \notin Hot(n)'
    BY <1>7 DEF Hot
  <2>2. InHands(n)' <=> InHands(n)
    BY <1>7 DEF InHands
  <2>3. RowCredit(n)' = RowCredit(n)
    BY <2>1, <2>2 DEF RowCredit, Asks
  <2>4. Owed(n)' <= Owed(n)
    <3>1. sends[n] \in Nat /\ RowCredit(n) \in Nat /\ outboxFaults \in Nat /\ outboxFaults' \in Nat
      BY OutboxAssumption DEF OutboxInv, OutboxTypeOK, RowCredit
    <3> QED BY <2>1, <2>3, <3>1 DEF Owed
  <2> QED BY <1>1, <1>4, <1>5, <2>1, <2>4
<1> QED BY <1>6, <1>7

\* What a step on one row does when no worker moves.
LEMMA RowSteps ==
  ASSUME OutboxInv, OutboxTypeOK', outboxFaults' >= outboxFaults, UNCHANGED <<job, sends>>,
         NEW m \in Texts, \A n \in Texts \ {m} : text'[n] = text[n],
         Owed(m)' <= Owed(m)
  PROVE  OutboxInv'
<1> SUFFICES ASSUME NEW n \in Texts
             PROVE  Owed(n)' + Cardinality(Hot(n)') <= 1
  BY DEF OutboxInv
<1>1. Hot(n)' = Hot(n) /\ (InHands(n)' <=> InHands(n))
  BY DEF Hot, InHands
<1>2. Owed(n)' <= Owed(n)
  <2>1. CASE n # m
    <3>1. RowCredit(n)' = RowCredit(n)
      BY <1>1, <2>1 DEF RowCredit, Asks
    <3>2. sends[n] \in Nat /\ RowCredit(n) \in Nat /\ outboxFaults \in Nat /\ outboxFaults' \in Nat
      BY OutboxAssumption DEF OutboxInv, OutboxTypeOK, RowCredit
    <3> QED BY <3>1, <3>2 DEF Owed
  <2> QED BY <2>1
<1>3. Owed(n) + Cardinality(Hot(n)) <= 1 /\ Owed(n) \in Int /\ Owed(n)' \in Int
  BY OutboxAssumption DEF OutboxInv, OutboxTypeOK, Owed, RowCredit
<1>4. Cardinality(Hot(n)) \in Nat
  BY HotIsFinite
<1> QED BY <1>1, <1>2, <1>3, <1>4

TextRows == [status : TextStatus, attempts : Nat, due : BOOLEAN]
Jobs == [pc : {"send", "ref", "complete", "retry"}, id : Texts, attempts : Nat]

LEMMA TextsAreRows ==
  ASSUME NEW row0 \in TextRows, NEW read \in Nat, NEW status \in TextStatus
  PROVE  /\ Queued \in TextRows /\ Claimed(row0) \in TextRows /\ Completed(row0) \in TextRows
         /\ Retried(row0, read) \in TextRows /\ Elapsed(row0) \in TextRows
         /\ Reported(row0, status) \in TextRows
<1> USE DEF TextRows, TextStatus, RowStatus
<1>1. Queued \in TextRows /\ Claimed(row0) \in TextRows /\ Elapsed(row0) \in TextRows
  BY DEF Queued, Claimed, Elapsed
<1>2. Completed(row0) \in TextRows
  BY DEF Completed
<1>3. Reported(row0, status) \in TextRows
  BY DEF Reported
<1>4. Retried(row0, read) \in TextRows
  BY DEF Retried
<1> QED BY <1>1, <1>2, <1>3, <1>4

\* What a worker with a message knows, and what Owed is made of.
LEMMA OutboxFacts ==
  ASSUME OutboxInv
  PROVE  /\ text \in [Texts -> TextRows] /\ job \in [Senders -> {NoJob} \cup Jobs]
         /\ sends \in [Texts -> Nat] /\ ref \in [Texts -> Nat] /\ outboxFaults \in Nat
         /\ \A m \in Texts : RowCredit(m) \in {0, 1} /\ RowCredit(m)' \in {0, 1} /\ ref[m] <= sends[m]
         /\ \A s \in Senders : job[s].pc # "idle" => job[s] \in Jobs
         /\ \A s \in Senders : job[s].pc = "idle" => job[s] = NoJob /\ job[s].id \notin Texts
         /\ NoJob.id \notin Texts
BY OutboxAssumption DEF OutboxInv, OutboxTypeOK, TextRows, Jobs, RowCredit, NoJob

\* A step that takes a fault leaves nobody owed more.
LEMMA FaultPays ==
  ASSUME OutboxInv, OutboxFault, NEW n \in Texts, sends'[n] = sends[n]
  PROVE  Owed(n)' <= Owed(n)
<1>1. /\ RowCredit(n) \in {0, 1} /\ RowCredit(n)' \in {0, 1} /\ sends[n] \in Nat
      /\ outboxFaults \in Nat /\ outboxFaults' = outboxFaults + 1
  BY OutboxFacts DEF OutboxFault
<1> QED BY <1>1 DEF Owed

LEMMA FaultIsTyped ==
  ASSUME OutboxInv, OutboxFault \/ UNCHANGED outboxFaults
  PROVE  outboxFaults' \in 0 .. MaxOutboxFaults /\ outboxFaults' >= outboxFaults
BY OutboxAssumption DEF OutboxInv, OutboxTypeOK, OutboxFault

LEMMA ClaimOutboxKeeps ==
  ASSUME OutboxInv, NEW s \in Senders, NEW m \in Texts, ClaimOutbox(s, m)
  PROVE  OutboxInv'
<1> DEFINE task == [pc |-> "send", id |-> m, attempts |-> text[m].attempts]
<1>1. /\ job[s] = NoJob /\ job[s].id \notin Texts /\ Claimable(text[m])
      /\ text' = [text EXCEPT ![m] = Claimed(@)] /\ job' = [job EXCEPT ![s] = task]
      /\ UNCHANGED <<ref, sends, outboxFaults>>
  BY OutboxFacts DEF ClaimOutbox
<1>2. /\ text \in [Texts -> TextRows] /\ text[m] \in TextRows /\ job \in [Senders -> {NoJob} \cup Jobs]
      /\ sends[m] \in Nat /\ outboxFaults \in Nat
  BY OutboxFacts
<1>3. Claimed(text[m]) \in TextRows /\ task \in Jobs
  BY <1>2 DEF Claimed, TextRows, TextStatus, RowStatus, Jobs
<1>4. /\ text' \in [Texts -> TextRows] /\ job' \in [Senders -> {NoJob} \cup Jobs]
      /\ \A n \in Texts \ {m} : text'[n] = text[n]
      /\ text'[m] = Claimed(text[m]) /\ job'[s] = task /\ \A r \in Senders \ {s} : job'[r] = job[r]
  BY <1>1, <1>2, <1>3
<1>5. OutboxTypeOK'
  BY <1>1, <1>4 DEF OutboxInv, OutboxTypeOK, TextRows, Jobs
<1>6. Owed(m)' <= Owed(m) - 1 /\ s \notin Hot(m) /\ s \in Hot(m)'
  <2>1. RowCredit(m) = 1
    BY <1>1 DEF Claimable, RowCredit, Asks
  <2>2. RowCredit(m)' = 0
    <3>1. InHands(m)'
      BY <1>4 DEF InHands
    <3>2. text'[m].status = "leased" /\ ~text'[m].due
      BY <1>2, <1>4 DEF Claimed, TextRows
    <3> QED BY <3>1, <3>2 DEF RowCredit, Asks
  <2> QED BY <1>1, <1>2, <1>4, <2>1, <2>2 DEF Owed, Hot, NoJob
<1>7. outboxFaults' >= outboxFaults
  BY <1>1, <1>2
<1>8. \A n \in Texts : n = job[s].id \/ n = job'[s].id => n = m
  BY <1>1, <1>4
<1>9. \A n \in Texts : n # job[s].id /\ n # job'[s].id => text'[n] = text[n] /\ sends'[n] = sends[n]
  BY <1>1, <1>4
<1> HIDE DEF task
<1> QED BY <1>4, <1>5, <1>6, <1>7, <1>8, <1>9, WorkerSteps

LEMMA SendKeeps ==
  ASSUME OutboxInv, NEW s \in Senders, Send(s)
  PROVE  OutboxInv'
<1>0. PICK m \in Texts : m = job[s].id
  BY OutboxFacts DEF Send, Jobs
<1>1. /\ job[s].pc = "send" /\ job[s] \in Jobs /\ m \in Texts
      /\ job \in [Senders -> {NoJob} \cup Jobs] /\ sends \in [Texts -> Nat] /\ outboxFaults \in Nat
      /\ UNCHANGED <<text, ref>>
  BY <1>0, OutboxFacts DEF Send, Jobs
<1>2. PICK pc \in {"ref", "retry"} :
        /\ job' = [job EXCEPT ![s].pc = pc]
        /\ pc = "ref" => sends' = [sends EXCEPT ![m] = @ + 1] /\ UNCHANGED outboxFaults
        /\ pc = "retry" => OutboxFault /\ UNCHANGED sends
  BY <1>0 DEF Send
<1>3. /\ job'[s].pc = pc /\ job'[s].id = m /\ \A r \in Senders \ {s} : job'[r] = job[r]
      /\ job' \in [Senders -> {NoJob} \cup Jobs]
  BY <1>0, <1>1, <1>2 DEF Jobs
<1>4. /\ sends' \in [Texts -> Nat] /\ \A n \in Texts \ {m} : sends'[n] = sends[n]
      /\ sends'[m] = IF pc = "ref" THEN sends[m] + 1 ELSE sends[m]
      /\ \A n \in Texts : sends[n] <= sends'[n]
  BY <1>0, <1>1, <1>2
<1>5. outboxFaults' \in 0 .. MaxOutboxFaults /\ outboxFaults' >= outboxFaults
  BY <1>0, <1>2, FaultIsTyped
<1>6. OutboxTypeOK'
  <2>1. \A n \in Texts : ref'[n] <= sends'[n]
    BY <1>0, <1>1, <1>4, OutboxFacts
  <2> QED BY <1>0, <1>1, <1>3, <1>4, <1>5, <2>1 DEF OutboxInv, OutboxTypeOK, Jobs
<1>7. /\ s \in Hot(m) /\ (s \in Hot(m)' <=> pc = "retry")
      /\ pc = "retry" => Owed(m)' <= Owed(m)
      /\ pc = "ref" => Owed(m)' <= Owed(m) + 1
  <2>1. InHands(m)' /\ InHands(m)
    BY <1>0, <1>1, <1>3 DEF InHands
  <2>2. RowCredit(m)' = RowCredit(m) /\ RowCredit(m) \in {0, 1}
    BY <1>0, <1>1, <2>1 DEF RowCredit, Asks
  <2>3. s \in Hot(m) /\ (s \in Hot(m)' <=> pc = "retry")
    BY <1>0, <1>1, <1>2, <1>3 DEF Hot
  <2>4. CASE pc = "retry"
    BY <1>0, <1>1, <1>2, <2>3, <2>4, FaultPays
  <2>5. CASE pc = "ref"
    <3>1. sends'[m] = sends[m] + 1 /\ outboxFaults' = outboxFaults /\ sends[m] \in Nat
      BY <1>0, <1>1, <1>2, <1>4, <2>5
    <3> QED BY <1>0, <1>1, <2>2, <2>3, <2>5, <3>1 DEF Owed
  <2> QED BY <2>3, <2>4, <2>5
<1>8. \A n \in Texts : n = job[s].id \/ n = job'[s].id => n = m
  BY <1>0, <1>3
<1>9. \A n \in Texts : n # job[s].id /\ n # job'[s].id => text'[n] = text[n] /\ sends'[n] = sends[n]
  BY <1>0, <1>1, <1>4
<1> QED BY <1>0, <1>2, <1>3, <1>5, <1>6, <1>7, <1>8, <1>9, WorkerSteps

LEMMA RefKeeps ==
  ASSUME OutboxInv, NEW s \in Senders, SetOutboxProviderRef(s)
  PROVE  OutboxInv'
<1>0. PICK m \in Texts : m = job[s].id
  BY OutboxFacts DEF SetOutboxProviderRef, Jobs
<1>1. /\ job[s].pc = "ref" /\ job[s] \in Jobs /\ m \in Texts
      /\ job \in [Senders -> {NoJob} \cup Jobs] /\ sends \in [Texts -> Nat] /\ ref \in [Texts -> Nat]
      /\ UNCHANGED <<text, sends>> /\ job' = [job EXCEPT ![s].pc = "complete"]
      /\ \/ ref' = [ref EXCEPT ![m] = sends[m]] /\ UNCHANGED outboxFaults
         \/ OutboxFault /\ UNCHANGED ref
  BY <1>0, OutboxFacts DEF SetOutboxProviderRef, Jobs
<1>2. /\ job'[s].pc = "complete" /\ job'[s].id = m /\ \A r \in Senders \ {s} : job'[r] = job[r]
      /\ job' \in [Senders -> {NoJob} \cup Jobs]
  BY <1>0, <1>1 DEF Jobs
<1>3. outboxFaults' \in 0 .. MaxOutboxFaults /\ outboxFaults' >= outboxFaults
  BY <1>0, <1>1, FaultIsTyped
<1>4. OutboxTypeOK'
  <2>1. ref' \in [Texts -> Nat] /\ \A n \in Texts : ref'[n] <= sends'[n]
    BY <1>0, <1>1, OutboxFacts
  <2> QED BY <1>0, <1>1, <1>2, <1>3, <2>1 DEF OutboxInv, OutboxTypeOK, Jobs
<1>5. s \notin Hot(m) /\ s \notin Hot(m)' /\ Owed(m)' <= Owed(m)
  <2>1. InHands(m)' /\ InHands(m)
    BY <1>0, <1>1, <1>2 DEF InHands
  <2>2. RowCredit(m)' = RowCredit(m) /\ RowCredit(m) \in {0, 1}
    BY <1>0, <1>1, <2>1 DEF RowCredit, Asks
  <2>3. s \notin Hot(m) /\ s \notin Hot(m)'
    BY <1>0, <1>1, <1>2 DEF Hot
  <2>4. outboxFaults \in Nat /\ outboxFaults' \in Nat /\ sends[m] \in Nat
    BY <1>0, <1>1, <1>3, OutboxFacts, OutboxAssumption
  <2> QED BY <1>0, <1>1, <1>3, <2>2, <2>3, <2>4 DEF Owed
<1>6. \A n \in Texts : n = job[s].id \/ n = job'[s].id => n = m
  BY <1>0, <1>2
<1>7. \A n \in Texts : n # job[s].id /\ n # job'[s].id => text'[n] = text[n] /\ sends'[n] = sends[n]
  BY <1>0, <1>1
<1> QED BY <1>0, <1>2, <1>3, <1>4, <1>5, <1>6, <1>7, WorkerSteps

\* The worker lets go of the message.
LEMMA ReleaseKeeps ==
  ASSUME OutboxInv, NEW s \in Senders, FinishText(s) \/ SenderCrash(s)
  PROVE  OutboxInv'
<1>0. PICK m \in Texts : m = job[s].id
  BY OutboxFacts DEF FinishText, SenderCrash, Jobs
<1>1. /\ job[s].pc # "idle" /\ job[s] \in Jobs /\ m \in Texts /\ job[s].attempts \in Nat
      /\ job \in [Senders -> {NoJob} \cup Jobs] /\ text \in [Texts -> TextRows]
      /\ sends \in [Texts -> Nat] /\ outboxFaults \in Nat
      /\ UNCHANGED <<ref, sends>> /\ job' = [job EXCEPT ![s] = NoJob]
  BY <1>0, OutboxFacts DEF FinishText, SenderCrash, Jobs
<1>2. /\ job'[s] = NoJob /\ \A r \in Senders \ {s} : job'[r] = job[r]
      /\ job' \in [Senders -> {NoJob} \cup Jobs] /\ NoJob.id \notin Texts
  BY <1>0, <1>1, OutboxFacts
<1>3. \/ /\ job[s].pc = "complete" /\ UNCHANGED outboxFaults
         /\ text' = [text EXCEPT ![m] = Completed(@)]
      \/ /\ job[s].pc = "retry" /\ UNCHANGED outboxFaults
         /\ text' = [text EXCEPT ![m] = Retried(@, job[s].attempts)]
      \/ OutboxFault /\ UNCHANGED text
  BY <1>0 DEF FinishText, SenderCrash
<1>4. /\ text' \in [Texts -> TextRows] /\ \A n \in Texts \ {m} : text'[n] = text[n]
      /\ outboxFaults' \in 0 .. MaxOutboxFaults /\ outboxFaults' >= outboxFaults
  <2>1. text[m] \in TextRows
    BY <1>0, <1>1
  <2>2. Completed(text[m]) \in TextRows /\ Retried(text[m], job[s].attempts) \in TextRows
    BY <1>0, <1>1, <2>1, TextsAreRows DEF TextStatus
  <2>3. outboxFaults' \in 0 .. MaxOutboxFaults /\ outboxFaults' >= outboxFaults
    BY <1>3, FaultIsTyped
  <2>4. /\ text' \in [Texts -> TextRows] /\ \A n \in Texts \ {m} : text'[n] = text[n]
    BY <1>0, <1>1, <1>3, <2>2
  <2> QED BY <2>3, <2>4
<1>5. OutboxTypeOK'
  BY <1>0, <1>1, <1>2, <1>4 DEF OutboxInv, OutboxTypeOK, Jobs, TextRows
<1>6. /\ s \notin Hot(m)'
      /\ s \in Hot(m) => Owed(m)' <= Owed(m) + 1
      /\ s \notin Hot(m) => Owed(m)' <= Owed(m)
  <2>1. s \notin Hot(m)' /\ (s \in Hot(m) <=> job[s].pc \in {"send", "retry"})
    BY <1>0, <1>1, <1>2 DEF Hot, NoJob
  <2>2. RowCredit(m) \in {0, 1} /\ RowCredit(m)' \in {0, 1} /\ sends'[m] = sends[m] /\ sends[m] \in Nat
    BY <1>0, <1>1, OutboxFacts
  <2>3. Owed(m) \in Int /\ Owed(m)' \in Int
    BY <1>0, <1>1, <1>4, <2>2, OutboxAssumption DEF Owed
  <2>4. CASE OutboxFault
    <3>1. Owed(m)' <= Owed(m)
      BY <1>0, <1>1, <2>2, <2>4, FaultPays
    <3> QED BY <2>1, <2>3, <3>1
  <2>5. CASE job[s].pc = "complete" /\ UNCHANGED outboxFaults /\ text' = [text EXCEPT ![m] = Completed(@)]
    <3>1. text'[m].status = "done"
      BY <1>0, <1>1, <2>5 DEF Completed
    <3>2. RowCredit(m)' = 0
      BY <3>1 DEF RowCredit, Asks
    <3>3. Owed(m)' <= Owed(m)
      BY <1>0, <1>1, <2>2, <2>5, <3>2 DEF Owed
    <3> QED BY <2>1, <2>3, <2>5, <3>3
  <2>6. CASE job[s].pc = "retry" /\ UNCHANGED outboxFaults
    <3>1. Owed(m)' <= Owed(m) + 1
      BY <1>0, <1>1, <2>2, <2>6 DEF Owed
    <3> QED BY <2>1, <2>3, <2>6, <3>1
  <2> QED BY <1>3, <2>4, <2>5, <2>6
<1>7. \A n \in Texts : n = job[s].id \/ n = job'[s].id => n = m
  BY <1>0, <1>2
<1>8. \A n \in Texts : n # job[s].id /\ n # job'[s].id => text'[n] = text[n] /\ sends'[n] = sends[n]
  BY <1>0, <1>1, <1>4
<1> QED BY <1>0, <1>2, <1>4, <1>5, <1>6, <1>7, <1>8, WorkerSteps

\* A message is enqueued, reported on, or its time comes.
LEMMA RowKeeps ==
  ASSUME OutboxInv, NEW m \in Texts,
         \/ EnqueueText(m) \/ TextElapse(m)
         \/ \E status \in {"delivered", "failed"} : MarkOutboxDelivery(m, status)
  PROVE  OutboxInv'
<1>1. /\ text \in [Texts -> TextRows] /\ text[m] \in TextRows
      /\ sends[m] \in Nat /\ outboxFaults \in Nat /\ RowCredit(m) \in {0, 1} /\ RowCredit(m)' \in {0, 1}
      /\ UNCHANGED <<ref, job, sends>>
      /\ OutboxFault \/ UNCHANGED outboxFaults
  BY OutboxFacts DEF EnqueueText, TextElapse, MarkOutboxDelivery
<1>2. outboxFaults' \in 0 .. MaxOutboxFaults /\ outboxFaults' >= outboxFaults
  BY <1>1, FaultIsTyped
<1>3. PICK new \in TextRows : text' = [text EXCEPT ![m] = new]
  <2>1. /\ Queued \in TextRows /\ Elapsed(text[m]) \in TextRows
        /\ \A status \in {"delivered", "failed"} : Reported(text[m], status) \in TextRows
    BY <1>1 DEF Queued, Elapsed, Reported, TextRows, TextStatus, RowStatus
  <2> QED BY <2>1 DEF EnqueueText, TextElapse, MarkOutboxDelivery
<1>4. text' \in [Texts -> TextRows] /\ \A n \in Texts \ {m} : text'[n] = text[n]
  BY <1>1, <1>3
<1>5. OutboxTypeOK'
  BY <1>1, <1>2, <1>4 DEF OutboxInv, OutboxTypeOK, TextRows
<1>6. InHands(m)' <=> InHands(m)
  BY <1>1 DEF InHands
<1>7. RowCredit(m)' <= RowCredit(m) \/ OutboxFault
  <2>1. CASE EnqueueText(m)
    BY <1>1, <2>1 DEF EnqueueText, RowCredit, Asks
  <2>2. CASE TextElapse(m) /\ ~InHands(m)
    BY <1>1, <2>2 DEF TextElapse, Elapsing, RowCredit, Asks
  <2>3. CASE TextElapse(m) /\ InHands(m)
    BY <2>3 DEF TextElapse
  <2>4. ASSUME NEW status \in {"delivered", "failed"}, MarkOutboxDelivery(m, status)
        PROVE  RowCredit(m)' <= RowCredit(m)
    <3>1. text'[m].status = status
      BY <1>1, <2>4 DEF MarkOutboxDelivery, Reported, TextRows
    <3>2. RowCredit(m)' = 0
      BY <2>4, <3>1 DEF RowCredit, Asks
    <3> QED BY <1>1, <3>2
  <2> QED BY <2>1, <2>2, <2>3, <2>4
<1>8. Owed(m)' <= Owed(m)
  <2>1. CASE OutboxFault
    BY <1>1, <2>1, FaultPays
  <2>2. CASE RowCredit(m)' <= RowCredit(m)
    <3>1. outboxFaults' \in Nat
      BY <1>2, OutboxAssumption
    <3> QED BY <1>1, <1>2, <2>2, <3>1 DEF Owed
  <2> QED BY <1>7, <2>1, <2>2
<1> QED BY <1>1, <1>2, <1>4, <1>5, <1>8, RowSteps

LEMMA OutboxStart == OutboxInit => OutboxInv
<1> SUFFICES ASSUME OutboxInit PROVE OutboxInv
  OBVIOUS
<1>1. OutboxTypeOK
  BY OutboxAssumption DEF OutboxInit, OutboxTypeOK, NoRow, TextStatus, RowStatus
<1>2. ASSUME NEW m \in Texts
      PROVE  Owed(m) + Cardinality(Hot(m)) <= 1
  <2>1. Hot(m) = {}
    BY DEF OutboxInit, Hot, NoJob
  <2>2. Cardinality(Hot(m)) = 0
    BY <2>1, FS_EmptySet
  <2>3. RowCredit(m) = 1 /\ sends[m] = 0 /\ outboxFaults = 0
    BY DEF OutboxInit, RowCredit, Asks, NoRow
  <2> QED BY <2>2, <2>3 DEF Owed
<1> QED BY <1>1, <1>2 DEF OutboxInv

LEMMA OutboxStep == OutboxInv /\ [OutboxNext]_outboxVars => OutboxInv'
<1> SUFFICES ASSUME OutboxInv, [OutboxNext]_outboxVars PROVE OutboxInv'
  OBVIOUS
<1>1. CASE UNCHANGED outboxVars
  <2>1. text' = text /\ ref' = ref /\ job' = job /\ sends' = sends /\ outboxFaults' = outboxFaults
    BY <1>1 DEF outboxVars
  <2> QED BY <2>1 DEF OutboxInv, OutboxTypeOK, Owed, RowCredit, Asks, InHands, Hot
<1>2. ASSUME NEW m \in Texts, EnqueueText(m) \/ TextElapse(m)
      PROVE  OutboxInv'
  BY <1>2, RowKeeps
<1>3. ASSUME NEW m \in Texts, NEW status \in {"delivered", "failed"}, MarkOutboxDelivery(m, status)
      PROVE  OutboxInv'
  BY <1>3, RowKeeps
<1>4. ASSUME NEW s \in Senders, DeliverOutbox(s) \/ SenderCrash(s)
      PROVE  OutboxInv'
  BY <1>4, ClaimOutboxKeeps, SendKeeps, RefKeeps, ReleaseKeeps DEF DeliverOutbox
<1> QED BY <1>1, <1>2, <1>3, <1>4 DEF OutboxNext

LEMMA OutboxInvCounts == OutboxInv => RepeatsAreFaults
<1> SUFFICES ASSUME OutboxInv, NEW m \in Texts
             PROVE  (IF sends[m] > 1 THEN sends[m] - 1 ELSE 0) <= outboxFaults
  BY DEF RepeatsAreFaults
<1>1. Cardinality(Hot(m)) \in Nat /\ Owed(m) + Cardinality(Hot(m)) <= 1
  BY HotIsFinite DEF OutboxInv
<1>2. sends[m] \in Nat /\ RowCredit(m) \in {0, 1} /\ outboxFaults \in Nat
  BY OutboxFacts
<1> QED BY <1>1, <1>2 DEF Owed

-----------------------------------------------------------------------------
(* The webhooks.  A request has enqueued the messages before the one it is *)
(* at, and no other step takes a message out of the queue, so a request    *)
(* that is past the last message answers for a post that is stored.        *)

Stored(p) == \A i \in 1 .. Len(Carries[p]) : Carries[p][i] \in queued

ReceiverInv ==
  /\ ReceiverTypeOK
  /\ \A h \in Handlers : handler[h] # Resting =>
       \A i \in 1 .. handler[h].next - 1 :
         i <= Len(Carries[handler[h].post]) => Carries[handler[h].post][i] \in queued
  /\ \A p \in answered : Stored(p)
  /\ \A key \in Posts \cup Contents :
       hook[key] = "accepted" => \E p \in answered : key \in {p, First(p)}

Requests == [pc : {"working"}, post : Posts, next : Nat \ {0}, fresh : BOOLEAN]

LEMMA PostsCarry ==
  ASSUME NEW p \in Posts
  PROVE  /\ Len(Carries[p]) \in Nat /\ First(p) \in Posts \cup Contents
         /\ \A i \in 1 .. Len(Carries[p]) : Carries[p][i] \in Contents
<1>1. Carries[p] \in Seq(Contents)
  BY ReceiverAssumption
<1>2. /\ Len(Carries[p]) \in Nat /\ (Carries[p] # <<>> => Len(Carries[p]) # 0)
      /\ \A i \in 1 .. Len(Carries[p]) : Carries[p][i] \in Contents
  BY <1>1
<1>3. First(p) \in Posts \cup Contents
  BY <1>2 DEF First
<1> QED BY <1>2, <1>3

LEMMA ReceiverStart == ReceiverInit => ReceiverInv
BY DEF ReceiverInit, ReceiverInv, ReceiverTypeOK, Stored

\* A request with a post in its hands.
LEMMA HandlerFacts ==
  ASSUME ReceiverInv, NEW h \in Handlers, NEW p \in Posts, Handles(h, p)
  PROVE  /\ handler[h] \in Requests /\ handler[h].post = p /\ handler[h] # Resting
         /\ handler[h].next \in Nat \ {0}
<1>1. handler[h] \in {Resting} \cup Requests
  BY DEF ReceiverInv, ReceiverTypeOK, Requests
<1> QED BY <1>1 DEF Handles, Resting, Requests

\* A request takes a post up, or lets go of it, and no queue changes.
LEMMA RequestsComeAndGo ==
  ASSUME ReceiverInv, NEW h \in Handlers, UNCHANGED <<platform, queued, answered>>,
         handler' = [handler EXCEPT ![h] = Resting]
           \/ \E r \in Requests : r.next = 1 /\ handler' = [handler EXCEPT ![h] = r],
         hook' \in [Posts \cup Contents -> {"none", "received", "failed", "accepted"}],
         \A key \in Posts \cup Contents : hook'[key] = "accepted" => hook[key] = "accepted"
  PROVE  ReceiverInv'
<1>1. handler \in [Handlers -> {Resting} \cup Requests]
  BY DEF ReceiverInv, ReceiverTypeOK, Requests
<1>2. PICK r \in {Resting} \cup Requests :
        handler' = [handler EXCEPT ![h] = r] /\ (r # Resting => r.next = 1)
  OBVIOUS
<1>3. handler' \in [Handlers -> {Resting} \cup Requests]
  BY <1>1, <1>2
<1>4. ReceiverTypeOK'
  BY <1>3 DEF ReceiverInv, ReceiverTypeOK, Requests
<1>5. ASSUME NEW g \in Handlers, handler'[g] # Resting, NEW i \in 1 .. handler'[g].next - 1,
             i <= Len(Carries[handler'[g].post])
      PROVE  Carries[handler'[g].post][i] \in queued'
  <2>1. CASE g = h
    <3>1. handler'[g].next = 1
      BY <1>1, <1>2, <1>5, <2>1
    <3> QED BY <1>5, <3>1
  <2>2. CASE g # h
    BY <1>1, <1>2, <1>5, <2>2 DEF ReceiverInv
  <2> QED BY <2>1, <2>2
<1>6. \A p \in answered' : Stored(p)'
  BY DEF ReceiverInv, Stored
<1>7. \A key \in Posts \cup Contents :
        hook'[key] = "accepted" => \E p \in answered' : key \in {p, First(p)}
  BY DEF ReceiverInv
<1> QED BY <1>4, <1>5, <1>6, <1>7 DEF ReceiverInv

LEMMA EnqueueNextKeeps ==
  ASSUME ReceiverInv, NEW h \in Handlers, NEW p \in Posts, EnqueueNext(h, p)
  PROVE  ReceiverInv'
<1>1. PICK n \in Nat \ {0} : n = handler[h].next
  BY HandlerFacts DEF EnqueueNext
<1>2. /\ handler[h] \in Requests /\ handler[h].post = p /\ n <= Len(Carries[p])
      /\ queued' = queued \cup {Carries[p][n]}
      /\ handler' = [handler EXCEPT ![h].next = n + 1]
      /\ UNCHANGED <<platform, hook, answered>>
  BY <1>1, HandlerFacts DEF EnqueueNext, Left
<1>3. handler \in [Handlers -> {Resting} \cup Requests]
  BY DEF ReceiverInv, ReceiverTypeOK, Requests
<1>4. /\ handler'[h].post = p /\ handler'[h].next = n + 1 /\ handler'[h] \in Requests
      /\ \A g \in Handlers \ {h} : handler'[g] = handler[g]
      /\ handler' \in [Handlers -> {Resting} \cup Requests]
  BY <1>2, <1>3 DEF Requests
<1>5. Carries[p][n] \in Contents
  BY <1>2, PostsCarry
<1>6. ReceiverTypeOK'
  BY <1>2, <1>4, <1>5 DEF ReceiverInv, ReceiverTypeOK, Requests
<1>7. ASSUME NEW g \in Handlers, handler'[g] # Resting, NEW i \in 1 .. handler'[g].next - 1,
             i <= Len(Carries[handler'[g].post])
      PROVE  Carries[handler'[g].post][i] \in queued'
  <2>1. CASE g = h
    <3>1. i \in 1 .. n /\ handler[h] # Resting
      BY <1>2, <1>4, <1>7, <2>1 DEF Requests, Resting
    <3>2. CASE i = n
      BY <1>2, <1>4, <2>1, <3>2
    <3>3. CASE i # n
      <4>1. i \in 1 .. n - 1
        BY <3>1, <3>3
      <4>2. Carries[p][i] \in queued
        BY <1>1, <1>2, <1>4, <1>7, <2>1, <3>1, <4>1 DEF ReceiverInv
      <4> QED BY <1>2, <1>4, <2>1, <4>2
    <3> QED BY <3>2, <3>3
  <2>2. CASE g # h
    BY <1>2, <1>4, <1>7, <2>2 DEF ReceiverInv
  <2> QED BY <2>1, <2>2
<1>8. \A q \in answered' : Stored(q)'
  BY <1>2 DEF ReceiverInv, Stored
<1>9. \A key \in Posts \cup Contents :
        hook'[key] = "accepted" => \E q \in answered' : key \in {q, First(q)}
  BY <1>2 DEF ReceiverInv
<1> QED BY <1>6, <1>7, <1>8, <1>9 DEF ReceiverInv

LEMMA AcceptKeeps ==
  ASSUME ReceiverInv, NEW h \in Handlers, NEW p \in Posts, NEW key \in {p, First(p)},
         NEW marks \in BOOLEAN, Accept(h, p, key, marks)
  PROVE  ReceiverInv'
<1>1. PICK n \in Nat \ {0} : n = handler[h].next
  BY HandlerFacts DEF Accept
<1>2. /\ handler[h] # Resting /\ handler[h].post = p /\ ~(n <= Len(Carries[p]))
      /\ answered' = answered \cup {p} /\ handler' = [handler EXCEPT ![h] = Resting]
      /\ hook' = [hook EXCEPT ![key] = "accepted"] \/ UNCHANGED hook
      /\ UNCHANGED <<platform, queued>>
  BY <1>1, HandlerFacts DEF Accept, Left, CompleteWebhook
<1>3. key \in Posts \cup Contents /\ Len(Carries[p]) \in Nat
  BY PostsCarry
<1>4. handler \in [Handlers -> {Resting} \cup Requests]
  BY DEF ReceiverInv, ReceiverTypeOK, Requests
<1>5. hook \in [Posts \cup Contents -> {"none", "received", "failed", "accepted"}] /\ answered \subseteq Posts
  BY DEF ReceiverInv, ReceiverTypeOK
<1>6. hook' \in [Posts \cup Contents -> {"none", "received", "failed", "accepted"}]
      /\ \A k \in Posts \cup Contents : hook'[k] = "accepted" => k = key \/ hook[k] = "accepted"
  BY <1>2, <1>3, <1>5
<1>7. handler' \in [Handlers -> {Resting} \cup Requests]
      /\ \A g \in Handlers : handler'[g] # Resting => handler'[g] = handler[g]
  BY <1>2, <1>4
<1>8. ReceiverTypeOK'
  BY <1>2, <1>5, <1>6, <1>7 DEF ReceiverInv, ReceiverTypeOK, Requests
<1>9. Stored(p)
  <2> SUFFICES ASSUME NEW i \in 1 .. Len(Carries[p]) PROVE Carries[p][i] \in queued
    BY DEF Stored
  <2>1. i \in 1 .. n - 1 /\ i <= Len(Carries[p])
    BY <1>2, <1>3
  <2> QED BY <1>1, <1>2, <2>1 DEF ReceiverInv
<1>10. \A q \in answered' : Stored(q)'
  BY <1>2, <1>9 DEF ReceiverInv, Stored
<1>11. \A k \in Posts \cup Contents :
         hook'[k] = "accepted" => \E q \in answered' : k \in {q, First(q)}
  <2> SUFFICES ASSUME NEW k \in Posts \cup Contents, hook'[k] = "accepted"
               PROVE  \E q \in answered' : k \in {q, First(q)}
    OBVIOUS
  <2>1. CASE k = key
    BY <1>2, <2>1
  <2>2. CASE hook[k] = "accepted"
    <3>1. PICK q \in answered : k \in {q, First(q)}
      BY <2>2 DEF ReceiverInv
    <3> QED BY <1>2, <3>1
  <2> QED BY <1>6, <2>1, <2>2
<1>12. \A g \in Handlers : handler'[g] # Resting =>
         \A i \in 1 .. handler'[g].next - 1 :
           i <= Len(Carries[handler'[g].post]) => Carries[handler'[g].post][i] \in queued'
  BY <1>2, <1>7 DEF ReceiverInv
<1> QED BY <1>8, <1>10, <1>11, <1>12 DEF ReceiverInv

LEMMA ReceiveKeeps ==
  ASSUME ReceiverInv, NEW h \in Handlers, NEW p \in Posts, NEW key \in {p, First(p)},
         NEW marks \in BOOLEAN, Receive(h, p, key, marks)
  PROVE  ReceiverInv'
<1>1. /\ hook \in [Posts \cup Contents -> {"none", "received", "failed", "accepted"}]
      /\ key \in Posts \cup Contents
  BY PostsCarry DEF ReceiverInv, ReceiverTypeOK
<1>2. CASE RecordWebhook(h, p, key)
  <2> DEFINE r == [pc |-> "working", post |-> p, next |-> 1, fresh |-> hook[key] = "none"]
  <2>1. r \in Requests /\ r.next = 1
    BY DEF Requests
  <2>2. /\ handler' = [handler EXCEPT ![h] = r] /\ UNCHANGED <<platform, queued, answered>>
        /\ hook' = [hook EXCEPT ![key] = IF @ = "none" THEN "received" ELSE @]
    BY <1>2 DEF RecordWebhook
  <2>3. /\ hook' \in [Posts \cup Contents -> {"none", "received", "failed", "accepted"}]
        /\ \A k \in Posts \cup Contents : hook'[k] = "accepted" => hook[k] = "accepted"
    BY <1>1, <2>2
  <2> HIDE DEF r
  <2> QED BY <2>1, <2>2, <2>3, RequestsComeAndGo
<1>3. CASE EnqueueNext(h, p)
  BY <1>3, EnqueueNextKeeps
<1>4. CASE Refuse(h, p, key)
  <2>1. /\ handler' = [handler EXCEPT ![h] = Resting] /\ UNCHANGED <<platform, queued, answered>>
        /\ hook' = [hook EXCEPT ![key] = "failed"] \/ UNCHANGED hook
    BY <1>4 DEF Refuse, CompleteWebhook
  <2>2. /\ hook' \in [Posts \cup Contents -> {"none", "received", "failed", "accepted"}]
        /\ \A k \in Posts \cup Contents : hook'[k] = "accepted" => hook[k] = "accepted"
    BY <1>1, <2>1
  <2> QED BY <2>1, <2>2, RequestsComeAndGo
<1>5. CASE Accept(h, p, key, marks)
  BY <1>5, AcceptKeeps
<1> QED BY <1>2, <1>3, <1>4, <1>5 DEF Receive

LEMMA ReceiverStep == ReceiverInv /\ [ReceiverNext]_receiverVars => ReceiverInv'
<1> SUFFICES ASSUME ReceiverInv, [ReceiverNext]_receiverVars PROVE ReceiverInv'
  OBVIOUS
<1>1. CASE UNCHANGED receiverVars
  BY <1>1 DEF receiverVars, ReceiverInv, ReceiverTypeOK, Stored
<1>2. ASSUME NEW h \in Handlers, NEW p \in Posts,
             \/ receiveWhatsAppWebhook(h, p) \/ receiveTelegramWebhook(h, p)
             \/ receiveInstagramWebhook(h, p) \/ receiveFacebookMessengerWebhook(h, p)
             \/ receiveTikTokWebhook(h, p)
      PROVE  ReceiverInv'
  <2>1. Fresh(h) \in BOOLEAN
    <3>1. handler[h] \in {Resting} \cup Requests
      BY DEF ReceiverInv, ReceiverTypeOK, Requests
    <3> QED BY <3>1 DEF Fresh, Requests
  <2>2. \E key \in {p, First(p)}, marks \in BOOLEAN : Receive(h, p, key, marks)
    BY <1>2, <2>1 DEF receiveWhatsAppWebhook, receiveTelegramWebhook, receiveInstagramWebhook,
                      receiveFacebookMessengerWebhook, receiveTikTokWebhook
  <2> QED BY <2>2, ReceiveKeeps
<1>3. ASSUME NEW h \in Handlers, HangUp(h)
      PROVE  ReceiverInv'
  <2>1. handler' = [handler EXCEPT ![h] = Resting] /\ UNCHANGED <<platform, hook, queued, answered>>
    BY <1>3 DEF HangUp
  <2>2. hook' \in [Posts \cup Contents -> {"none", "received", "failed", "accepted"}]
    BY <2>1 DEF ReceiverInv, ReceiverTypeOK
  <2> QED BY <2>1, <2>2, RequestsComeAndGo
<1> QED BY <1>1, <1>2, <1>3 DEF ReceiverNext

LEMMA ReceiverInvIsQueued == ReceiverInv => AcceptedIsQueued
<1> SUFFICES ASSUME ReceiverInv PROVE AcceptedIsQueued
  OBVIOUS
<1>1. DOMAIN hook = Posts \cup Contents
  BY DEF ReceiverInv, ReceiverTypeOK
<1>2. \A p \in answered : \A i \in 1 .. Len(Carries[p]) : Carries[p][i] \in queued
  BY DEF ReceiverInv, Stored
<1>3. \A key \in DOMAIN hook : hook[key] = "accepted" => \E p \in answered : key \in {p, First(p)}
  BY <1>1 DEF ReceiverInv
<1> QED BY <1>2, <1>3 DEF AcceptedIsQueued

-----------------------------------------------------------------------------
(* The queues together.  A step is a step of one of them.                  *)

QueuesInv == BusInv /\ OutboxInv /\ ReceiverInv

\* A merchant is notified only of a payment that did succeed, and at most once;
\* a customer gets a message a second time only for a failure; and what a chat
\* platform was told to forget is in the queue.  For any number of rows,
\* replicas and requests.
THEOREM QueuesToldFaithfully == QueuesSpec => []ToldFaithfully
<1>1. QueuesInit => QueuesInv
  BY BusStart, OutboxStart, ReceiverStart DEF QueuesInit, QueuesInv
<1>2. QueuesInv /\ [QueuesNext]_<<focus, vars, eventVars, outboxVars, receiverVars>> => QueuesInv'
  <2> SUFFICES ASSUME QueuesInv, [QueuesNext]_<<focus, vars, eventVars, outboxVars, receiverVars>>
               PROVE  QueuesInv'
    OBVIOUS
  <2>1. [BusNext]_eventVars /\ [OutboxNext]_outboxVars /\ [ReceiverNext]_receiverVars
    BY DEF QueuesNext
  <2> QED BY <2>1, BusStep, OutboxStep, ReceiverStep DEF QueuesInv
<1>3. QueuesInv => ToldFaithfully
  BY BusInvIsFaithful, OutboxInvCounts, ReceiverInvIsQueued DEF QueuesInv, ToldFaithfully
<1> QED BY <1>1, <1>2, <1>3, PTL DEF QueuesSpec

\* The outbox alone: RepeatsAreFaults for any number of messages and replicas.
THEOREM OutboxRepeatsAreFaults == OutboxSpec => []RepeatsAreFaults
BY OutboxStart, OutboxStep, OutboxInvCounts, PTL DEF OutboxSpec

\* The webhooks alone: an answered post is stored.
THEOREM ReceiverAcceptedIsQueued == ReceiverSpec => []AcceptedIsQueued
BY ReceiverStart, ReceiverStep, ReceiverInvIsQueued, PTL DEF ReceiverSpec
=============================================================================
