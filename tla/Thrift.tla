-------------------------------- MODULE Thrift --------------------------------
(***************************************************************************)
(* A rotating savings group (store_thrift.go): members join while it is    *)
(* inviting, the creator fixes the payout order, and in every cycle each   *)
(* member pays one contribution into the pool and one member receives it.  *)
(*                                                                         *)
(* Transactions run at READ COMMITTED.  Joining and activation count the   *)
(* members in the statement that locks the group: a transaction that       *)
(* waited for the lock still has the old count.  A contribution is applied *)
(* by the hook of its payment, which also posts to the journal.            *)
(***************************************************************************)
EXTENDS LedgerQueue, Sequences

CONSTANTS Users,        \* Creator is one of them
          Creator,
          Targets,      \* the target_member_counts a creator may set
          Contributors, \* payments, for whichever member drafts them
          Others,       \* transactions that post to the journal for other reasons
          MaxMishaps    \* bound: payments that fail or are refunded, hooks that fail

ASSUME ThriftAssumption ==
  /\ IsFiniteSet(Users)
  /\ Creator \in Users /\ Targets \subseteq 1 .. Cardinality(Users)
  /\ Contributors \subseteq Appenders /\ Others \subseteq Appenders
  /\ MaxMishaps \in Nat

VARIABLES group,         \* status, target and current cycle
          member,        \* [Users -> none, confirmed, active]
          position,      \* [Users -> payout position, 0 for none]
          counted,       \* [Users -> members its join or activation counted, -1 for none]
          cycle,         \* [Nat -> status of the group's cycles], a sequence
          contribution,  \* [<<cycle, user>> -> status and the payments linked]
          payout,        \* [cycle -> status of its payout row]
          payment,       \* [Contributors -> payer and status]
          hook,          \* [Contributors -> its post-success hook]
          pool,          \* balance of the thrift pool, in contributions
          faults, refunds

groupVars == <<group, member, position, counted>>
cycleVars == <<cycle, contribution, payout>>
thriftVars == <<groupVars, cycleVars, payment, hook, pool, faults, refunds>>

NoPayment == [by |-> {}, status |-> "none"]
NoHook    == [pc |-> "idle", fresh |-> FALSE, unpaid |-> {}]

ThriftInit ==
  /\ \E t \in Targets : group = [status |-> "inviting", target |-> t, current |-> 0]
  /\ member = [u \in Users |-> IF u = Creator THEN "confirmed" ELSE "none"]
  /\ position = [u \in Users |-> 0]
  /\ counted = [u \in Users |-> -1]
  /\ cycle = <<>> /\ payout = <<>>
  /\ contribution = [k \in {} |-> {}]
  /\ payment = [p \in Contributors |-> NoPayment]
  /\ hook = [p \in Contributors |-> NoHook]
  /\ pool = 0 /\ faults = 0 /\ refunds = 0

Confirmed == {u \in Users : member[u] = "confirmed"}
Active    == {u \in Users : member[u] = "active"}
Cycles    == DOMAIN cycle
Number(S) == Cardinality(S)

-----------------------------------------------------------------------------
(* Members.                                                                *)

Inviting == group.status = "inviting"

\* The locking statement of JoinThriftGroup and ActivateThriftGroup starts.
CountMembers(u) ==
  /\ Inviting /\ counted[u] = -1
  /\ counted' = [counted EXCEPT ![u] = Number(Confirmed)]
  /\ UNCHANGED <<group, member, position, cycleVars, payment, hook, pool, faults, refunds>>

\* JoinThriftGroup once it has the lock: status and target are the row's, the
\* count is the one it had.  A full or closed group refuses.
JoinThriftGroup(u) ==
  /\ counted[u] >= 0 /\ u # Creator
  /\ member' = IF Inviting /\ counted[u] < group.target /\ member[u] = "none"
               THEN [member EXCEPT ![u] = "confirmed"] ELSE member
  /\ counted' = [counted EXCEPT ![u] = -1]
  /\ UNCHANGED <<group, position, cycleVars, payment, hook, pool, faults, refunds>>

\* Payout orders of exactly target confirmed members.
Rotations == {o \in [1 .. group.target -> Confirmed] :
                \A i, j \in DOMAIN o : o[i] = o[j] => i = j}

\* A contribution row for every active member.
OpenCycle(n, payers) ==
  [k \in DOMAIN contribution \cup {<<n, u>> : u \in payers} |->
     IF k \in DOMAIN contribution THEN contribution[k] ELSE [status |-> "awaiting", by |-> {}]]

\* ActivateThriftGroup by the creator, with the count it had.
ActivateThriftGroup ==
  /\ counted[Creator] >= 0
  /\ counted' = [counted EXCEPT ![Creator] = -1]
  /\ IF Inviting /\ counted[Creator] = group.target /\ Rotations # {}
     THEN \E order \in Rotations :
            LET chosen == {order[i] : i \in DOMAIN order}
            IN  /\ member' = [u \in Users |-> IF u \in chosen THEN "active" ELSE member[u]]
                /\ position' = [u \in Users |->
                     IF u \in chosen THEN CHOOSE i \in DOMAIN order : order[i] = u ELSE 0]
                /\ cycle' = <<"pending_contributions">> /\ payout' = <<"none">>
                /\ contribution' = OpenCycle(1, chosen)
                /\ group' = [group EXCEPT !.status = "active", !.current = 1]
     ELSE UNCHANGED <<group, member, position, cycleVars>>
  /\ UNCHANGED <<payment, hook, pool, faults, refunds>>

\* UpdateThriftGroup: the creator changes the target while the group invites.
UpdateThriftGroup(target) ==
  /\ Inviting /\ target # group.target
  /\ group' = [group EXCEPT !.target = target]
  /\ UNCHANGED <<member, position, counted, cycleVars, payment, hook, pool, faults, refunds>>

-----------------------------------------------------------------------------
(* Contributions.                                                          *)

\* LinkThriftContributionPayment: only an unpaid contribution without a payment
\* takes one; otherwise no row changes and no error is returned.
Linked(c, p) == IF c.status = "awaiting" /\ c.by = {} THEN [c EXCEPT !.by = {p}] ELSE c

\* A member drafts a payment for the open cycle and links it.
DraftContribution(p, u) ==
  LET k == <<group.current, u>>
  IN  /\ group.status = "active" /\ payment[p].status = "none"
      /\ k \in DOMAIN contribution /\ contribution[k].status # "paid"
      /\ payment' = [payment EXCEPT ![p] = [by |-> {u}, status |-> "pending"]]
      /\ contribution' = [contribution EXCEPT ![k] = Linked(@, p)]
      /\ UNCHANGED <<groupVars, cycle, payout, hook, pool, faults, refunds>>

\* The gateway decides.
Succeeds(p) ==
  /\ payment[p].status = "pending"
  /\ payment' = [payment EXCEPT ![p].status = "succeeded"]
  /\ hook' = [hook EXCEPT ![p].pc = "due"]
  /\ UNCHANGED <<groupVars, cycleVars, pool, faults, refunds>>

Fails(p) ==
  /\ payment[p].status = "pending" /\ faults + refunds < MaxMishaps
  /\ payment' = [payment EXCEPT ![p].status = "failed"]
  /\ faults' = faults + 1
  /\ UNCHANGED <<groupVars, cycleVars, hook, pool, refunds>>

-----------------------------------------------------------------------------
(* ApplyThriftContributionPaymentSuccess.                                  *)

\* Contributions the payment is linked to: at most one.
For(p) == {k \in DOMAIN contribution : p \in contribution[k].by}
HookAt(p, pc) == hook[p].pc = pc
CycleOf(p) == (CHOOSE k \in For(p) : TRUE)[1]

\* The row is locked; a payment of no contribution is done at once.
ApplyContribution(p) ==
  /\ HookAt(p, "due")
  /\ LET fresh == \E k \in For(p) : contribution[k].status # "paid"
     IN  /\ hook' = [hook EXCEPT ![p] = [pc |-> CASE For(p) = {} -> "applied"
                                               [] fresh -> "post"
                                               [] OTHER -> "count",
                                         fresh |-> fresh, unpaid |-> {}]]
         /\ IF fresh THEN ReadTail(p) ELSE UNCHANGED append
  /\ UNCHANGED <<tail, groupVars, cycleVars, payment, pool, faults, refunds>>

PostContribution(p) ==
  /\ HookAt(p, "post")
  /\ Insert(p)
  /\ hook' = [hook EXCEPT ![p].pc = "count"]
  /\ UNCHANGED <<tail, groupVars, cycleVars, payment, pool, faults, refunds>>

\* Mutant: only contributions somebody tried to pay are counted.
UnpaidMutant(p) == {k \in DOMAIN contribution : k[1] = CycleOf(p) /\ contribution[k].status # "paid"
                                                 /\ contribution[k].by # {} /\ k \notin For(p)}

\* Contributions of the cycle that this transaction sees unpaid.
Unpaid(p) == {k \in DOMAIN contribution :
                k[1] = CycleOf(p) /\ contribution[k].status # "paid" /\ k \notin For(p)}

CountUnpaid(p) ==
  /\ HookAt(p, "count")
  /\ hook' = [hook EXCEPT ![p].unpaid = Unpaid(p), ![p].pc = "commit"]
  /\ UNCHANGED <<groupVars, cycleVars, payment, pool, faults, refunds, tail, append>>

\* The contribution is paid into the pool; if nobody else is unpaid, a pending
\* cycle becomes ready and gets its payout row.
CommitContribution(p) ==
  /\ HookAt(p, "commit")
  /\ LET n == CycleOf(p)
         ready == hook[p].unpaid = {} /\ cycle[n] = "pending_contributions"
     IN  /\ contribution' = [k \in DOMAIN contribution |->
              IF k \in For(p) THEN [contribution[k] EXCEPT !.status = "paid"] ELSE contribution[k]]
         /\ cycle' = IF ready THEN [cycle EXCEPT ![n] = "ready_for_payout"] ELSE cycle
         /\ payout' = IF ready /\ payout[n] = "none" THEN [payout EXCEPT ![n] = "pending"] ELSE payout
         /\ pool' = IF hook[p].fresh THEN pool + 1 ELSE pool
  /\ hook' = [hook EXCEPT ![p].pc = "applied"]
  /\ Publish(p)
  /\ UNCHANGED <<groupVars, payment, faults, refunds>>

ContributionDone(p) ==
  /\ HookAt(p, "applied")
  /\ hook' = [hook EXCEPT ![p] = NoHook]
  /\ UNCHANGED <<groupVars, cycleVars, payment, pool, faults, refunds, tail, append>>

\* A statement fails or the process dies, before or after the commit: the hook
\* is still pending and runs again.
ContributionHookFails(p) ==
  /\ hook[p].pc \notin {"idle", "due"} /\ faults + refunds < MaxMishaps
  /\ faults' = faults + 1
  /\ hook' = [hook EXCEPT ![p] = [NoHook EXCEPT !.pc = "due"]]
  /\ Withdraw(p)
  /\ UNCHANGED <<tail, groupVars, cycleVars, payment, pool, refunds>>

\* RefundPayment reverses the journal of the payment; the contribution stays.
RefundContribution(p) ==
  /\ payment[p].status = "succeeded" /\ faults + refunds < MaxMishaps
  /\ PostAtOnce
  /\ payment' = [payment EXCEPT ![p].status = "refunded"]
  /\ refunds' = refunds + 1
  /\ pool' = IF \E k \in For(p) : contribution[k].status = "paid" THEN pool - 1 ELSE pool
  /\ UNCHANGED <<groupVars, cycleVars, hook, faults>>

-----------------------------------------------------------------------------
(* Payouts.                                                                *)

Pot(n) == {k \in DOMAIN contribution : k[1] = n}

\* Mutant: the cycle that completes a group is counted from zero.
LastCycleMutant(n) == n + 1 >= group.target

LastCycle(n) == n >= group.target

\* MarkThriftPayoutCompleted under the lock of the payout row: the pool pays
\* out; the last cycle completes the group, another one opens the next.
MarkThriftPayoutCompleted(n) ==
  /\ n \in Cycles /\ payout[n] = "pending"
  /\ PostAtOnce
  /\ pool' = pool - Number(Pot(n))
  /\ IF LastCycle(n)
     THEN /\ cycle' = [cycle EXCEPT ![n] = "payout_completed"]
          /\ payout' = [payout EXCEPT ![n] = "completed"]
          /\ group' = [group EXCEPT !.status = "completed"]
          /\ UNCHANGED contribution
     ELSE /\ \E u \in Users : position[u] = n + 1
          /\ cycle' = Append([cycle EXCEPT ![n] = "payout_completed"], "pending_contributions")
          /\ payout' = Append([payout EXCEPT ![n] = "completed"], "none")
          /\ contribution' = OpenCycle(n + 1, Active)
          /\ group' = [group EXCEPT !.current = n + 1]
  /\ UNCHANGED <<member, position, counted, payment, hook, faults, refunds>>

-----------------------------------------------------------------------------
\* Other postings take their turn in the journal between these.
OtherPosting(o) ==
  /\ UNCHANGED thriftVars
  /\ CASE append[o] = NoAppend  -> ReadTail(o) /\ UNCHANGED tail
       [] append[o].tail >= 0 /\ append[o].row = 0 -> Insert(o) /\ UNCHANGED tail
       [] OTHER -> Publish(o)

ApplyHook(p) ==
  \/ ApplyContribution(p) \/ PostContribution(p) \/ CountUnpaid(p)
  \/ CommitContribution(p) \/ ContributionDone(p)

Membership ==
  /\ \/ \E u \in Users : CountMembers(u) \/ JoinThriftGroup(u)
     \/ ActivateThriftGroup
     \/ \E t \in Targets : UpdateThriftGroup(t)
  /\ UNCHANGED <<tail, append>>

Gateway ==
  /\ \E p \in Contributors :
       Succeeds(p) \/ Fails(p) \/ \E u \in Users : DraftContribution(p, u)
  /\ UNCHANGED <<tail, append>>

ThriftNext ==
  \/ Membership
  \/ Gateway
  \/ \E p \in Contributors : ApplyHook(p) \/ ContributionHookFails(p) \/ RefundContribution(p)
  \/ \E n \in Cycles : MarkThriftPayoutCompleted(n)
  \/ \E o \in Others : OtherPosting(o)

ThriftSpec == LedgerInit /\ ThriftInit /\ [][ThriftNext]_<<tail, append, thriftVars>>

-----------------------------------------------------------------------------
(* Properties.                                                             *)

ThriftTypeOK ==
  /\ group.status \in {"inviting", "active", "completed"}
  /\ member \in [Users -> {"none", "confirmed", "active"}]
  /\ Len(cycle) = group.current /\ Len(payout) = group.current
  /\ \A k \in DOMAIN contribution :
       /\ k \in Cycles \X Active
       /\ contribution[k].status \in {"awaiting", "paid"}
       /\ contribution[k].by \subseteq Contributors
  /\ \A n \in Cycles : payout[n] \in {"none", "pending", "completed"}
  /\ \A p \in Contributors :
       /\ payment[p].status \in {"none", "pending", "succeeded", "failed", "refunded"}
       /\ hook[p].pc \in {"idle", "due", "post", "count", "commit", "applied"}
  /\ pool \in Int

\* A payout is due, and later made, only when every member of the rotation paid
\* that cycle, by a payment of their own that succeeded; and but for refunds
\* the pool holds exactly the contributions of the cycles not paid out.
PotIsWhole ==
  /\ \A n \in Cycles : payout[n] # "none" =>
       /\ {k[2] : k \in Pot(n)} = Active
       /\ \A k \in Pot(n) : contribution[k].status = "paid"
  /\ \A k \in DOMAIN contribution : contribution[k].status = "paid" =>
       \E p \in contribution[k].by : /\ payment[p].by = {k[2]}
                                     /\ payment[p].status \in {"succeeded", "refunded"}
  /\ refunds = 0 =>
       pool = Number({k \in DOMAIN contribution :
                        contribution[k].status = "paid" /\ payout[k[1]] # "completed"})

\* Every member of the rotation receives exactly one pot: positions are those
\* of a permutation, cycles are paid out in order, one is open at a time, and
\* the group ends with the last of them.
RotationIsFair ==
  group.status # "inviting" =>
    /\ {position[u] : u \in Active} = 1 .. Number(Active)
    /\ group.target = Number(Active) /\ group.current <= group.target
    /\ \A n \in Cycles : n < group.current => payout[n] = "completed"
    /\ group.status = "completed" <=>
         group.current = group.target /\ payout[group.target] = "completed"

\* What the members of a group rely on, both together.
ThriftSafe == PotIsWhole /\ RotationIsFair

-----------------------------------------------------------------------------
(* What a reader might expect of this code and the code does not do.       *)

\* A group takes no more members than its target.
NotOverfull == Inviting => Number(Confirmed) <= group.target

\* A payment that succeeded and was applied counts for a contribution.
NothingPaidInVain ==
  \A p \in Contributors :
    payment[p].status = "succeeded" /\ HookAt(p, "idle") => For(p) # {}

\* A cycle whose contributions are all applied has its payout.
ReadyWhenPaid ==
  \A n \in Cycles :
    (\A k \in Pot(n) : contribution[k].status = "paid") /\ (\A p \in Contributors : HookAt(p, "idle"))
      => payout[n] # "none"

\* The pool is never overdrawn.
PoolCovers == pool >= 0
=============================================================================
