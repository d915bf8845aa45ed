---------------------------- MODULE NumberLease ----------------------------
(***************************************************************************)
(* The promise of the routing-number pool (services/routing-pool.service.ts): *)
(* a number is free, held by one request, or used by one tenant number, and *)
(* goes from one holder to another only through being free.                *)
(***************************************************************************)
CONSTANTS Numbers, Requests, NoRequest

\* lease[n].by is the request that holds n, or whose tenant number uses it.
VARIABLE lease

Lease(state, by) == [state |-> state, by |-> by]

\* The operator may have filled the pool before.
LeaseInit == lease \in [Numbers -> {Lease("none", NoRequest), Lease("free", NoRequest)}]

\* n enters the pool.
Offer(n) ==
  lease[n].state = "none" /\ lease' = [lease EXCEPT ![n] = Lease("free", NoRequest)]

\* r claims a free number, or buys a new one for itself.
Acquire(n, r) ==
  lease[n].state \in {"free", "none"} /\ lease' = [lease EXCEPT ![n] = Lease("held", r)]

\* The holder links its tenant number.
Commit(n) ==
  lease[n].state = "held" /\ lease' = [lease EXCEPT ![n] = Lease("used", @.by)]

\* A claim is undone, or the tenant number is deleted.
Return(n) ==
  /\ lease[n].state \in {"held", "used"}
  /\ lease' = [lease EXCEPT ![n] = Lease("free", NoRequest)]

\* The holder ends without either: nobody returns the number.
Lose(n) ==
  lease[n].state = "held" /\ lease' = [lease EXCEPT ![n] = Lease("lost", NoRequest)]

\* An administrator takes the row out of the pool; the check that nobody has the
\* number is a statement earlier.
Withdraw(n) ==
  /\ lease[n].state \notin {"none", "gone"}
  /\ lease' = [lease EXCEPT ![n] = Lease("gone", NoRequest)]

LeaseNext ==
  \E n \in Numbers : \/ Offer(n) \/ Commit(n) \/ Return(n) \/ Lose(n) \/ Withdraw(n)
                     \/ \E r \in Requests : Acquire(n, r)

LeaseSpec == LeaseInit /\ [][LeaseNext]_lease
=============================================================================
