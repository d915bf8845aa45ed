----------------------------- MODULE NumberPool -----------------------------
(***************************************************************************)
(* Routing numbers and tenant numbers (services/routing-pool.service.ts,   *)
(* lib/routing-pool.ts, routes/phone-numbers.ts, routes/admin.ts,          *)
(* routes/tenants.ts, the voice webhook and the Twilio adapter).           *)
(*                                                                         *)
(* A request is split at its statements: an action is one statement, or one *)
(* call of the provider, with the code up to the next.  A request is served *)
(* once, and its name also identifies the PhoneNumber row it creates.      *)
(***************************************************************************)
EXTENDS Naturals, FiniteSets

CONSTANTS Numbers,       \* numbers (E.164)
          Requests,      \* requests of the dashboard and the admin console
          Tenants,
          NoRequest, NoNumber, NoTenant,
          Country,       \* country of a number or tenant
          Assistants,    \* assistants of a tenant
          CanProvision,  \* whether Twilio is configured
          MaxAttempts,   \* attempts of claimFromPool, 6 in the code
          PoolFaults     \* bound: failed statements and stopped processes

ASSUME NumberPoolAssumption ==
  /\ NoRequest \notin Requests /\ NoNumber \notin Numbers /\ NoTenant \notin Tenants
  /\ CanProvision \in BOOLEAN /\ MaxAttempts \in Nat \ {0} /\ PoolFaults \in Nat

VARIABLES pool,     \* pool[n]: the RoutingNumber row of n
          phones,   \* phones[p]: the PhoneNumber row created by request p
          owned,    \* numbers of the platform's Twilio account
          live,     \* tenants that exist
          job,      \* job[r]: request r, at its next statement
          poolFaults,
          mixed     \* history: numbers both pooled and in use by accident

numberVars == <<pool, phones, owned, live, job, poolFaults, mixed>>

\* "none": no row yet; "removed": the row was deleted (bound: not added again).
Row(status, link, tenant) == [status |-> status, link |-> link, tenant |-> tenant]
NoRow == Row("none", NoRequest, NoTenant)

Phone(number, tenant, forwarding) ==
  [number |-> number, tenant |-> tenant, forwarding |-> forwarding, called |-> FALSE]
NoPhone == Phone(NoNumber, NoTenant, "none")

Job(op, at, tenant) ==
  [op |-> op, at |-> at, tenant |-> tenant, number |-> NoNumber, phone |-> NoRequest,
   attempt |-> 1]

\* PhoneNumber.e164Hash is unique.
Registered(n) == \E p \in Requests : phones[p].number = n

InPool(n) == pool[n].status \in {"available", "assigned"}

\* No assistant asked for and several there: the tenant has to choose.
Resolves(own, requested) ==
  \/ requested \in own
  \/ requested = NoRequest /\ Cardinality(own) = 1

\* A number of the tenant's country if there is one; the order by age is left open.
Preferred(available, country) ==
  LET same == {n \in available : Country[n] = country}
  IN  IF same # {} THEN same ELSE available

\* The operator may have filled the pool before.
NumbersInit ==
  /\ pool \in [Numbers -> {NoRow, Row("available", NoRequest, NoTenant)}]
  /\ phones = [p \in Requests |-> NoPhone]
  /\ owned = {}
  /\ live = Tenants
  /\ job = [r \in Requests |-> Job("none", "idle", NoTenant)]
  /\ poolFaults = 0
  /\ mixed = {}

\* r goes on at statement a; to "done" it has been answered.
GoTo(r, a) == job' = [job EXCEPT ![r].at = a]

GoToWith(r, a, n) == job' = [job EXCEPT ![r].at = a, ![r].number = n]

Rows == <<pool, phones, owned, live>>
Rest == <<live, poolFaults, mixed>>

---------------------------------------------------------------------------
(* Requests arrive.                                                         *)

\* POST /phone-numbers/keep-number
KeepNumber(r, t) ==
  /\ job[r].at = "idle" /\ t \in live
  /\ \E requested \in Assistants[t] \cup {NoRequest} : Resolves(Assistants[t], requested)
  /\ job' = [job EXCEPT ![r] = Job("keep", "choose", t)]
  /\ UNCHANGED <<Rows, poolFaults, mixed>>

\* POST /phone-numbers and /phone-numbers/purchase: the number must be new.
RegisterNumber(r, t, n, op) ==
  /\ job[r].at = "idle" /\ t \in live /\ ~Registered(n)
  /\ op = "purchase" => CanProvision
  /\ \E requested \in Assistants[t] \cup {NoRequest} : Resolves(Assistants[t], requested)
  /\ job' = [job EXCEPT ![r] = [Job(op, IF op = "purchase" THEN "buy" ELSE "create", t)
                                EXCEPT !.number = n]]
  /\ UNCHANGED <<Rows, poolFaults, mixed>>

\* DELETE /phone-numbers/:id
DeleteNumber(r, p) ==
  /\ job[r].at = "idle" /\ phones[p] # NoPhone
  /\ job' = [job EXCEPT ![r] = [Job("delete", "release", phones[p].tenant) EXCEPT !.phone = p]]
  /\ UNCHANGED <<Rows, poolFaults, mixed>>

\* POST /admin/routing-numbers
AddRoutingNumber(r, n, purchase) ==
  /\ job[r].at = "idle" /\ pool[n].status = "none"
  /\ purchase => CanProvision
  /\ job' = [job EXCEPT ![r] = [Job("add", IF purchase THEN "buy" ELSE "record", NoTenant)
                                EXCEPT !.number = n]]
  /\ UNCHANGED <<Rows, poolFaults, mixed>>

\* DELETE /admin/routing-numbers/:id
RemoveRoutingNumber(r, n) ==
  /\ job[r].at = "idle" /\ pool[n].status = "available"
  /\ job' = [job EXCEPT ![r] = [Job("remove", "remove", NoTenant) EXCEPT !.number = n]]
  /\ UNCHANGED <<Rows, poolFaults, mixed>>

---------------------------------------------------------------------------
(* claimFromPool and provisionFresh.                                        *)

Choose(r) ==
  LET available == {n \in Numbers : pool[n].status = "available"} IN
  /\ job[r].at = "choose"
  /\ IF available = {} THEN GoTo(r, IF CanProvision THEN "search" ELSE "done")
     ELSE \E n \in Preferred(available, Country[job[r].tenant]) : GoToWith(r, "claim", n)
  /\ UNCHANGED <<Rows, poolFaults, mixed>>

\* Mutant: after the last attempt the contended number is returned.
Retry_ReturnsLast(r) ==
  IF job[r].attempt < MaxAttempts
  THEN job' = [job EXCEPT ![r].at = "choose", ![r].attempt = @ + 1, ![r].number = NoNumber]
  ELSE GoTo(r, "create")

\* Mutant: one attempt too many.
Retry_OnceMore(r) ==
  IF job[r].attempt <= MaxAttempts
  THEN job' = [job EXCEPT ![r].at = "choose", ![r].attempt = @ + 1, ![r].number = NoNumber]
  ELSE GoToWith(r, IF CanProvision THEN "search" ELSE "done", NoNumber)

\* The next attempt, or after the last one provisionFresh.
Retry(r) ==
  IF job[r].attempt < MaxAttempts
  THEN job' = [job EXCEPT ![r].at = "choose", ![r].attempt = @ + 1, ![r].number = NoNumber]
  ELSE GoToWith(r, IF CanProvision THEN "search" ELSE "done", NoNumber)

\* Mutant: the update names the row only.
Claim_Unguarded(r) ==
  LET n == job[r].number IN
  /\ job[r].at = "claim"
  /\ pool' = [pool EXCEPT ![n].status = "assigned"] /\ GoTo(r, "fetch")
  /\ UNCHANGED <<phones, owned, Rest>>

\* updateMany where the status is still available.
Claim(r) ==
  LET n == job[r].number IN
  /\ job[r].at = "claim"
  /\ IF pool[n].status = "available"
     THEN pool' = [pool EXCEPT ![n].status = "assigned"] /\ GoTo(r, "fetch")
     ELSE Retry(r) /\ UNCHANGED pool
  /\ UNCHANGED <<phones, owned, Rest>>

\* The claimed row is read again; an administrator may have deleted it.
Fetch(r) ==
  /\ job[r].at = "fetch"
  /\ IF InPool(job[r].number) THEN GoTo(r, "create") ELSE Retry(r)
  /\ UNCHANGED <<Rows, poolFaults, mixed>>

\* The provider offers a number it has not sold, or none.
Search(r) ==
  /\ job[r].at = "search"
  /\ \/ \E n \in Numbers \ owned : GoToWith(r, "buy", n)
     \/ GoTo(r, "done")
  /\ UNCHANGED <<Rows, poolFaults, mixed>>

\* The provider sells a number once.
Buy(r) ==
  LET n == job[r].number IN
  /\ job[r].at = "buy"
  /\ IF n \notin owned
     THEN /\ owned' = owned \cup {n}
          /\ GoTo(r, IF job[r].op = "purchase" THEN "create" ELSE "record")
     ELSE GoTo(r, "done") /\ UNCHANGED owned
  /\ UNCHANGED <<pool, phones, Rest>>

\* The row of a bought or added number; RoutingNumber.e164Hash is unique.
Record(r) ==
  LET n == job[r].number  fresh == job[r].op = "keep" IN
  /\ job[r].at = "record"
  /\ IF pool[n].status = "none"
     THEN /\ pool' = [pool EXCEPT ![n].status = IF fresh THEN "assigned" ELSE "available"]
          /\ GoTo(r, IF fresh THEN "create" ELSE "done")
          /\ mixed' = IF Registered(n) THEN mixed \cup {n} ELSE mixed
     ELSE GoTo(r, "done") /\ UNCHANGED <<pool, mixed>>
  /\ UNCHANGED <<phones, owned, live, poolFaults>>

---------------------------------------------------------------------------
(* The tenant's number.                                                     *)

\* phoneNumber.create: unique number, existing tenant; then linkRoutingNumber
\* for a kept number, whose claim is rolled back otherwise.
CreatePhone(r) ==
  LET n == job[r].number  keep == job[r].op = "keep" IN
  /\ job[r].at = "create"
  /\ IF job[r].tenant \in live /\ ~Registered(n)
     THEN /\ \E display \in BOOLEAN :
               /\ keep => display
               /\ job[r].op = "purchase" => ~display
               /\ phones' = [phones EXCEPT ![r] =
                               Phone(n, job[r].tenant, IF display THEN "pending" ELSE "active")]
          /\ GoTo(r, IF keep THEN "link" ELSE "done")
          /\ mixed' = IF ~keep /\ InPool(n) THEN mixed \cup {n} ELSE mixed
     ELSE GoTo(r, IF keep THEN "rollback" ELSE "done") /\ UNCHANGED <<phones, mixed>>
  /\ UNCHANGED <<pool, owned, live, poolFaults>>

\* linkRoutingNumber throws when the row is gone.
LinkRoutingNumber(r) ==
  LET n == job[r].number IN
  /\ job[r].at = "link"
  /\ IF InPool(n)
     THEN /\ pool' = [pool EXCEPT ![n].link = r, ![n].tenant = job[r].tenant]
          /\ GoTo(r, "done")
     ELSE GoTo(r, "rollback") /\ UNCHANGED pool
  /\ UNCHANGED <<phones, owned, Rest>>

\* releaseClaim, unless the number was linked.
ReleaseClaim(r) ==
  LET n == job[r].number IN
  /\ job[r].at = "rollback"
  /\ pool' = IF InPool(n) /\ pool[n].link = NoRequest
             THEN [pool EXCEPT ![n] = Row("available", NoRequest, NoTenant)] ELSE pool
  /\ GoTo(r, "done")
  /\ UNCHANGED <<phones, owned, Rest>>

\* Mutant: every routing number of the tenant is released.
ReleaseByPhoneNumber_ByTenant(r) ==
  /\ job[r].at = "release"
  /\ pool' = [n \in Numbers |-> IF InPool(n) /\ pool[n].tenant = job[r].tenant
                                THEN Row("available", NoRequest, NoTenant) ELSE pool[n]]
  /\ GoTo(r, "delete")
  /\ UNCHANGED <<phones, owned, Rest>>

\* releaseByPhoneNumber, the first statement of a deletion.
ReleaseByPhoneNumber(r) ==
  /\ job[r].at = "release"
  /\ pool' = [n \in Numbers |-> IF InPool(n) /\ pool[n].link = job[r].phone
                                THEN Row("available", NoRequest, NoTenant) ELSE pool[n]]
  /\ GoTo(r, "delete")
  /\ UNCHANGED <<phones, owned, Rest>>

\* phoneNumber.delete, refused while a call refers to the number.
DeletePhone(r) ==
  LET p == job[r].phone IN
  /\ job[r].at = "delete"
  /\ IF phones[p].called
     THEN mixed' = mixed \cup {phones[p].number} /\ UNCHANGED phones
     ELSE phones' = [phones EXCEPT ![p] = NoPhone] /\ UNCHANGED mixed
  /\ GoTo(r, "done")
  /\ UNCHANGED <<pool, owned, live, poolFaults>>

\* routingNumber.delete, whatever the status is by now.
RemoveRow(r) ==
  /\ job[r].at = "remove"
  /\ pool' = IF InPool(job[r].number)
             THEN [pool EXCEPT ![job[r].number] = Row("removed", NoRequest, NoTenant)] ELSE pool
  /\ GoTo(r, "done")
  /\ UNCHANGED <<phones, owned, Rest>>

\* DELETE /admin/tenants/:id: the tenant's numbers go with it by cascade, the
\* pool has no foreign key; refused while a call refers to one of the numbers.
DeleteTenant(t) ==
  /\ t \in live
  /\ \A p \in Requests : phones[p].tenant = t => ~phones[p].called
  /\ live' = live \ {t}
  /\ phones' = [p \in Requests |-> IF phones[p].tenant = t THEN NoPhone ELSE phones[p]]
  /\ UNCHANGED <<pool, owned, job, poolFaults, mixed>>

\* The voice webhook: a served call is recorded, and the first one verifies the
\* forwarding.  (A number is created active here.)
InboundCall(n) ==
  \E p \in Requests :
    /\ phones[p].number = n
    /\ phones' = [phones EXCEPT ![p].called = TRUE, ![p].forwarding = "active"]
    /\ UNCHANGED <<pool, owned, job, Rest>>

---------------------------------------------------------------------------
(* Failures.                                                                *)

\* The numbers left both free and in use when r ends here.
Exposed(r) ==
  {n \in Numbers : \/ job[r].at = "link" /\ job[r].number = n
                   \/ job[r].at = "delete" /\ phones[job[r].phone].number = n}

Faulty(r) ==
  /\ poolFaults < PoolFaults /\ poolFaults' = poolFaults + 1
  /\ job[r].at \notin {"idle", "done"}
  /\ UNCHANGED Rows

\* A statement throws.  Once acquireRoutingNumber has returned, keep-number
\* rolls back; every other request gives up.
Fail(r) ==
  /\ Faulty(r)
  /\ GoTo(r, IF job[r].op = "keep" /\ job[r].at \in {"create", "link"} THEN "rollback" ELSE "done")
  /\ mixed' = mixed \cup Exposed(r)

\* The process stops.
Stop(r) ==
  /\ Faulty(r)
  /\ GoTo(r, "done")
  /\ mixed' = IF job[r].at = "delete" THEN mixed \cup Exposed(r) ELSE mixed

---------------------------------------------------------------------------
RequestArrives(r) ==
  \/ \E t \in Tenants : KeepNumber(r, t)
  \/ \E t \in Tenants, n \in Numbers, op \in {"create", "purchase"} : RegisterNumber(r, t, n, op)
  \/ \E p \in Requests : DeleteNumber(r, p)
  \/ \E n \in Numbers, purchase \in BOOLEAN : AddRoutingNumber(r, n, purchase)
  \/ \E n \in Numbers : RemoveRoutingNumber(r, n)

RequestStep(r) ==
  \/ Choose(r) \/ Claim(r) \/ Fetch(r) \/ Search(r) \/ Buy(r) \/ Record(r)
  \/ CreatePhone(r) \/ LinkRoutingNumber(r) \/ ReleaseClaim(r)
  \/ ReleaseByPhoneNumber(r) \/ DeletePhone(r) \/ RemoveRow(r)

NumbersNext ==
  \/ \E r \in Requests : RequestArrives(r) \/ RequestStep(r) \/ Fail(r) \/ Stop(r)
  \/ \E t \in Tenants : DeleteTenant(t)
  \/ \E n \in Numbers : InboundCall(n)

NumbersSpec == NumbersInit /\ [][NumbersNext]_numberVars

---------------------------------------------------------------------------
(* Properties.                                                              *)

Ops == {"none", "keep", "create", "purchase", "delete", "add", "remove"}
Places == {"idle", "choose", "claim", "fetch", "search", "buy", "record", "create", "link",
           "rollback", "release", "delete", "remove", "done"}

RowType == [status : {"none", "available", "assigned", "removed"},
            link : Requests \cup {NoRequest}, tenant : Tenants \cup {NoTenant}]
PhoneType == [number : Numbers \cup {NoNumber}, tenant : Tenants \cup {NoTenant},
              forwarding : {"none", "pending", "active"}, called : BOOLEAN]
JobType == [op : Ops, at : Places, tenant : Tenants \cup {NoTenant}, number : Numbers \cup {NoNumber},
            phone : Requests \cup {NoRequest}, attempt : 1..MaxAttempts]

\* The rows and the requests have their types.
NumbersTypeOK ==
  /\ pool \in [Numbers -> RowType] /\ phones \in [Requests -> PhoneType]
  /\ owned \subseteq Numbers /\ live \subseteq Tenants /\ mixed \subseteq Numbers
  /\ job \in [Requests -> JobType]
  /\ poolFaults \in 0..PoolFaults

\* A keep-number request between its claim and its link or rollback.
Holds(r, n) ==
  job[r].op = "keep" /\ job[r].number = n /\ job[r].at \in {"fetch", "create", "link", "rollback"}

\* "Two concurrent requests never grab the same number" (routing-pool.service.ts:5):
\* a number is held by one request at most, and while it is held it is neither
\* free nor linked, whatever fails or is deleted meanwhile.
ClaimIsExclusive ==
  \A n \in Numbers, r \in Requests :
    Holds(r, n) =>
      /\ \A s \in Requests : Holds(s, n) => s = r
      /\ InPool(n) => pool[n].status = "assigned" /\ pool[n].link = NoRequest

\* The tenant number a routing number is linked to has that very number and the
\* tenant the pool names (routing-pool.service.ts:77), so that an inbound call
\* reaches the tenant the console shows; a number is linked once, and a free
\* one is not linked at all.
LinkIsConsistent ==
  \A n \in Numbers :
    LET p == pool[n].link IN
      p # NoRequest =>
        /\ pool[n].status = "assigned"
        /\ phones[p] # NoPhone => phones[p].number = n /\ phones[p].tenant = pool[n].tenant
        /\ \A m \in Numbers : pool[m].link = p => m = n

\* A free number of the pool is in use by a tenant only while its deletion is
\* under way, or after one of the accidents of mixed: a claim rolled back after the
\* number was created (phone-numbers.ts:149), a deletion that failed after the
\* release (phone-numbers.ts:266), a number both typed in and pooled.
FreeIsUnusedUnlessAccident ==
  \A n \in Numbers, p \in Requests :
    pool[n].status = "available" /\ phones[p].number = n =>
      n \in mixed \/ \E r \in Requests : job[r].at = "delete" /\ job[r].phone = p

\* Links are consistent, and a free number is unused but for the accidents above.
PoolIsConsistentUnlessAccident == LinkIsConsistent /\ FreeIsUnusedUnlessAccident

\* The number as the promise of the pool sees it.
LeaseOf(n) ==
  IF ~InPool(n) THEN [state |-> IF pool[n].status = "none" THEN "none" ELSE "gone", by |-> NoRequest]
  ELSE IF pool[n].status = "available" THEN [state |-> "free", by |-> NoRequest]
  ELSE IF pool[n].link # NoRequest THEN [state |-> "used", by |-> pool[n].link]
  ELSE IF \E r \in Requests : Holds(r, n)
       THEN [state |-> "held", by |-> CHOOSE r \in Requests : Holds(r, n)]
       ELSE [state |-> "lost", by |-> NoRequest]

leases == [n \in Numbers |-> LeaseOf(n)]
Promise == INSTANCE NumberLease WITH lease <- leases

\* The pool implements the lease of its numbers, Promise!LeaseSpec: no statement of
\* any request moves a number from one holder to another, or out of use into other
\* hands.  (Most steps stutter; the premise spares TLC LeaseNext for them.)
ImplementsLease ==
  Promise!LeaseInit /\ [][leases' # leases => Promise!LeaseNext]_leases

\* "Set when status = assigned. Not a FK (no cascade): released on delete."
\* (prisma/schema.prisma:553): the pool does not refer to a deleted number.
ReleasedOnDelete ==
  \A n \in Numbers : pool[n].link # NoRequest => phones[pool[n].link] # NoPhone
=============================================================================
