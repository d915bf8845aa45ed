-------------------------- MODULE NumberPool_proofs --------------------------
(***************************************************************************)
(* Proofs about NumberPool, for any numbers, requests and tenants and any  *)
(* number of failures: no number has two holders, links agree with the     *)
(* tenants' numbers, a free number is in use only after an accident, and   *)
(* the pool implements NumberLease.                                        *)
(***************************************************************************)
EXTENDS NumberPool, TLAPS

(***************************************************************************)
(* What a statement does to the requests.                                  *)
(***************************************************************************)

\* The others stay, and r keeps what it was asked.
Advances(r) ==
  /\ \A s \in Requests \ {r} : job'[s] = job[s]
  /\ job'[r].op = job[r].op /\ job'[r].tenant = job[r].tenant /\ job'[r].phone = job[r].phone

\* Going on to a statement changes nothing else of a request.
LEMMA GoToEffect ==
  ASSUME NumbersTypeOK, NEW r \in Requests, NEW a \in Places, GoTo(r, a)
  PROVE  /\ Advances(r) /\ job'[r].at = a /\ job'[r].number = job[r].number
         /\ job' \in [Requests -> JobType]
<1>1. job \in [Requests -> JobType]
  BY DEF NumbersTypeOK
<1> QED
  BY <1>1 DEF GoTo, Advances, JobType

\* Going on with a number changes the number, too.
LEMMA GoToWithEffect ==
  ASSUME NumbersTypeOK, NEW r \in Requests, NEW a \in Places,
         NEW n \in Numbers \cup {NoNumber}, GoToWith(r, a, n)
  PROVE  /\ Advances(r) /\ job'[r].at = a /\ job'[r].number = n
         /\ job' \in [Requests -> JobType]
<1>1. job \in [Requests -> JobType]
  BY DEF NumbersTypeOK
<1> DEFINE new == [job[r] EXCEPT !.at = a, !.number = n]
<1>2. job' = [job EXCEPT ![r] = new]
  BY <1>1 DEF GoToWith, JobType
<1>3. /\ new \in JobType /\ new.at = a /\ new.number = n
      /\ new.op = job[r].op /\ new.tenant = job[r].tenant /\ new.phone = job[r].phone
  BY <1>1 DEF JobType
<1> HIDE DEF new
<1> QED
  BY <1>1, <1>2, <1>3 DEF Advances

\* A failed attempt leads to the next one, to the provider, or ends the request; the
\* number is forgotten.
LEMMA RetryEffect ==
  ASSUME NumbersTypeOK, NEW r \in Requests, Retry(r)
  PROVE  /\ Advances(r) /\ job'[r].at \in {"choose", "search", "done"} /\ job'[r].number = NoNumber
         /\ job' \in [Requests -> JobType]
<1>1. job \in [Requests -> JobType] /\ MaxAttempts \in Nat
  BY NumberPoolAssumption DEF NumbersTypeOK
<1>2. CASE job[r].attempt < MaxAttempts
  <2> DEFINE new == [job[r] EXCEPT !.at = "choose", !.attempt = @ + 1, !.number = NoNumber]
  <2>1. job' = [job EXCEPT ![r] = new]
    BY <1>1, <1>2 DEF Retry, JobType
  <2>a. job[r] \in JobType /\ job[r].attempt \in 1..MaxAttempts
    BY <1>1 DEF JobType
  <2>b. job[r].attempt + 1 \in 1..MaxAttempts
    BY <1>1, <1>2, <2>a
  <2>2. /\ new \in JobType /\ new.at = "choose" /\ new.number = NoNumber
        /\ new.op = job[r].op /\ new.tenant = job[r].tenant /\ new.phone = job[r].phone
    BY <2>a, <2>b DEF JobType, Places
  <2> HIDE DEF new
  <2> QED
    BY <1>1, <2>1, <2>2 DEF Advances
<1>3. CASE ~(job[r].attempt < MaxAttempts)
  BY <1>1, <1>3, GoToWithEffect DEF Retry, Places
<1> QED
  BY <1>2, <1>3

(***************************************************************************)
(* The inductive invariant.                                                *)
(***************************************************************************)

\* A request knows its number, or the tenant's number, where it needs one, and only a
\* keep-number request claims, links and rolls back.
JobsOK ==
  \A r \in Requests :
    /\ job[r].at \in {"release", "delete"} => job[r].phone \in Requests
    /\ job[r].at \in {"claim", "fetch", "buy", "record", "create", "link", "rollback", "remove"} =>
         job[r].number \in Numbers
    /\ job[r].at \in {"choose", "claim", "fetch", "search", "link", "rollback"} => job[r].op = "keep"

\* Only an assigned number is linked.
RowsOK == \A n \in Numbers : pool[n].link # NoRequest => pool[n].status = "assigned"

\* What a request holds it holds alone, and it is assigned, unless its row was removed.
HoldersOK ==
  \A n \in Numbers, r \in Requests :
    Holds(r, n) => /\ pool[n].status \in {"assigned", "removed"} /\ pool[n].link = NoRequest
                   /\ \A s \in Requests : Holds(s, n) => s = r

\* A tenant's number is the one its request was about, which has come past the creation.
PhonesOK ==
  \A p \in Requests :
    phones[p] # NoPhone =>
      /\ phones[p].number \in Numbers /\ phones[p].number = job[p].number
      /\ phones[p].tenant = job[p].tenant /\ job[p].at \in {"link", "rollback", "done"}

\* A number is linked to the finished request that claimed it.
LinksOK ==
  \A n \in Numbers :
    LET p == pool[n].link IN
      p # NoRequest => /\ job[p].op = "keep" /\ job[p].at = "done"
                       /\ job[p].number = n /\ job[p].tenant = pool[n].tenant

\* Assigned to p's number, or on the way there; nobody else will free it.
InUse(p, n) ==
  /\ pool[n].status = "assigned" /\ pool[n].link \in {NoRequest, p}
  /\ \A r \in Requests : Holds(r, n) => r = p /\ job[r].at = "link"

Deleting(p) == \E d \in Requests : job[d].at = "delete" /\ job[d].phone = p

\* A number that is pooled and a tenant's is in use, being deleted, or there by accident.
UseOK ==
  \A n \in Numbers, p \in Requests :
    InPool(n) /\ phones[p].number = n => n \in mixed \/ Deleting(p) \/ InUse(p, n)

PoolInv == NumbersTypeOK /\ JobsOK /\ RowsOK /\ HoldersOK /\ PhonesOK /\ LinksOK /\ UseOK

\* The invariant holds at the start: nobody has asked for anything.
LEMMA PoolInvInit == NumbersInit => PoolInv
<1> SUFFICES ASSUME NumbersInit PROVE PoolInv
  OBVIOUS
<1>1. /\ \A n \in Numbers : /\ pool[n] \in RowType /\ pool[n].link = NoRequest
                            /\ pool[n].status \in {"none", "available"}
      /\ \A r \in Requests : job[r].at = "idle" /\ phones[r] = NoPhone
  BY DEF NumbersInit, NoRow, Row, RowType, Job
<1>2. NumbersTypeOK
  <2>1. NoPhone \in PhoneType
    BY DEF NoPhone, Phone, PhoneType
  <2>2. Job("none", "idle", NoTenant) \in JobType
    BY NumberPoolAssumption DEF Job, JobType, Ops, Places
  <2>3. pool \in [Numbers -> RowType]
    BY <1>1 DEF NumbersInit
  <2> QED
    BY <2>1, <2>2, <2>3, NumberPoolAssumption DEF NumbersInit, NumbersTypeOK
<1>3. \A p \in Requests, n \in Numbers : phones[p].number # n /\ ~Holds(p, n)
  BY <1>1, NumberPoolAssumption DEF NoPhone, Phone, Holds
<1> QED
  BY <1>1, <1>2, <1>3 DEF PoolInv, JobsOK, RowsOK, HoldersOK, PhonesOK, LinksOK, UseOK

\* A request that neither claims nor links, and keeps what it holds unless it gives up.
LEMMA JobOnlyStep ==
  ASSUME PoolInv, NEW r \in Requests, NumbersTypeOK',
         UNCHANGED <<pool, phones>>, mixed \subseteq mixed',
         \A s \in Requests \ {r} : job'[s] = job[s],
         job[r].at # "done",
         job'[r].at \in {"release", "delete"} => job'[r].phone \in Requests,
         job'[r].at \in {"claim", "fetch", "buy", "record", "create", "link", "rollback", "remove"} =>
           job'[r].number \in Numbers,
         job'[r].at \in {"choose", "claim", "fetch", "search", "link", "rollback"} => job'[r].op = "keep",
         \A n \in Numbers : Holds(r, n)' => Holds(r, n),
         phones[r] # NoPhone => /\ job'[r].number = job[r].number /\ job'[r].tenant = job[r].tenant
                                /\ job'[r].at \in {"rollback", "done"},
         job[r].at = "link" /\ job'[r].at = "rollback" => job[r].number \in mixed' \/ ~InPool(job[r].number),
         job[r].at = "delete" => \A n \in Numbers : phones[job[r].phone].number = n => n \in mixed'
  PROVE  PoolInv'
<1>1. JobsOK' /\ RowsOK'
  BY DEF PoolInv, JobsOK, RowsOK
<1>2. \A s \in Requests, n \in Numbers : Holds(s, n)' => Holds(s, n)
  BY DEF Holds
<1>3. HoldersOK'
  BY <1>2 DEF PoolInv, HoldersOK
<1>4. PhonesOK'
  BY DEF PoolInv, PhonesOK
<1>5. LinksOK'
  BY DEF PoolInv, LinksOK, NumbersTypeOK, RowType
<1>6. UseOK'
  <2> SUFFICES ASSUME NEW n \in Numbers, NEW p \in Requests, InPool(n), phones[p].number = n,
                      n \notin mixed'
               PROVE  Deleting(p)' \/ InUse(p, n)'
    BY DEF UseOK, InPool
  <2>1. CASE Deleting(p)
    <3>1. PICK d \in Requests : job[d].at = "delete" /\ job[d].phone = p
      BY <2>1 DEF Deleting
    <3>2. d # r
      BY <3>1
    <3> QED
      BY <3>1, <3>2 DEF Deleting
  <2>2. CASE InUse(p, n)
    <3>1. \A s \in Requests : Holds(s, n)' => s = p /\ job[s].at = "link"
      BY <1>2, <2>2 DEF InUse
    <3>2. \A s \in Requests : Holds(s, n)' => job'[s].at = "link"
      <4> SUFFICES ASSUME Holds(r, n)' PROVE job'[r].at = "link"
        BY <3>1
      <4>1. r = p /\ job[r].at = "link" /\ Holds(r, n)
        BY <1>2, <3>1
      <4>2. job'[r].at # "rollback"
        BY <4>1 DEF Holds
      <4>3. phones[r] # NoPhone
        BY <4>1, NumberPoolAssumption DEF NoPhone, Phone
      <4> QED
        BY <4>2, <4>3 DEF Holds
    <3> QED
      BY <2>2, <3>1, <3>2 DEF InUse
  <2> QED
    BY <2>1, <2>2 DEF PoolInv, UseOK
<1> QED
  BY <1>1, <1>3, <1>4, <1>5, <1>6 DEF PoolInv

(***************************************************************************)
(* The steps that leave the rows of the pool and the tenants' numbers.     *)
(***************************************************************************)

\* A request that arrives gets its number or its row with the request, and only a
\* keep-number request has to choose one.
LEMMA ArrivalEffect ==
  ASSUME PoolInv, NEW r \in Requests, RequestArrives(r)
  PROVE  /\ UNCHANGED <<pool, phones, owned, live, poolFaults, mixed>> /\ job[r].at = "idle"
         /\ \E j \in JobType :
              /\ job' = [job EXCEPT ![r] = j]
              /\ j.at \in {"choose", "buy", "create", "release", "record", "remove"}
              /\ j.at = "release" => j.phone \in Requests
              /\ j.at \in {"buy", "create", "record", "remove"} => j.number \in Numbers
              /\ j.at = "choose" => j.op = "keep"
              /\ j.op = "keep" => j.at = "choose"
<1>a. NumbersTypeOK /\ job \in [Requests -> JobType] /\ job[r].at = "idle" /\ 1 \in 1..MaxAttempts
  BY NumberPoolAssumption
     DEF PoolInv, NumbersTypeOK, RequestArrives, KeepNumber, RegisterNumber, DeleteNumber,
         AddRoutingNumber, RemoveRoutingNumber
<1>1. CASE \E t \in Tenants : KeepNumber(r, t)
  <2>1. PICK t \in Tenants : KeepNumber(r, t)
    BY <1>1
  <2>2. Job("keep", "choose", t) \in JobType
    BY <1>a DEF Job, JobType, Ops, Places
  <2> QED
    BY <2>1, <2>2 DEF KeepNumber, Rows, Job
<1>2. CASE \E t \in Tenants, n \in Numbers, op \in {"create", "purchase"} : RegisterNumber(r, t, n, op)
  <2>1. PICK t \in Tenants, n \in Numbers, op \in {"create", "purchase"} : RegisterNumber(r, t, n, op)
    BY <1>2
  <2> DEFINE at == IF op = "purchase" THEN "buy" ELSE "create"
             j == [Job(op, at, t) EXCEPT !.number = n]
  <2>2. /\ j \in JobType /\ j.at \in {"buy", "create"} /\ j.number = n /\ j.op # "keep"
    BY <1>a DEF Job, JobType, Ops, Places
  <2>3. job' = [job EXCEPT ![r] = j] /\ UNCHANGED <<pool, phones, owned, live, poolFaults, mixed>>
    BY <2>1 DEF RegisterNumber, Rows
  <2> HIDE DEF j
  <2> QED
    BY <1>a, <2>2, <2>3
<1>3. CASE \E p \in Requests : DeleteNumber(r, p)
  <2>1. PICK p \in Requests : DeleteNumber(r, p)
    BY <1>3
  <2> DEFINE j == [Job("delete", "release", phones[p].tenant) EXCEPT !.phone = p]
  <2>2. j \in JobType /\ j.at = "release" /\ j.phone = p /\ j.op = "delete"
    BY <1>a DEF Job, JobType, Ops, Places, NumbersTypeOK, PhoneType
  <2>3. job' = [job EXCEPT ![r] = j] /\ UNCHANGED <<pool, phones, owned, live, poolFaults, mixed>>
    BY <2>1 DEF DeleteNumber, Rows
  <2> HIDE DEF j
  <2> QED
    BY <1>a, <2>2, <2>3
<1>4. CASE \E n \in Numbers, purchase \in BOOLEAN : AddRoutingNumber(r, n, purchase)
  <2>1. PICK n \in Numbers, purchase \in BOOLEAN : AddRoutingNumber(r, n, purchase)
    BY <1>4
  <2> DEFINE at == IF purchase THEN "buy" ELSE "record"
             j == [Job("add", at, NoTenant) EXCEPT !.number = n]
  <2>2. j \in JobType /\ j.at \in {"buy", "record"} /\ j.number = n /\ j.op = "add"
    BY <1>a DEF Job, JobType, Ops, Places
  <2>3. job' = [job EXCEPT ![r] = j] /\ UNCHANGED <<pool, phones, owned, live, poolFaults, mixed>>
    BY <2>1 DEF AddRoutingNumber, Rows
  <2> HIDE DEF j
  <2> QED
    BY <1>a, <2>2, <2>3
<1>5. CASE \E n \in Numbers : RemoveRoutingNumber(r, n)
  <2>1. PICK n \in Numbers : RemoveRoutingNumber(r, n)
    BY <1>5
  <2> DEFINE j == [Job("remove", "remove", NoTenant) EXCEPT !.number = n]
  <2>2. j \in JobType /\ j.at = "remove" /\ j.number = n /\ j.op = "remove"
    BY <1>a DEF Job, JobType, Ops, Places
  <2>3. job' = [job EXCEPT ![r] = j] /\ UNCHANGED <<pool, phones, owned, live, poolFaults, mixed>>
    BY <2>1 DEF RemoveRoutingNumber, Rows
  <2> HIDE DEF j
  <2> QED
    BY <1>a, <2>2, <2>3
<1> QED
  BY <1>a, <1>1, <1>2, <1>3, <1>4, <1>5 DEF RequestArrives

\* A request that arrives holds nothing and has no number of its tenant yet.
LEMMA ArrivalStep ==
  ASSUME PoolInv, NEW r \in Requests, RequestArrives(r)
  PROVE  PoolInv'
<1>1. NumbersTypeOK /\ job \in [Requests -> JobType] /\ job[r].at = "idle" /\ 1 \in 1..MaxAttempts
  BY NumberPoolAssumption
     DEF PoolInv, NumbersTypeOK, RequestArrives, KeepNumber, RegisterNumber, DeleteNumber,
         AddRoutingNumber, RemoveRoutingNumber
<1>2. phones[r] = NoPhone
  BY <1>1 DEF PoolInv, PhonesOK
<1>3. UNCHANGED <<pool, phones, owned, live, poolFaults, mixed>>
  BY ArrivalEffect
<1>4. PICK j \in JobType :
        /\ job' = [job EXCEPT ![r] = j]
        /\ j.at \in {"choose", "buy", "create", "release", "record", "remove"}
        /\ j.at = "release" => j.phone \in Requests
        /\ j.at \in {"buy", "create", "record", "remove"} => j.number \in Numbers
        /\ j.at = "choose" => j.op = "keep"
        /\ j.op = "keep" => j.at = "choose"
  BY ArrivalEffect
<1>5. NumbersTypeOK'
  BY <1>1, <1>3, <1>4 DEF NumbersTypeOK
<1>6. job'[r] = j /\ \A s \in Requests \ {r} : job'[s] = job[s]
  BY <1>1, <1>4
<1>7. \A n \in Numbers : ~Holds(r, n)'
  BY <1>4, <1>6 DEF Holds
<1> QED
  BY <1>1, <1>2, <1>3, <1>4, <1>5, <1>6, <1>7, JobOnlyStep

\* Choosing, searching, buying and reading a claimed row again: what r holds, it goes on
\* holding while the row is there.
LEMMA SearchingEffect ==
  ASSUME PoolInv, NEW r \in Requests, Choose(r) \/ Fetch(r) \/ Search(r) \/ Buy(r)
  PROVE  /\ UNCHANGED <<pool, phones, live, poolFaults, mixed>> /\ owned' \subseteq Numbers
         /\ Advances(r) /\ job' \in [Requests -> JobType]
         /\ job'[r].at \in {"claim", "search", "done", "create", "choose", "buy", "record"}
         /\ job'[r].at \in {"claim", "create", "buy", "record"} => job'[r].number \in Numbers
         /\ job'[r].at \in {"choose", "claim", "search"} => job[r].op = "keep"
         /\ \A n \in Numbers : /\ Holds(r, n)' => Holds(r, n)
                               /\ Holds(r, n) /\ InPool(n) => Holds(r, n)'
<1>a. NumbersTypeOK /\ job \in [Requests -> JobType]
  BY DEF PoolInv, NumbersTypeOK
<1>1. CASE Choose(r)
  <2>1. job[r].op = "keep"
    BY <1>1 DEF PoolInv, JobsOK, Choose
  <2>2. CASE GoTo(r, IF CanProvision THEN "search" ELSE "done")
    BY <1>a, <1>1, <2>1, <2>2, GoToEffect DEF Choose, Rows, NumbersTypeOK, Places, Holds
  <2>3. CASE \E n \in Numbers : GoToWith(r, "claim", n)
    BY <1>a, <1>1, <2>1, <2>3, GoToWithEffect DEF Choose, Rows, NumbersTypeOK, Places, Holds
  <2>4. \A n \in Preferred({m \in Numbers : pool[m].status = "available"}, Country[job[r].tenant]) :
          n \in Numbers
    BY DEF Preferred
  <2> QED
    BY <1>1, <2>2, <2>3, <2>4 DEF Choose
<1>2. CASE Fetch(r)
  <2>1. job[r].op = "keep" /\ job[r].number \in Numbers
    BY <1>2 DEF PoolInv, JobsOK, Fetch
  <2>2. CASE GoTo(r, "create")
    BY <1>a, <1>2, <2>1, <2>2, GoToEffect DEF Fetch, Rows, NumbersTypeOK, Places, Holds, Advances
  <2>3. CASE Retry(r) /\ ~InPool(job[r].number)
    BY <1>a, <1>2, <2>1, <2>3, RetryEffect DEF Fetch, Rows, NumbersTypeOK, Holds
  <2> QED
    BY <1>2, <2>2, <2>3 DEF Fetch
<1>3. CASE Search(r)
  <2>1. job[r].op = "keep"
    BY <1>3 DEF PoolInv, JobsOK, Search
  <2>2. CASE GoTo(r, "done")
    BY <1>a, <1>3, <2>1, <2>2, GoToEffect DEF Search, Rows, NumbersTypeOK, Places, Holds
  <2>3. CASE \E n \in Numbers : GoToWith(r, "buy", n)
    BY <1>a, <1>3, <2>1, <2>3, GoToWithEffect DEF Search, Rows, NumbersTypeOK, Places, Holds
  <2> QED
    BY <1>3, <2>2, <2>3 DEF Search
<1>4. CASE Buy(r)
  <2>1. job[r].at = "buy" /\ job[r].number \in Numbers /\ owned \subseteq Numbers
    BY <1>4 DEF PoolInv, JobsOK, Buy, NumbersTypeOK
  <2>2. PICK a \in {"create", "record", "done"} :
          GoTo(r, a) /\ (a = "create" => job[r].op = "purchase")
    BY <1>4 DEF Buy
  <2>3. /\ Advances(r) /\ job'[r].at = a /\ job'[r].number = job[r].number
        /\ job' \in [Requests -> JobType]
    BY <1>a, <2>2, GoToEffect DEF Places
  <2>4. owned' \subseteq Numbers /\ UNCHANGED <<pool, phones, live, poolFaults, mixed>>
    BY <1>4, <2>1 DEF Buy, Rest
  <2> QED
    BY <2>1, <2>2, <2>3, <2>4 DEF Holds, Advances
<1> QED
  BY <1>1, <1>2, <1>3, <1>4

\* These steps leave the tables and give nobody anything.
LEMMA SearchingStep ==
  ASSUME PoolInv, NEW r \in Requests, Choose(r) \/ Fetch(r) \/ Search(r) \/ Buy(r)
  PROVE  PoolInv'
<1>1. NumbersTypeOK /\ job \in [Requests -> JobType]
  BY DEF PoolInv, NumbersTypeOK
<1>2. job[r].at \in {"choose", "fetch", "search", "buy"}
  BY DEF Choose, Fetch, Search, Buy
<1>3. phones[r] = NoPhone
  BY <1>2 DEF PoolInv, PhonesOK
<1>4. /\ UNCHANGED <<pool, phones, live, poolFaults, mixed>> /\ owned' \subseteq Numbers
      /\ Advances(r) /\ job' \in [Requests -> JobType]
      /\ job'[r].at \in {"claim", "search", "done", "create", "choose", "buy", "record"}
      /\ job'[r].at \in {"claim", "create", "buy", "record"} => job'[r].number \in Numbers
      /\ job'[r].at \in {"choose", "claim", "search"} => job[r].op = "keep"
      /\ \A n \in Numbers : Holds(r, n)' => Holds(r, n)
  BY SearchingEffect
<1>5. NumbersTypeOK'
  BY <1>1, <1>4 DEF NumbersTypeOK
<1> QED
  BY <1>1, <1>2, <1>3, <1>4, <1>5, JobOnlyStep DEF Advances

\* A statement throws, or the process stops.
LEMMA FailureStep ==
  ASSUME PoolInv, NEW r \in Requests, Fail(r) \/ Stop(r)
  PROVE  PoolInv'
<1>1. NumbersTypeOK /\ job \in [Requests -> JobType] /\ poolFaults \in 0..PoolFaults /\ PoolFaults \in Nat
  BY NumberPoolAssumption DEF PoolInv, NumbersTypeOK
<1>2. /\ job[r].at \notin {"idle", "done"} /\ poolFaults' \in 0..PoolFaults
      /\ UNCHANGED <<pool, phones, owned, live>>
  BY <1>1 DEF Fail, Stop, Faulty, Rows
<1>3. PICK a \in {"rollback", "done"} :
        /\ GoTo(r, a)
        /\ a = "rollback" => job[r].op = "keep" /\ job[r].at \in {"create", "link"} /\ Fail(r)
  BY DEF Fail, Stop
<1>4. /\ Advances(r) /\ job'[r].at = a /\ job'[r].number = job[r].number
      /\ job' \in [Requests -> JobType]
  BY <1>1, <1>3, GoToEffect DEF Places
<1>5. mixed \subseteq mixed' /\ mixed' \subseteq Numbers /\ (Fail(r) => Exposed(r) \subseteq mixed')
  BY DEF Fail, Stop, PoolInv, NumbersTypeOK, Exposed
<1>6. NumbersTypeOK'
  BY <1>1, <1>2, <1>4, <1>5 DEF NumbersTypeOK
<1>7. \A n \in Numbers : Holds(r, n)' => Holds(r, n)
  BY <1>3, <1>4 DEF Holds
<1>8. a = "rollback" => job[r].number \in Numbers
  BY <1>3 DEF PoolInv, JobsOK
<1>9. job[r].at = "link" /\ a = "rollback" => job[r].number \in mixed'
  BY <1>3, <1>5, <1>8 DEF Exposed
<1>10. job[r].at = "delete" => \A n \in Numbers : phones[job[r].phone].number = n => n \in mixed'
  BY <1>5 DEF Exposed, Fail, Stop
<1> QED
  BY <1>2, <1>3, <1>4, <1>5, <1>6, <1>7, <1>8, <1>9, <1>10, JobOnlyStep DEF Advances

(***************************************************************************)
(* The steps that change the pool.                                         *)
(***************************************************************************)

\* A free number is nobody's, so that whoever claims it holds it alone.
LEMMA ClaimStep ==
  ASSUME PoolInv, NEW r \in Requests, Claim(r)
  PROVE  PoolInv'
<1> DEFINE n == job[r].number
<1>1. /\ NumbersTypeOK /\ job \in [Requests -> JobType] /\ pool \in [Numbers -> RowType]
      /\ job[r].at = "claim" /\ job[r].op = "keep" /\ n \in Numbers
      /\ UNCHANGED <<phones, owned, live, poolFaults, mixed>>
  BY DEF PoolInv, NumbersTypeOK, JobsOK, Claim, Rest
<1>2. phones[r] = NoPhone
  BY <1>1 DEF PoolInv, PhonesOK
<1>3. CASE pool[n].status = "available"
  <2>1. /\ Advances(r) /\ job'[r].at = "fetch" /\ job'[r].number = n /\ job' \in [Requests -> JobType]
    BY <1>1, <1>3, GoToEffect DEF Claim, Places
  <2>2. /\ pool' \in [Numbers -> RowType]
        /\ pool'[n].status = "assigned" /\ pool'[n].link = pool[n].link /\ pool'[n].tenant = pool[n].tenant
        /\ \A m \in Numbers \ {n} : pool'[m] = pool[m]
    BY <1>1, <1>3 DEF Claim, RowType
  <2>3. NumbersTypeOK'
    BY <1>1, <2>1, <2>2 DEF NumbersTypeOK
  <2>4. \A s \in Requests : ~Holds(s, n) /\ pool[n].link = NoRequest
    BY <1>1, <1>3 DEF PoolInv, HoldersOK, RowsOK
  <2>5. \A s \in Requests, m \in Numbers : Holds(s, m)' <=> Holds(s, m) \/ (s = r /\ m = n)
    BY <1>1, <2>1 DEF Holds, Advances
  <2>6. JobsOK' /\ RowsOK' /\ PhonesOK'
    BY <1>1, <1>2, <2>1, <2>2, <2>4 DEF PoolInv, JobsOK, RowsOK, PhonesOK, Advances
  <2>7. HoldersOK'
    BY <2>2, <2>4, <2>5 DEF PoolInv, HoldersOK
  <2>8. LinksOK'
    BY <1>1, <2>1, <2>2, <2>4 DEF PoolInv, LinksOK, Advances, RowType
  <2>9. UseOK'
    <3> SUFFICES ASSUME NEW m \in Numbers, NEW p \in Requests, InPool(m)', phones[p].number = m,
                        m \notin mixed
                 PROVE  Deleting(p)' \/ InUse(p, m)'
      BY <1>1 DEF UseOK
    <3>1. InPool(m)
      BY <1>3, <2>2 DEF InPool
    <3>2. Deleting(p) => Deleting(p)'
      BY <1>1, <2>1 DEF Deleting, Advances
    <3>3. InUse(p, m) => m # n
      BY <1>3 DEF InUse
    <3>4. InUse(p, m) => InUse(p, m)'
      BY <1>1, <2>1, <2>2, <2>5, <3>3 DEF InUse, Advances, Holds
    <3> QED
      BY <3>1, <3>2, <3>4 DEF PoolInv, UseOK
  <2> QED
    BY <2>3, <2>6, <2>7, <2>8, <2>9 DEF PoolInv
<1>4. CASE pool[n].status # "available"
  <2>1. /\ Retry(r) /\ UNCHANGED pool
    BY <1>4 DEF Claim
  <2>2. /\ Advances(r) /\ job'[r].at \in {"choose", "search", "done"} /\ job'[r].number = NoNumber
        /\ job' \in [Requests -> JobType]
    BY <1>1, <2>1, RetryEffect
  <2>3. NumbersTypeOK'
    BY <1>1, <2>1, <2>2 DEF NumbersTypeOK
  <2> QED
    BY <1>1, <1>2, <2>1, <2>2, <2>3, JobOnlyStep DEF Advances, Holds
<1> QED
  BY <1>3, <1>4

\* A new row belongs to the request that bought the number, or to nobody.
LEMMA RecordStep ==
  ASSUME PoolInv, NEW r \in Requests, Record(r)
  PROVE  PoolInv'
<1> DEFINE n == job[r].number
           fresh == job[r].op = "keep"
<1>1. /\ NumbersTypeOK /\ job \in [Requests -> JobType] /\ pool \in [Numbers -> RowType]
      /\ job[r].at = "record" /\ n \in Numbers
      /\ UNCHANGED <<phones, owned, live, poolFaults>>
  BY DEF PoolInv, NumbersTypeOK, JobsOK, Record
<1>2. phones[r] = NoPhone
  BY <1>1 DEF PoolInv, PhonesOK
<1>3. CASE pool[n].status = "none"
  <2>1. PICK a \in {"create", "done"} : GoTo(r, a) /\ (a = "create" <=> fresh)
    BY <1>3 DEF Record
  <2>2. /\ Advances(r) /\ job'[r].at = a /\ job'[r].number = n /\ job' \in [Requests -> JobType]
    BY <1>1, <2>1, GoToEffect DEF Places
  <2>3. /\ pool' \in [Numbers -> RowType]
        /\ pool'[n].status = (IF fresh THEN "assigned" ELSE "available")
        /\ pool'[n].link = pool[n].link /\ pool'[n].tenant = pool[n].tenant
        /\ \A m \in Numbers \ {n} : pool'[m] = pool[m]
    BY <1>1, <1>3 DEF Record, RowType
  <2>4. mixed' = (IF Registered(n) THEN mixed \cup {n} ELSE mixed) /\ mixed' \subseteq Numbers
    BY <1>1, <1>3 DEF Record, NumbersTypeOK
  <2>5. NumbersTypeOK'
    BY <1>1, <2>2, <2>3, <2>4 DEF NumbersTypeOK
  <2>6. \A s \in Requests : ~Holds(s, n) /\ pool[n].link = NoRequest
    BY <1>1, <1>3 DEF PoolInv, HoldersOK, RowsOK
  <2>7. \A s \in Requests, m \in Numbers : Holds(s, m)' <=> Holds(s, m) \/ (s = r /\ m = n /\ fresh)
    BY <1>1, <2>1, <2>2 DEF Holds, Advances
  <2>8. JobsOK' /\ RowsOK' /\ PhonesOK'
    BY <1>1, <1>2, <2>2, <2>3, <2>6 DEF PoolInv, JobsOK, RowsOK, PhonesOK, Advances
  <2>9. HoldersOK'
    BY <2>3, <2>6, <2>7 DEF PoolInv, HoldersOK
  <2>10. LinksOK'
    BY <1>1, <2>2, <2>3, <2>6 DEF PoolInv, LinksOK, Advances, RowType
  <2>11. UseOK'
    <3> SUFFICES ASSUME NEW m \in Numbers, NEW p \in Requests, InPool(m)', phones[p].number = m,
                        m \notin mixed'
                 PROVE  Deleting(p)' \/ InUse(p, m)'
      BY <1>1 DEF UseOK
    <3>1. m # n
      BY <2>4 DEF Registered
    <3>2. InPool(m) /\ m \notin mixed
      BY <2>3, <2>4, <3>1 DEF InPool
    <3>3. Deleting(p) => Deleting(p)'
      BY <1>1, <2>2 DEF Deleting, Advances
    <3>4. InUse(p, m) => InUse(p, m)'
      BY <1>1, <2>2, <2>3, <2>7, <3>1 DEF InUse, Advances, Holds
    <3> QED
      BY <3>2, <3>3, <3>4 DEF PoolInv, UseOK
  <2> QED
    BY <2>5, <2>8, <2>9, <2>10, <2>11 DEF PoolInv
<1>4. CASE pool[n].status # "none"
  <2>1. GoTo(r, "done") /\ UNCHANGED <<pool, mixed>>
    BY <1>4 DEF Record
  <2>2. /\ Advances(r) /\ job'[r].at = "done" /\ job'[r].number = n /\ job' \in [Requests -> JobType]
    BY <1>1, <2>1, GoToEffect DEF Places
  <2>3. NumbersTypeOK'
    BY <1>1, <2>1, <2>2 DEF NumbersTypeOK
  <2> QED
    BY <1>1, <1>2, <2>1, <2>2, <2>3, JobOnlyStep DEF Advances, Holds
<1> QED
  BY <1>3, <1>4

\* The link names the request whose number the tenant has got.
LEMMA LinkStep ==
  ASSUME PoolInv, NEW r \in Requests, LinkRoutingNumber(r)
  PROVE  PoolInv'
<1> DEFINE n == job[r].number
<1>1. /\ NumbersTypeOK /\ job \in [Requests -> JobType] /\ pool \in [Numbers -> RowType]
      /\ job[r].at = "link" /\ job[r].op = "keep" /\ n \in Numbers /\ Holds(r, n)
      /\ UNCHANGED <<phones, owned, live, poolFaults, mixed>>
  BY DEF PoolInv, NumbersTypeOK, JobsOK, LinkRoutingNumber, Rest, Holds
<1>2. CASE InPool(n)
  <2>1. /\ Advances(r) /\ job'[r].at = "done" /\ job'[r].number = n /\ job' \in [Requests -> JobType]
    BY <1>1, <1>2, GoToEffect DEF LinkRoutingNumber, Places
  <2>2. pool[n].status = "assigned" /\ pool[n].link = NoRequest /\ \A s \in Requests : Holds(s, n) => s = r
    BY <1>1, <1>2 DEF PoolInv, HoldersOK, InPool
  <2> DEFINE new == [pool[n] EXCEPT !.link = r, !.tenant = job[r].tenant]
  <2>a. pool' = [pool EXCEPT ![n] = new]
    BY <1>1, <1>2 DEF LinkRoutingNumber, RowType
  <2>b. new \in RowType /\ new.status = "assigned" /\ new.link = r /\ new.tenant = job[r].tenant
    BY <1>1, <2>2 DEF RowType, JobType
  <2> HIDE DEF new
  <2>3. /\ pool' \in [Numbers -> RowType]
        /\ pool'[n].status = "assigned" /\ pool'[n].link = r /\ pool'[n].tenant = job[r].tenant
        /\ \A m \in Numbers \ {n} : pool'[m] = pool[m]
    BY <1>1, <2>a, <2>b
  <2>4. NumbersTypeOK'
    BY <1>1, <2>1, <2>3 DEF NumbersTypeOK
  <2>5. \A s \in Requests, m \in Numbers : Holds(s, m)' <=> Holds(s, m) /\ s # r
    BY <1>1, <2>1 DEF Holds, Advances
  <2>6. JobsOK' /\ RowsOK' /\ PhonesOK'
    BY <1>1, <2>1, <2>3 DEF PoolInv, JobsOK, RowsOK, PhonesOK, Advances
  <2>7. HoldersOK'
    <3> SUFFICES ASSUME NEW m \in Numbers, NEW s \in Requests, Holds(s, m)'
                 PROVE  /\ pool'[m].status \in {"assigned", "removed"} /\ pool'[m].link = NoRequest
                        /\ \A q \in Requests : Holds(q, m)' => q = s
      BY DEF HoldersOK
    <3>1. Holds(s, m) /\ s # r /\ m # n
      BY <2>2, <2>5
    <3> QED
      BY <2>3, <2>5, <3>1 DEF PoolInv, HoldersOK
  <2>8. LinksOK'
    BY <1>1, <2>1, <2>3 DEF PoolInv, LinksOK, Advances, RowType
  <2>9. UseOK'
    <3> SUFFICES ASSUME NEW m \in Numbers, NEW p \in Requests, InPool(m)', phones[p].number = m,
                        m \notin mixed
                 PROVE  Deleting(p)' \/ InUse(p, m)'
      BY <1>1 DEF UseOK
    <3>1. InPool(m)
      BY <1>2, <2>3 DEF InPool
    <3>2. Deleting(p) => Deleting(p)'
      BY <1>1, <2>1 DEF Deleting, Advances
    <3>3. InUse(p, m) => InUse(p, m)'
      <4> SUFFICES ASSUME InUse(p, m) PROVE InUse(p, m)'
        OBVIOUS
      <4>1. \A s \in Requests : Holds(s, m)' => s = p /\ job'[s].at = "link"
        BY <1>1, <2>1, <2>5 DEF InUse, Advances
      <4>2. m = n => p = r
        BY <1>1 DEF InUse
      <4> QED
        BY <2>3, <4>1, <4>2 DEF InUse
    <3> QED
      BY <3>1, <3>2, <3>3 DEF PoolInv, UseOK
  <2> QED
    BY <2>4, <2>6, <2>7, <2>8, <2>9 DEF PoolInv
<1>3. CASE ~InPool(n)
  <2>1. GoTo(r, "rollback") /\ UNCHANGED pool
    BY <1>3 DEF LinkRoutingNumber
  <2>2. /\ Advances(r) /\ job'[r].at = "rollback" /\ job'[r].number = n /\ job' \in [Requests -> JobType]
    BY <1>1, <2>1, GoToEffect DEF Places
  <2>3. NumbersTypeOK'
    BY <1>1, <2>1, <2>2 DEF NumbersTypeOK
  <2> QED
    BY <1>1, <1>3, <2>1, <2>2, <2>3, JobOnlyStep DEF Advances, Holds
<1> QED
  BY <1>2, <1>3

\* Rows that are taken from nobody, or from their holder, leave everything in order.
LEMMA RowsFreedStep ==
  ASSUME PoolInv, NEW r \in Requests, NumbersTypeOK', UNCHANGED <<phones, mixed>>,
         Advances(r), job[r].at \in {"rollback", "release", "remove"},
         job'[r].at \in {"done", "delete"}, job'[r].number = job[r].number,
         job'[r].at = "delete" => job[r].phone \in Requests,
         phones[r] # NoPhone => job'[r].at = "done",
         \A n \in Numbers :
           \/ pool'[n] = pool[n]
           \/ /\ pool'[n].link = NoRequest
              /\ \/ pool'[n].status = "removed" /\ pool[n].status # "none"
                 \/ /\ pool'[n].status = "available" /\ InPool(n)
                    /\ \A s \in Requests : Holds(s, n) => s = r
              /\ pool'[n].status = "removed" \/ Holds(r, n) \/
                   (job'[r].at = "delete" /\ pool[n].link = job[r].phone)
  PROVE  PoolInv'
<1>1. /\ job \in [Requests -> JobType] /\ pool \in [Numbers -> RowType] /\ pool' \in [Numbers -> RowType]
  BY DEF PoolInv, NumbersTypeOK
<1>2. \A s \in Requests, m \in Numbers : Holds(s, m)' <=> Holds(s, m) /\ s # r
  BY DEF Holds, Advances
<1>3. JobsOK' /\ RowsOK' /\ PhonesOK'
  BY <1>1 DEF PoolInv, JobsOK, RowsOK, PhonesOK, Advances
<1>4. HoldersOK'
  BY <1>2 DEF PoolInv, HoldersOK
<1>5. LinksOK'
  BY <1>1 DEF PoolInv, LinksOK, Advances, RowType
<1>6. UseOK'
  <2> SUFFICES ASSUME NEW n \in Numbers, NEW p \in Requests, InPool(n)', phones[p].number = n,
                      n \notin mixed
               PROVE  Deleting(p)' \/ InUse(p, n)'
    BY DEF UseOK
  <2>1. Deleting(p) => Deleting(p)'
    BY DEF Deleting, Advances
  <2>2. CASE pool'[n] = pool[n]
    <3>1. InUse(p, n) => InUse(p, n)'
      BY <1>2, <2>2 DEF InUse, Advances, Holds
    <3>2. InPool(n)
      BY <2>2 DEF InPool
    <3> QED
      BY <2>1, <3>1, <3>2 DEF PoolInv, UseOK
  <2>3. CASE pool'[n].status = "available" /\ Holds(r, n)
    <3>1. InPool(n) /\ ~InUse(p, n)
      BY <2>3 DEF PoolInv, HoldersOK, InUse, Holds, InPool
    <3> QED
      BY <2>1, <3>1 DEF PoolInv, UseOK
  <2>4. CASE pool'[n].status = "available" /\ job'[r].at = "delete" /\ pool[n].link = job[r].phone
    <3>1. pool[n].link \in Requests /\ pool[n].link # NoRequest
      BY <2>4, NumberPoolAssumption DEF PoolInv, JobsOK
    <3>2. InPool(n)
      BY <3>1 DEF PoolInv, RowsOK, InPool
    <3>3. InUse(p, n) => Deleting(p)'
      BY <2>4, <3>1 DEF InUse, Deleting, Advances
    <3> QED
      BY <2>1, <3>2, <3>3 DEF PoolInv, UseOK
  <2>5. pool'[n].status # "removed"
    BY DEF InPool
  <2>6. \/ pool'[n] = pool[n]
        \/ pool'[n].status = "available" /\ Holds(r, n)
        \/ pool'[n].status = "available" /\ job'[r].at = "delete" /\ pool[n].link = job[r].phone
    BY <2>5
  <2> QED
    BY <2>2, <2>3, <2>4, <2>6
<1> QED
  BY <1>3, <1>4, <1>5, <1>6 DEF PoolInv

\* A claim that is rolled back frees the row, if it is there.
LEMMA ReleaseClaimStep ==
  ASSUME PoolInv, NEW r \in Requests, ReleaseClaim(r)
  PROVE  PoolInv'
<1> DEFINE n == job[r].number
           free == Row("available", NoRequest, NoTenant)
<1>1. /\ NumbersTypeOK /\ job \in [Requests -> JobType] /\ pool \in [Numbers -> RowType]
      /\ job[r].at = "rollback" /\ job[r].op = "keep" /\ n \in Numbers /\ Holds(r, n)
      /\ UNCHANGED <<phones, owned, live, poolFaults, mixed>> /\ GoTo(r, "done")
  BY DEF PoolInv, NumbersTypeOK, JobsOK, ReleaseClaim, Rest, Holds
<1>2. /\ Advances(r) /\ job'[r].at = "done" /\ job'[r].number = n /\ job' \in [Requests -> JobType]
  BY <1>1, GoToEffect DEF Places
<1>3. free \in RowType /\ free.status = "available" /\ free.link = NoRequest
  BY DEF Row, RowType
<1>4. \A s \in Requests : Holds(s, n) => s = r
  BY <1>1 DEF PoolInv, HoldersOK
<1>5. pool' = pool \/ pool' = [pool EXCEPT ![n] = free]
  BY DEF ReleaseClaim
<1> HIDE DEF free
<1>6. NumbersTypeOK'
  BY <1>1, <1>2, <1>3, <1>5 DEF NumbersTypeOK
<1>7. \A m \in Numbers : pool'[m] = pool[m] \/ (m = n /\ pool'[m] = free /\ InPool(n))
  BY <1>1 DEF ReleaseClaim, free
<1> QED
  BY <1>1, <1>2, <1>3, <1>4, <1>6, <1>7, RowsFreedStep

\* The rows linked to a number that is to be deleted are freed; nobody holds them.
LEMMA ReleaseByPhoneNumberStep ==
  ASSUME PoolInv, NEW r \in Requests, ReleaseByPhoneNumber(r)
  PROVE  PoolInv'
<1> DEFINE free == Row("available", NoRequest, NoTenant)
<1>1. /\ NumbersTypeOK /\ job \in [Requests -> JobType] /\ pool \in [Numbers -> RowType]
      /\ job[r].at = "release" /\ job[r].phone \in Requests
      /\ UNCHANGED <<phones, owned, live, poolFaults, mixed>> /\ GoTo(r, "delete")
  BY DEF PoolInv, NumbersTypeOK, JobsOK, ReleaseByPhoneNumber, Rest
<1>2. /\ Advances(r) /\ job'[r].at = "delete" /\ job'[r].number = job[r].number
      /\ job' \in [Requests -> JobType]
  BY <1>1, GoToEffect DEF Places
<1>3. free \in RowType /\ free.status = "available" /\ free.link = NoRequest
  BY DEF Row, RowType
<1>4. pool' = [n \in Numbers |-> IF InPool(n) /\ pool[n].link = job[r].phone THEN free ELSE pool[n]]
  BY DEF ReleaseByPhoneNumber
<1> HIDE DEF free
<1>5. NumbersTypeOK'
  BY <1>1, <1>2, <1>3, <1>4 DEF NumbersTypeOK
<1>6. phones[r] = NoPhone
  BY <1>1 DEF PoolInv, PhonesOK
<1>7. \A n \in Numbers : pool[n].link = job[r].phone => \A s \in Requests : ~Holds(s, n)
  BY <1>1, NumberPoolAssumption DEF PoolInv, HoldersOK
<1> QED
  BY <1>1, <1>2, <1>3, <1>4, <1>5, <1>6, <1>7, RowsFreedStep

\* A row that is deleted is linked to nothing.
LEMMA RemoveRowStep ==
  ASSUME PoolInv, NEW r \in Requests, RemoveRow(r)
  PROVE  PoolInv'
<1> DEFINE n == job[r].number
           gone == Row("removed", NoRequest, NoTenant)
<1>1. /\ NumbersTypeOK /\ job \in [Requests -> JobType] /\ pool \in [Numbers -> RowType]
      /\ job[r].at = "remove" /\ n \in Numbers
      /\ UNCHANGED <<phones, owned, live, poolFaults, mixed>> /\ GoTo(r, "done")
  BY DEF PoolInv, NumbersTypeOK, JobsOK, RemoveRow, Rest
<1>2. /\ Advances(r) /\ job'[r].at = "done" /\ job'[r].number = n /\ job' \in [Requests -> JobType]
  BY <1>1, GoToEffect DEF Places
<1>3. gone \in RowType /\ gone.status = "removed" /\ gone.link = NoRequest
  BY DEF Row, RowType
<1>4. pool' = IF InPool(n) THEN [pool EXCEPT ![n] = gone] ELSE pool
  BY DEF RemoveRow
<1> HIDE DEF gone
<1>5. NumbersTypeOK'
  BY <1>1, <1>2, <1>3, <1>4 DEF NumbersTypeOK
<1>6. \A m \in Numbers : pool'[m] = pool[m] \/ (pool'[m] = gone /\ pool[m].status # "none")
  BY <1>1, <1>4 DEF InPool
<1> QED
  BY <1>1, <1>2, <1>3, <1>5, <1>6, RowsFreedStep

(***************************************************************************)
(* The steps that change the tenants' numbers.                             *)
(***************************************************************************)

\* A new number belongs to nobody else; pooled, it is held or there by accident.
LEMMA CreatePhoneStep ==
  ASSUME PoolInv, NEW r \in Requests, CreatePhone(r)
  PROVE  PoolInv'
<1> DEFINE n == job[r].number
           keep == job[r].op = "keep"
<1>1. /\ NumbersTypeOK /\ job \in [Requests -> JobType] /\ pool \in [Numbers -> RowType]
      /\ phones \in [Requests -> PhoneType]
      /\ job[r].at = "create" /\ n \in Numbers /\ UNCHANGED <<pool, owned, live, poolFaults>>
  BY DEF PoolInv, NumbersTypeOK, JobsOK, CreatePhone
<1>2. phones[r] = NoPhone
  BY <1>1 DEF PoolInv, PhonesOK
<1>3. CASE job[r].tenant \in live /\ ~Registered(n)
  <2>1. PICK forwarding \in {"pending", "active"} :
          phones' = [phones EXCEPT ![r] = Phone(n, job[r].tenant, forwarding)]
    BY <1>3 DEF CreatePhone
  <2> DEFINE new == Phone(n, job[r].tenant, forwarding)
  <2>2. new \in PhoneType /\ new.number = n /\ new.tenant = job[r].tenant
    BY <1>1 DEF Phone, PhoneType, JobType
  <2> HIDE DEF new
  <2>3. PICK a \in {"link", "done"} : GoTo(r, a) /\ (a = "link" <=> keep)
    BY <1>3 DEF CreatePhone
  <2>4. /\ Advances(r) /\ job'[r].at = a /\ job'[r].number = n /\ job' \in [Requests -> JobType]
    BY <1>1, <2>3, GoToEffect DEF Places
  <2>5. mixed' = (IF ~keep /\ InPool(n) THEN mixed \cup {n} ELSE mixed) /\ mixed' \subseteq Numbers
    BY <1>1, <1>3 DEF CreatePhone, NumbersTypeOK
  <2>6. phones' \in [Requests -> PhoneType] /\ phones'[r] = new
        /\ \A p \in Requests \ {r} : phones'[p] = phones[p]
    BY <1>1, <2>1, <2>2 DEF new
  <2>7. NumbersTypeOK'
    BY <1>1, <2>4, <2>5, <2>6 DEF NumbersTypeOK
  <2>8. \A s \in Requests, m \in Numbers : Holds(s, m)' <=> Holds(s, m)
    BY <1>1, <2>3, <2>4 DEF Holds, Advances
  <2>9. JobsOK' /\ RowsOK' /\ PhonesOK'
    BY <1>1, <2>2, <2>3, <2>4, <2>6 DEF PoolInv, JobsOK, RowsOK, PhonesOK, Advances
  <2>10. HoldersOK'
    BY <1>1, <2>8 DEF PoolInv, HoldersOK
  <2>11. LinksOK'
    BY <1>1, <2>4 DEF PoolInv, LinksOK, Advances, RowType
  <2>12. UseOK'
    <3> SUFFICES ASSUME NEW m \in Numbers, NEW p \in Requests, InPool(m), phones'[p].number = m,
                        m \notin mixed'
                 PROVE  Deleting(p)' \/ InUse(p, m)'
      BY <1>1 DEF UseOK, InPool
    <3>1. CASE p = r
      <4>1. m = n /\ keep /\ Holds(r, n)
        BY <1>1, <2>2, <2>5, <2>6, <3>1 DEF Holds
      <4>2. pool[n].status = "assigned" /\ pool[n].link = NoRequest /\ \A s \in Requests : Holds(s, n) => s = r
        BY <4>1 DEF PoolInv, HoldersOK, InPool
      <4> QED
        BY <1>1, <2>3, <2>4, <2>8, <3>1, <4>1, <4>2 DEF InUse
    <3>2. CASE p # r
      <4>1. phones[p].number = m /\ m \notin mixed /\ m # n
        BY <1>3, <2>5, <2>6, <3>2 DEF Registered
      <4>2. Deleting(p) => Deleting(p)'
        BY <1>1, <2>4 DEF Deleting, Advances
      <4>3. InUse(p, m) => InUse(p, m)'
        BY <1>1, <2>4, <2>8 DEF InUse, Advances, Holds
      <4> QED
        BY <4>1, <4>2, <4>3 DEF PoolInv, UseOK
    <3> QED
      BY <3>1, <3>2
  <2> QED
    BY <2>7, <2>9, <2>10, <2>11, <2>12 DEF PoolInv
<1>4. CASE ~(job[r].tenant \in live /\ ~Registered(n))
  <2>1. /\ GoTo(r, IF keep THEN "rollback" ELSE "done") /\ UNCHANGED <<phones, mixed>>
    BY <1>4 DEF CreatePhone
  <2>2. /\ Advances(r) /\ job'[r].at = (IF keep THEN "rollback" ELSE "done") /\ job'[r].number = n
        /\ job' \in [Requests -> JobType]
    BY <1>1, <2>1, GoToEffect DEF Places
  <2>3. NumbersTypeOK'
    BY <1>1, <2>1, <2>2 DEF NumbersTypeOK
  <2> QED
    BY <1>1, <1>2, <2>1, <2>2, <2>3, JobOnlyStep DEF Advances, Holds
<1> QED
  BY <1>3, <1>4

\* Numbers of tenants go, or are called; where one stays the pool's view of it stays.
LEMMA PhonesStep ==
  ASSUME PoolInv, NumbersTypeOK', UNCHANGED <<pool, job>>, mixed \subseteq mixed',
         \A p \in Requests : \/ phones'[p] = NoPhone
                             \/ /\ phones[p] # NoPhone /\ phones'[p].number = phones[p].number
                                /\ phones'[p].tenant = phones[p].tenant
  PROVE  PoolInv'
<1>1. \A p \in Requests, n \in Numbers : phones'[p].number = n => phones[p].number = n
  BY NumberPoolAssumption DEF NoPhone, Phone
<1>2. JobsOK' /\ RowsOK' /\ HoldersOK' /\ LinksOK'
  BY DEF PoolInv, JobsOK, RowsOK, HoldersOK, LinksOK, Holds
<1>3. PhonesOK'
  BY DEF PoolInv, PhonesOK
<1>4. UseOK'
  BY <1>1 DEF PoolInv, UseOK, InPool, InUse, Deleting, Holds
<1> QED
  BY <1>2, <1>3, <1>4 DEF PoolInv

\* A number that is deleted leaves the pool as it is; one that is called stays, freed.
LEMMA DeletePhoneStep ==
  ASSUME PoolInv, NEW r \in Requests, DeletePhone(r)
  PROVE  PoolInv'
<1> DEFINE p == job[r].phone
<1>1. /\ NumbersTypeOK /\ job \in [Requests -> JobType] /\ phones \in [Requests -> PhoneType]
      /\ job[r].at = "delete" /\ p \in Requests /\ UNCHANGED <<pool, owned, live, poolFaults>>
      /\ GoTo(r, "done")
  BY DEF PoolInv, NumbersTypeOK, JobsOK, DeletePhone
<1>2. /\ Advances(r) /\ job'[r].at = "done" /\ job'[r].number = job[r].number
      /\ job' \in [Requests -> JobType]
  BY <1>1, GoToEffect DEF Places
<1>3. phones[r] = NoPhone
  BY <1>1 DEF PoolInv, PhonesOK
<1>4. CASE phones[p].called
  <2>1. UNCHANGED phones /\ mixed' = mixed \cup {phones[p].number}
    BY <1>4 DEF DeletePhone
  <2>2. phones[p].number \in Numbers
    BY <1>1, <1>4 DEF PoolInv, PhonesOK, NoPhone, Phone
  <2>3. NumbersTypeOK'
    BY <1>1, <1>2, <2>1, <2>2 DEF NumbersTypeOK
  <2> QED
    BY <1>1, <1>2, <1>3, <2>1, <2>3, JobOnlyStep DEF Advances, Holds
<1>5. CASE ~phones[p].called
  <2>1. phones' = [phones EXCEPT ![p] = NoPhone] /\ mixed' = mixed
    BY <1>5 DEF DeletePhone
  <2>2. NoPhone \in PhoneType
    BY DEF NoPhone, Phone, PhoneType
  <2>3. NumbersTypeOK'
    BY <1>1, <1>2, <2>1, <2>2 DEF NumbersTypeOK
  <2>4. phones'[p] = NoPhone /\ \A q \in Requests \ {p} : phones'[q] = phones[q]
    BY <1>1, <2>1
  <2>5. \A s \in Requests, m \in Numbers : Holds(s, m)' <=> Holds(s, m)
    BY <1>1, <1>2 DEF Holds, Advances
  <2>6. JobsOK' /\ RowsOK' /\ PhonesOK'
    BY <1>1, <1>2, <1>3, <2>4 DEF PoolInv, JobsOK, RowsOK, PhonesOK, Advances
  <2>7. HoldersOK'
    BY <1>1, <2>5 DEF PoolInv, HoldersOK
  <2>8. LinksOK'
    BY <1>1, <1>2 DEF PoolInv, LinksOK, Advances, NumbersTypeOK, RowType
  <2>9. UseOK'
    <3> SUFFICES ASSUME NEW n \in Numbers, NEW q \in Requests, InPool(n), phones'[q].number = n,
                        n \notin mixed
                 PROVE  Deleting(q)' \/ InUse(q, n)'
      BY <1>1, <2>1 DEF UseOK, InPool
    <3>1. q # p /\ phones[q].number = n
      BY <2>4, NumberPoolAssumption DEF NoPhone, Phone
    <3>2. Deleting(q) => Deleting(q)'
      BY <1>1, <1>2, <3>1 DEF Deleting, Advances
    <3>3. InUse(q, n) => InUse(q, n)'
      BY <1>1, <1>2, <2>5 DEF InUse, Advances, Holds
    <3> QED
      BY <3>1, <3>2, <3>3 DEF PoolInv, UseOK
  <2> QED
    BY <2>3, <2>6, <2>7, <2>8, <2>9 DEF PoolInv
<1> QED
  BY <1>4, <1>5

\* A deleted tenant, and a call that is let in.
LEMMA OutsideStep ==
  ASSUME PoolInv, (\E t \in Tenants : DeleteTenant(t)) \/ (\E n \in Numbers : InboundCall(n))
  PROVE  PoolInv'
<1>1. NumbersTypeOK /\ phones \in [Requests -> PhoneType] /\ NoPhone \in PhoneType
  BY DEF PoolInv, NumbersTypeOK, NoPhone, Phone, PhoneType
<1>2. CASE \E t \in Tenants : DeleteTenant(t)
  <2>1. PICK t \in Tenants : DeleteTenant(t)
    BY <1>2
  <2>2. NumbersTypeOK'
    BY <1>1, <2>1 DEF NumbersTypeOK, DeleteTenant
  <2>3. \A p \in Requests : phones'[p] = NoPhone \/ phones'[p] = phones[p]
    BY <1>1, <2>1 DEF DeleteTenant
  <2> QED
    BY <2>1, <2>2, <2>3, PhonesStep DEF DeleteTenant
<1>3. CASE \E n \in Numbers : InboundCall(n)
  <2>1. PICK n \in Numbers, p \in Requests :
          /\ phones[p].number = n
          /\ phones' = [phones EXCEPT ![p].called = TRUE, ![p].forwarding = "active"]
          /\ UNCHANGED <<pool, owned, job, live, poolFaults, mixed>>
    BY <1>3 DEF InboundCall, Rest
  <2> DEFINE new == [phones[p] EXCEPT !.called = TRUE, !.forwarding = "active"]
  <2>2. phones' = [phones EXCEPT ![p] = new]
    BY <1>1, <2>1 DEF PhoneType
  <2>3. new \in PhoneType /\ new.number = phones[p].number /\ new.tenant = phones[p].tenant
    BY <1>1 DEF PhoneType
  <2> HIDE DEF new
  <2>4. NumbersTypeOK'
    BY <1>1, <2>1, <2>2, <2>3 DEF NumbersTypeOK
  <2>5. phones[p] # NoPhone
    BY <2>1, NumberPoolAssumption DEF NoPhone, Phone
  <2>6. \A q \in Requests : phones'[q] = phones[q] \/ (q = p /\ phones'[q] = new)
    BY <1>1, <2>2
  <2> QED
    BY <2>1, <2>3, <2>4, <2>5, <2>6, PhonesStep
<1> QED
  BY <1>2, <1>3

(***************************************************************************)
(* The theorems about the tables.                                          *)
(***************************************************************************)

\* Every step keeps the invariant.
LEMMA PoolInvStep == PoolInv /\ [NumbersNext]_numberVars => PoolInv'
<1> SUFFICES ASSUME PoolInv, [NumbersNext]_numberVars PROVE PoolInv'
  OBVIOUS
<1>1. ASSUME NEW r \in Requests, RequestStep(r) PROVE PoolInv'
  BY <1>1, SearchingStep, ClaimStep, RecordStep, CreatePhoneStep, LinkStep, ReleaseClaimStep,
     ReleaseByPhoneNumberStep, DeletePhoneStep, RemoveRowStep DEF RequestStep
<1>2. CASE UNCHANGED numberVars
  BY <1>2 DEF numberVars, PoolInv, NumbersTypeOK, JobsOK, RowsOK, HoldersOK, PhonesOK, LinksOK,
              UseOK, Holds, InPool, InUse, Deleting
<1> QED
  BY <1>1, <1>2, ArrivalStep, FailureStep, OutsideStep DEF NumbersNext

\* The invariant holds throughout.
LEMMA PoolInvariant == NumbersSpec => []PoolInv
  BY PoolInvInit, PoolInvStep, PTL DEF NumbersSpec

\* The rows and requests keep their types: no attempt beyond the last, no number that is
\* nowhere (routing-pool.service.ts:22-43).
THEOREM NumbersTypeCorrect == NumbersSpec => []NumbersTypeOK
<1>1. PoolInv => NumbersTypeOK
  BY DEF PoolInv
<1> QED
  BY <1>1, PoolInvariant, PTL

\* Whatever requests run at once, fail or stop, a number of the pool has one holder at most,
\* and while it has one it is neither free nor linked (routing-pool.service.ts:5).
THEOREM ClaimsAreExclusive == NumbersSpec => []ClaimIsExclusive
<1>1. PoolInv => ClaimIsExclusive
  BY DEF PoolInv, HoldersOK, ClaimIsExclusive, InPool
<1> QED
  BY <1>1, PoolInvariant, PTL

\* A link names the tenant number that has the routing number, and its tenant; a free number
\* is in use only while it is being deleted or after one of the named accidents.
THEOREM PoolIsConsistent == NumbersSpec => []PoolIsConsistentUnlessAccident
<1>1. PoolInv => LinkIsConsistent
  BY DEF PoolInv, NumbersTypeOK, RowType, RowsOK, LinksOK, PhonesOK, LinkIsConsistent
<1>2. PoolInv => FreeIsUnusedUnlessAccident
  BY DEF PoolInv, UseOK, InUse, Deleting, InPool, FreeIsUnusedUnlessAccident
<1> QED
  BY <1>1, <1>2, PoolInvariant, PTL DEF PoolIsConsistentUnlessAccident

(***************************************************************************)
(* The pool implements the lease of its numbers.                           *)
(***************************************************************************)

\* What the promise sees of each number: the holder is unique, so that it does not matter
\* which one is chosen.
LeaseView ==
  \A n \in Numbers :
    /\ pool[n].status = "none" => LeaseOf(n) = Promise!Lease("none", NoRequest)
    /\ pool[n].status = "removed" => LeaseOf(n) = Promise!Lease("gone", NoRequest)
    /\ pool[n].status = "available" => LeaseOf(n) = Promise!Lease("free", NoRequest)
    /\ pool[n].status = "assigned" =>
         /\ pool[n].link # NoRequest => LeaseOf(n) = Promise!Lease("used", pool[n].link)
         /\ \A r \in Requests : Holds(r, n) => LeaseOf(n) = Promise!Lease("held", r)
         /\ pool[n].link = NoRequest /\ (\A r \in Requests : ~Holds(r, n)) =>
              LeaseOf(n) = Promise!Lease("lost", NoRequest)

\* The invariant determines the view.
LEMMA LeaseViewed == PoolInv => LeaseView
<1> SUFFICES ASSUME PoolInv, NEW n \in Numbers
             PROVE  LeaseView!(n)
  BY DEF LeaseView
<1>1. CASE pool[n].status # "assigned"
  BY <1>1 DEF LeaseOf, InPool, Promise!Lease
<1>2. CASE pool[n].status = "assigned" /\ pool[n].link # NoRequest
  BY <1>2 DEF PoolInv, HoldersOK, LeaseOf, InPool, Promise!Lease
<1>3. CASE pool[n].status = "assigned" /\ pool[n].link = NoRequest
  <2>1. CASE \E r \in Requests : Holds(r, n)
    <3>1. PICK r \in Requests : Holds(r, n)
      BY <2>1
    <3>2. (CHOOSE s \in Requests : Holds(s, n)) = r
      BY <3>1 DEF PoolInv, HoldersOK
    <3>3. \A s \in Requests : Holds(s, n) => s = r
      BY <3>1 DEF PoolInv, HoldersOK
    <3> QED
      BY <1>3, <2>1, <3>1, <3>2, <3>3 DEF LeaseOf, InPool, Promise!Lease
  <2>2. CASE ~\E r \in Requests : Holds(r, n)
    BY <1>3, <2>2 DEF LeaseOf, InPool, Promise!Lease
  <2> QED
    BY <2>1, <2>2
<1> QED
  BY <1>1, <1>2, <1>3

\* A number whose row and holders stay is seen as before.
LEMMA LeaseKept ==
  ASSUME PoolInv, PoolInv', NEW n \in Numbers, pool'[n] = pool[n],
         InPool(n) => \A s \in Requests : Holds(s, n)' <=> Holds(s, n)
  PROVE  LeaseOf(n)' = LeaseOf(n)
<1>1. LeaseView /\ LeaseView'
  BY LeaseViewed, PTL
<1>2. pool[n].status \in {"none", "removed", "available", "assigned"}
  BY DEF PoolInv, NumbersTypeOK, RowType
<1>3. CASE pool[n].status = "assigned"
  <2>1. \A s \in Requests : Holds(s, n)' <=> Holds(s, n)
    BY <1>3 DEF InPool
  <2>2. CASE pool[n].link = NoRequest /\ \E s \in Requests : Holds(s, n)
    BY <1>1, <1>3, <2>1, <2>2 DEF LeaseView
  <2>3. CASE pool[n].link = NoRequest /\ ~\E s \in Requests : Holds(s, n)
    BY <1>1, <1>3, <2>1, <2>3 DEF LeaseView
  <2>4. CASE pool[n].link # NoRequest
    BY <1>1, <1>3, <2>4 DEF LeaseView
  <2> QED
    BY <2>2, <2>3, <2>4
<1> QED
  BY <1>1, <1>2, <1>3 DEF LeaseView

\* A step that leaves every row and holder stutters.
LEMMA NoLeaseMoves ==
  ASSUME PoolInv, PoolInv',
         \A n \in Numbers : /\ pool'[n] = pool[n]
                            /\ InPool(n) => \A s \in Requests : Holds(s, n)' <=> Holds(s, n)
  PROVE  leases' = leases
BY LeaseKept DEF leases

\* A step that leaves all but one changes that one.
LEMMA OneLeaseMoves ==
  ASSUME PoolInv, PoolInv', NEW n \in Numbers,
         \A m \in Numbers \ {n} : /\ pool'[m] = pool[m]
                                  /\ \A s \in Requests : Holds(s, m)' <=> Holds(s, m)
  PROVE  leases' = [leases EXCEPT ![n] = LeaseOf(n)']
<1>1. \A m \in Numbers \ {n} : LeaseOf(m)' = LeaseOf(m)
  BY LeaseKept
<1> QED
  BY <1>1 DEF leases

\* What every step does: nothing the promise sees, or one of its steps.
KeepsPromise == leases' # leases => Promise!LeaseNext

\* A request that arrives holds nothing, neither before nor after.
LEMMA ArrivalMovesNothing ==
  ASSUME PoolInv, PoolInv', NEW r \in Requests, RequestArrives(r)
  PROVE  KeepsPromise
<1>1. PICK j \in JobType :
        /\ job' = [job EXCEPT ![r] = j] /\ (j.op = "keep" => j.at = "choose")
        /\ UNCHANGED <<pool, phones, owned, live, poolFaults, mixed>> /\ job[r].at = "idle"
  BY ArrivalEffect
<1>2. \A s \in Requests, n \in Numbers : Holds(s, n)' <=> Holds(s, n)
  BY <1>1 DEF Holds, PoolInv, NumbersTypeOK
<1> QED
  BY <1>1, <1>2, NoLeaseMoves DEF KeepsPromise

\* Choosing, searching, buying, reading a claimed row again, creating and deleting a
\* tenant's number: a holder goes on holding, unless its row is gone.
LEMMA SearchingMovesNothing ==
  ASSUME PoolInv, PoolInv', NEW r \in Requests,
         \/ Choose(r) \/ Fetch(r) \/ Search(r) \/ Buy(r)
         \/ CreatePhone(r) \/ DeletePhone(r)
  PROVE  KeepsPromise
<1>1. NumbersTypeOK /\ job \in [Requests -> JobType]
  BY DEF PoolInv, NumbersTypeOK
<1>2. CASE Choose(r) \/ Fetch(r) \/ Search(r) \/ Buy(r)
  <2>1. /\ pool' = pool /\ Advances(r)
        /\ \A n \in Numbers : /\ Holds(r, n)' => Holds(r, n)
                              /\ Holds(r, n) /\ InPool(n) => Holds(r, n)'
    BY <1>2, SearchingEffect
  <2>2. \A s \in Requests, n \in Numbers : InPool(n) => (Holds(s, n)' <=> Holds(s, n))
    BY <2>1 DEF Holds, Advances
  <2> QED
    BY <2>1, <2>2, NoLeaseMoves DEF KeepsPromise
<1>3. CASE CreatePhone(r)
  <2>1. /\ pool' = pool /\ job[r].at = "create"
        /\ \E a \in {"link", "rollback", "done"} :
             GoTo(r, a) /\ (a = "done" <=> job[r].op # "keep")
    BY <1>3 DEF CreatePhone
  <2>2. \A s \in Requests, n \in Numbers : Holds(s, n)' <=> Holds(s, n)
    BY <1>1, <2>1, GoToEffect DEF Holds, Advances, Places
  <2> QED
    BY <2>1, <2>2, NoLeaseMoves DEF KeepsPromise
<1>4. CASE DeletePhone(r)
  <2>1. pool' = pool /\ job[r].at = "delete" /\ GoTo(r, "done")
    BY <1>4 DEF DeletePhone
  <2>2. \A s \in Requests, n \in Numbers : Holds(s, n)' <=> Holds(s, n)
    BY <1>1, <2>1, GoToEffect DEF Holds, Advances, Places
  <2> QED
    BY <2>1, <2>2, NoLeaseMoves DEF KeepsPromise
<1> QED
  BY <1>2, <1>3, <1>4

\* A claim acquires a free number, or leaves all as it is.
LEMMA ClaimAcquires ==
  ASSUME PoolInv, PoolInv', NEW r \in Requests, Claim(r)
  PROVE  KeepsPromise
<1>0. PICK n : n = job[r].number
  OBVIOUS
<1> USE <1>0
<1>1. /\ NumbersTypeOK /\ job \in [Requests -> JobType] /\ pool \in [Numbers -> RowType]
      /\ job[r].at = "claim" /\ job[r].op = "keep" /\ n \in Numbers
  BY DEF PoolInv, NumbersTypeOK, JobsOK, Claim
<1>2. LeaseView /\ LeaseView'
  BY LeaseViewed, PTL
<1>3. CASE pool[n].status = "available"
  <2>1. /\ Advances(r) /\ job'[r].at = "fetch" /\ job'[r].number = n
    BY <1>1, <1>3, GoToEffect DEF Claim, Places
  <2>2. /\ pool'[n].status = "assigned" /\ \A m \in Numbers \ {n} : pool'[m] = pool[m]
    BY <1>1, <1>3 DEF Claim, RowType
  <2>3. \A s \in Requests, m \in Numbers \ {n} : Holds(s, m)' <=> Holds(s, m)
    BY <1>1, <2>1 DEF Holds, Advances
  <2>4. Holds(r, n)'
    BY <1>1, <2>1 DEF Holds, Advances
  <2>5. LeaseOf(n)' = Promise!Lease("held", r) /\ LeaseOf(n).state = "free"
    BY <1>1, <1>2, <1>3, <2>2, <2>4 DEF LeaseView, Promise!Lease
  <2>6. Promise!Acquire(n, r)
    BY <1>1, <2>2, <2>3, <2>5, OneLeaseMoves DEF Promise!Acquire, leases
  <2> QED
    BY <1>1, <2>6 DEF KeepsPromise, Promise!LeaseNext
<1>4. CASE pool[n].status # "available"
  <2>1. /\ Retry(r) /\ UNCHANGED pool
    BY <1>4 DEF Claim
  <2>2. \A s \in Requests, m \in Numbers : Holds(s, m)' <=> Holds(s, m)
    BY <1>1, <2>1, RetryEffect DEF Holds, Advances
  <2> QED
    BY <2>1, <2>2, NoLeaseMoves DEF KeepsPromise
<1> QED
  BY <1>3, <1>4

\* A new row is acquired by the request that bought the number, or offered to all.
LEMMA RecordAcquiresOrOffers ==
  ASSUME PoolInv, PoolInv', NEW r \in Requests, Record(r)
  PROVE  KeepsPromise
<1>0. PICK n : n = job[r].number
  OBVIOUS
<1> USE <1>0
<1>1. /\ NumbersTypeOK /\ job \in [Requests -> JobType] /\ pool \in [Numbers -> RowType]
      /\ job[r].at = "record" /\ n \in Numbers
  BY DEF PoolInv, NumbersTypeOK, JobsOK, Record
<1>2. LeaseView /\ LeaseView'
  BY LeaseViewed, PTL
<1>3. CASE pool[n].status = "none"
  <2>1. PICK a \in {"create", "done"} : GoTo(r, a) /\ (a = "create" <=> job[r].op = "keep")
    BY <1>3 DEF Record
  <2>2. /\ Advances(r) /\ job'[r].at = a /\ job'[r].number = n
    BY <1>1, <2>1, GoToEffect DEF Places
  <2>3. /\ pool'[n].status = (IF job[r].op = "keep" THEN "assigned" ELSE "available")
        /\ \A m \in Numbers \ {n} : pool'[m] = pool[m]
    BY <1>1, <1>3 DEF Record, RowType
  <2>4. \A s \in Requests, m \in Numbers \ {n} : Holds(s, m)' <=> Holds(s, m)
    BY <1>1, <2>1, <2>2 DEF Holds, Advances
  <2>5. LeaseOf(n).state = "none" /\ leases' = [leases EXCEPT ![n] = LeaseOf(n)']
    BY <1>1, <1>2, <1>3, <2>3, <2>4, OneLeaseMoves DEF LeaseView, Promise!Lease
  <2>6. CASE job[r].op = "keep"
    <3>1. Holds(r, n)'
      BY <1>1, <2>1, <2>2, <2>6 DEF Holds, Advances
    <3>2. LeaseOf(n)' = Promise!Lease("held", r)
      BY <1>1, <1>2, <2>3, <2>6, <3>1 DEF LeaseView
    <3>3. Promise!Acquire(n, r)
      BY <1>1, <2>5, <3>2 DEF Promise!Acquire, leases
    <3> QED
      BY <1>1, <3>3 DEF KeepsPromise, Promise!LeaseNext
  <2>7. CASE job[r].op # "keep"
    <3>1. LeaseOf(n)' = Promise!Lease("free", NoRequest)
      BY <1>1, <1>2, <2>3, <2>7 DEF LeaseView
    <3>2. Promise!Offer(n)
      BY <1>1, <2>5, <3>1 DEF Promise!Offer, leases
    <3> QED
      BY <1>1, <3>2 DEF KeepsPromise, Promise!LeaseNext
  <2> QED
    BY <2>6, <2>7
<1>4. CASE pool[n].status # "none"
  <2>1. GoTo(r, "done") /\ UNCHANGED pool
    BY <1>4 DEF Record
  <2>2. \A s \in Requests, m \in Numbers : Holds(s, m)' <=> Holds(s, m)
    BY <1>1, <2>1, GoToEffect DEF Holds, Advances, Places
  <2> QED
    BY <2>1, <2>2, NoLeaseMoves DEF KeepsPromise
<1> QED
  BY <1>3, <1>4

\* What the holder links is committed.
LEMMA LinkCommits ==
  ASSUME PoolInv, PoolInv', NEW r \in Requests, LinkRoutingNumber(r)
  PROVE  KeepsPromise
<1>0. PICK n : n = job[r].number
  OBVIOUS
<1> USE <1>0
<1>1. /\ NumbersTypeOK /\ job \in [Requests -> JobType] /\ pool \in [Numbers -> RowType]
      /\ job[r].at = "link" /\ n \in Numbers /\ Holds(r, n)
  BY DEF PoolInv, NumbersTypeOK, JobsOK, LinkRoutingNumber, Holds
<1>2. LeaseView /\ LeaseView'
  BY LeaseViewed, PTL
<1>3. CASE InPool(n)
  <2>1. /\ Advances(r) /\ job'[r].at = "done" /\ job'[r].number = n
    BY <1>1, <1>3, GoToEffect DEF LinkRoutingNumber, Places
  <2>2. pool[n].status = "assigned" /\ pool[n].link = NoRequest
    BY <1>1, <1>3 DEF PoolInv, HoldersOK, InPool
  <2>3. /\ pool'[n].status = "assigned" /\ pool'[n].link = r
        /\ \A m \in Numbers \ {n} : pool'[m] = pool[m]
    BY <1>1, <1>3, <2>2 DEF LinkRoutingNumber, RowType
  <2>4. \A s \in Requests, m \in Numbers \ {n} : Holds(s, m)' <=> Holds(s, m)
    BY <1>1, <2>1 DEF Holds, Advances
  <2>5. LeaseOf(n) = Promise!Lease("held", r) /\ LeaseOf(n)' = Promise!Lease("used", r)
    BY <1>1, <1>2, <2>2, <2>3, NumberPoolAssumption DEF LeaseView
  <2>6. Promise!Commit(n)
    BY <1>1, <2>3, <2>4, <2>5, OneLeaseMoves DEF Promise!Commit, Promise!Lease, leases
  <2> QED
    BY <1>1, <2>6 DEF KeepsPromise, Promise!LeaseNext
<1>4. CASE ~InPool(n)
  <2>1. GoTo(r, "rollback") /\ UNCHANGED pool
    BY <1>4 DEF LinkRoutingNumber
  <2>2. \A s \in Requests, m \in Numbers : Holds(s, m)' <=> Holds(s, m)
    BY <1>1, <2>1, GoToEffect DEF Holds, Advances, Places
  <2> QED
    BY <2>1, <2>2, NoLeaseMoves DEF KeepsPromise
<1> QED
  BY <1>3, <1>4

\* A claim that is rolled back, and the number of a tenant's number that is deleted, are
\* returned: the link names one number only.
LEMMA ReleaseReturns ==
  ASSUME PoolInv, PoolInv', NEW r \in Requests, ReleaseClaim(r) \/ ReleaseByPhoneNumber(r)
  PROVE  KeepsPromise
<1> DEFINE free == Row("available", NoRequest, NoTenant)
<1>1. /\ NumbersTypeOK /\ job \in [Requests -> JobType] /\ pool \in [Numbers -> RowType]
  BY DEF PoolInv, NumbersTypeOK
<1>2. LeaseView /\ LeaseView'
  BY LeaseViewed, PTL
<1>3. free.status = "available"
  BY DEF Row
<1>4. ASSUME NEW n \in Numbers, pool' = [pool EXCEPT ![n] = free], pool[n].status = "assigned",
             pool[n].link # NoRequest \/ Holds(r, n),
             \A s \in Requests, m \in Numbers \ {n} : Holds(s, m)' <=> Holds(s, m)
      PROVE  KeepsPromise
  <2>1. pool'[n].status = "available" /\ \A m \in Numbers \ {n} : pool'[m] = pool[m]
    BY <1>1, <1>3, <1>4
  <2>2. LeaseOf(n).state \in {"held", "used"} /\ LeaseOf(n)' = Promise!Lease("free", NoRequest)
    BY <1>2, <1>4, <2>1 DEF LeaseView, Promise!Lease
  <2>3. Promise!Return(n)
    BY <1>4, <2>1, <2>2, OneLeaseMoves DEF Promise!Return, leases
  <2> QED
    BY <2>3 DEF KeepsPromise, Promise!LeaseNext
<1> HIDE DEF free
<1>5. CASE ReleaseClaim(r)
  <2>0. PICK n : n = job[r].number
    OBVIOUS
  <2> USE <2>0
  <2>1. job[r].at = "rollback" /\ n \in Numbers /\ Holds(r, n) /\ GoTo(r, "done")
    BY <1>5 DEF PoolInv, JobsOK, ReleaseClaim, Holds
  <2>2. \A s \in Requests, m \in Numbers \ {n} : Holds(s, m)' <=> Holds(s, m)
    BY <1>1, <2>1, GoToEffect DEF Holds, Advances, Places
  <2>3. pool[n].status \in {"assigned", "removed"} /\ pool[n].link = NoRequest
    BY <2>1 DEF PoolInv, HoldersOK
  <2>4. CASE pool[n].status = "assigned"
    <3>1. pool' = [pool EXCEPT ![n] = free]
      BY <1>5, <2>3, <2>4 DEF ReleaseClaim, InPool, free
    <3> QED
      BY <1>4, <2>1, <2>2, <2>4, <3>1
  <2>5. CASE pool[n].status = "removed"
    BY <1>5, <2>2, <2>5, NoLeaseMoves DEF ReleaseClaim, InPool, KeepsPromise
  <2> QED
    BY <2>3, <2>4, <2>5
<1>6. CASE ReleaseByPhoneNumber(r)
  <2>1. /\ job[r].at = "release" /\ job[r].phone \in Requests /\ GoTo(r, "delete")
        /\ pool' = [n \in Numbers |-> IF InPool(n) /\ pool[n].link = job[r].phone
                                      THEN free ELSE pool[n]]
    BY <1>6 DEF PoolInv, JobsOK, ReleaseByPhoneNumber, free
  <2>2. \A s \in Requests, m \in Numbers : Holds(s, m)' <=> Holds(s, m)
    BY <1>1, <2>1, GoToEffect DEF Holds, Advances, Places
  <2>3. CASE \E n \in Numbers : pool[n].link = job[r].phone
    <3>1. PICK n \in Numbers : pool[n].link = job[r].phone
      BY <2>3
    <3>2. pool[n].link # NoRequest /\ pool[n].status = "assigned"
          /\ \A m \in Numbers \ {n} : pool[m].link # job[r].phone
      BY <2>1, <3>1, NumberPoolAssumption DEF PoolInv, LinksOK, RowsOK
    <3>3. pool' = [pool EXCEPT ![n] = free]
      BY <1>1, <2>1, <3>1, <3>2 DEF InPool
    <3> QED
      BY <1>4, <2>2, <3>2, <3>3
  <2>4. CASE ~\E n \in Numbers : pool[n].link = job[r].phone
    BY <1>1, <2>1, <2>2, <2>4, NoLeaseMoves DEF KeepsPromise
  <2> QED
    BY <2>3, <2>4
<1> QED
  BY <1>5, <1>6

\* A row that is deleted is withdrawn, whoever has the number.
LEMMA RemovalWithdraws ==
  ASSUME PoolInv, PoolInv', NEW r \in Requests, RemoveRow(r)
  PROVE  KeepsPromise
<1>0. PICK n : n = job[r].number
  OBVIOUS
<1> USE <1>0
<1>1. /\ NumbersTypeOK /\ job \in [Requests -> JobType] /\ pool \in [Numbers -> RowType]
      /\ job[r].at = "remove" /\ n \in Numbers /\ GoTo(r, "done")
  BY DEF PoolInv, NumbersTypeOK, JobsOK, RemoveRow
<1>2. LeaseView /\ LeaseView'
  BY LeaseViewed, PTL
<1>3. \A s \in Requests, m \in Numbers : Holds(s, m)' <=> Holds(s, m)
  BY <1>1, GoToEffect DEF Holds, Advances, Places
<1>4. CASE InPool(n)
  <2>1. pool'[n].status = "removed" /\ \A m \in Numbers \ {n} : pool'[m] = pool[m]
    BY <1>1, <1>4 DEF RemoveRow, Row
  <2>2. LeaseOf(n)' = Promise!Lease("gone", NoRequest)
    BY <1>1, <1>2, <2>1 DEF LeaseView
  <2>3. LeaseOf(n).state \in {"free", "used", "held", "lost"}
    BY <1>4 DEF LeaseOf
  <2>4. Promise!Withdraw(n)
    BY <1>1, <1>3, <2>1, <2>2, <2>3, OneLeaseMoves DEF Promise!Withdraw, leases
  <2> QED
    BY <1>1, <2>4 DEF KeepsPromise, Promise!LeaseNext
<1>5. CASE ~InPool(n)
  BY <1>3, <1>5, NoLeaseMoves DEF RemoveRow, KeepsPromise
<1> QED
  BY <1>4, <1>5

\* A request that ends before its link or rollback loses what it holds.
LEMMA FailureLoses ==
  ASSUME PoolInv, PoolInv', NEW r \in Requests, Fail(r) \/ Stop(r)
  PROVE  KeepsPromise
<1>0. PICK n : n = job[r].number
  OBVIOUS
<1> USE <1>0
<1>1. /\ NumbersTypeOK /\ job \in [Requests -> JobType] /\ pool' = pool
  BY DEF PoolInv, NumbersTypeOK, Fail, Stop, Faulty, Rows
<1>2. PICK a \in {"rollback", "done"} :
        GoTo(r, a) /\ (a = "rollback" => job[r].op = "keep" /\ job[r].at \in {"create", "link"})
  BY DEF Fail, Stop
<1>3. /\ Advances(r) /\ job'[r].at = a /\ job'[r].number = n
  BY <1>1, <1>2, GoToEffect DEF Places
<1>4. \A s \in Requests, m \in Numbers \ {n} : Holds(s, m)' <=> Holds(s, m)
  BY <1>3 DEF Holds, Advances
<1>5. LeaseView /\ LeaseView'
  BY LeaseViewed, PTL
<1>6. CASE n \in Numbers /\ a = "done" /\ Holds(r, n) /\ InPool(n)
  <2>1. /\ pool[n].status = "assigned" /\ pool[n].link = NoRequest
        /\ \A s \in Requests : Holds(s, n) => s = r
    BY <1>6 DEF PoolInv, HoldersOK, InPool
  <2>2. \A s \in Requests : ~Holds(s, n)'
    BY <1>3, <1>6, <2>1 DEF Holds, Advances
  <2>3. LeaseOf(n) = Promise!Lease("held", r) /\ LeaseOf(n)' = Promise!Lease("lost", NoRequest)
    BY <1>1, <1>5, <1>6, <2>1, <2>2 DEF LeaseView
  <2>4. Promise!Lose(n)
    BY <1>1, <1>4, <1>6, <2>3, OneLeaseMoves DEF Promise!Lose, Promise!Lease, leases
  <2> QED
    BY <1>6, <2>4 DEF KeepsPromise, Promise!LeaseNext
<1>7. CASE ~(n \in Numbers /\ a = "done" /\ Holds(r, n) /\ InPool(n))
  <2>1. \A m \in Numbers : InPool(m) => \A s \in Requests : Holds(s, m)' <=> Holds(s, m)
    BY <1>2, <1>3, <1>7 DEF Holds, Advances
  <2> QED
    BY <1>1, <2>1, NoLeaseMoves DEF KeepsPromise
<1> QED
  BY <1>6, <1>7

\* The operator's pool is one the promise may start with.
LEMMA LeaseStarts == NumbersInit => Promise!LeaseInit
<1> SUFFICES ASSUME NumbersInit PROVE Promise!LeaseInit
  OBVIOUS
<1>1. \A n \in Numbers : pool[n].status \in {"none", "available"}
  BY DEF NumbersInit, NoRow, Row
<1>2. \A n \in Numbers : LeaseOf(n) \in {Promise!Lease("none", NoRequest), Promise!Lease("free", NoRequest)}
  BY <1>1 DEF LeaseOf, InPool, Promise!Lease
<1> QED
  BY <1>2 DEF leases, Promise!LeaseInit

\* Every step of the pool is one of the promise, or none that it sees.
LEMMA LeaseSteps == PoolInv /\ PoolInv' /\ [NumbersNext]_numberVars => [KeepsPromise]_leases
<1> SUFFICES ASSUME PoolInv, PoolInv', [NumbersNext]_numberVars PROVE [KeepsPromise]_leases
  OBVIOUS
<1>1. ASSUME NEW r \in Requests, RequestStep(r) PROVE KeepsPromise
  BY <1>1, SearchingMovesNothing, ClaimAcquires, RecordAcquiresOrOffers, LinkCommits,
     ReleaseReturns, RemovalWithdraws DEF RequestStep
<1>2. CASE UNCHANGED <<pool, job>>
  BY <1>2, NoLeaseMoves DEF Holds
<1>3. (\E t \in Tenants : DeleteTenant(t)) \/ (\E n \in Numbers : InboundCall(n)) =>
        UNCHANGED <<pool, job>>
  BY DEF DeleteTenant, InboundCall
<1> QED
  BY <1>1, <1>2, <1>3, ArrivalMovesNothing, FailureLoses DEF NumbersNext, numberVars

\* Whatever requests run at once, fail or stop, and whatever an administrator removes,
\* a number goes from one holder to another only through being free
\* (routing-pool.service.ts:22-98): the pool implements NumberLease.
THEOREM PoolImplementsLease == NumbersSpec => ImplementsLease
<1>1. PoolInv /\ PoolInv' /\ [NumbersNext]_numberVars => [leases' # leases => Promise!LeaseNext]_leases
  BY LeaseSteps DEF KeepsPromise
<1> QED
  BY <1>1, LeaseStarts, PoolInvariant, PTL DEF NumbersSpec, ImplementsLease
=============================================================================
