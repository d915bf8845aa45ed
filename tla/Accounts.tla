------------------------------ MODULE Accounts ------------------------------
(***************************************************************************)
(* The users of one tenant (routes/users.ts, routes/tenants.ts,            *)
(* routes/auth.ts, routes/admin.ts, plugins/auth.ts): provisioning,        *)
(* invitations, roles, removals and sign-ins.                              *)
(*                                                                         *)
(* Every actor has one request at a time, split at its statements.  What a *)
(* tenant's user may do is read from his session, never from the database. *)
(***************************************************************************)

CONSTANTS Users, Staff  \* the tenant's users; the operator's console

ASSUME AccountsAssumption == Staff \notin Users

VARIABLES tenantState, \* "none", "live" or "deleted"
          hasAccount,  \* users with a User row
          member,      \* member[u]: role of the TenantUser row, or "none"
          session,     \* session[u]: role in u's session token, or "none"
          request,     \* request[a]: what actor a is doing, at its next statement
          waived       \* history: the operator intervened, or a request was carried out
                       \* for somebody who was not an administrator any more, or on himself

accountVars == <<tenantState, hasAccount, member, session, request, waived>>

\* Roles of a tenant; the platform's own roles are the operator's.
Roles == {"tenant_admin", "tenant_member"}
Actors == Users \cup {Staff}
NoAsk == [op |-> "none", at |-> "idle", target |-> Staff, role |-> "none"]
Ask(op, at, target, role) == [op |-> op, at |-> at, target |-> target, role |-> role]

AccountsInit ==
  /\ tenantState = "none" /\ hasAccount = {}
  /\ member = [u \in Users |-> "none"] /\ session = [u \in Users |-> "none"]
  /\ request = [a \in Actors |-> NoAsk]
  /\ waived = FALSE

Tenancy == <<tenantState, hasAccount, member, session>>

\* The tenant's users with the capability users:write, the operator without.
Managers == {Staff} \cup {u \in Users : session[u] = "tenant_admin"}

\* A session outlives its role: a is not, or no longer, the tenant's administrator.
Outlived(a) == a = Staff \/ member[a] # "tenant_admin"

Answer(a) == request' = [request EXCEPT ![a] = NoAsk]
Proceed(a, at) == request' = [request EXCEPT ![a].at = at]

---------------------------------------------------------------------------
(* Requests arrive.                                                         *)

Arrives(a, r) ==
  /\ request[a] = NoAsk /\ request' = [request EXCEPT ![a] = r]
  /\ UNCHANGED <<Tenancy, waived>>

\* POST /users; nobody keeps an administrator from inviting himself.
InviteUser(u, v, role) ==
  u \in Managers /\ Arrives(u, Ask("invite", "user", v, role))

\* Mutant: an administrator may change his own role.
ChangeRole_Own(a, v, role) ==
  a \in Managers /\ Arrives(a, Ask("role", "check", v, role))

\* PUT /users/:userId/role and /admin/users/:id/role
ChangeRole(a, v, role) ==
  a \in Managers /\ v # a /\ Arrives(a, Ask("role", "check", v, role))

\* DELETE /users/:userId
RemoveUser(u, v) ==
  u \in Managers /\ v # u /\ Arrives(u, Ask("remove", "check", v, "none"))

\* POST /admin/provision-tenant
ProvisionTenant(u) == Arrives(Staff, Ask("provision", "slug", u, "tenant_admin"))

---------------------------------------------------------------------------
(* Their statements.                                                        *)

\* The slug is checked, and unique when the tenant is created.
CheckSlug ==
  /\ request[Staff].at = "slug"
  /\ IF tenantState = "none" THEN Proceed(Staff, "tenant") ELSE Answer(Staff)
  /\ UNCHANGED <<Tenancy, waived>>

InsertTenant ==
  /\ request[Staff].at = "tenant"
  /\ IF tenantState = "none" THEN tenantState' = "live" /\ Proceed(Staff, "user")
     ELSE Answer(Staff) /\ UNCHANGED tenantState
  /\ UNCHANGED <<hasAccount, member, session, waived>>

\* upsertTenantUser: the user by e-mail address, ...
UpsertUser(a) ==
  /\ request[a].at = "user"
  /\ hasAccount' = hasAccount \cup {request[a].target}
  /\ Proceed(a, "member")
  /\ UNCHANGED <<tenantState, member, session, waived>>

\* ... then his membership, whose role is overwritten if there is one.
UpsertMember(a) ==
  LET v == request[a].target IN
  /\ request[a].at = "member"
  /\ IF tenantState = "live" /\ v \in hasAccount
     THEN /\ member' = [member EXCEPT ![v] = request[a].role]
          /\ waived' = (waived \/ (a # Staff /\ (v = a \/ Outlived(a))))
     ELSE member' = member /\ waived' = (waived \/ a = Staff)
  /\ Answer(a)
  /\ UNCHANGED <<tenantState, hasAccount, session>>

FindMember(a) ==
  /\ request[a].at = "check"
  /\ IF member[request[a].target] = "none" THEN Answer(a) ELSE Proceed(a, "write")
  /\ UNCHANGED <<Tenancy, waived>>

\* The role is updated or the membership deleted; without it this throws.
WriteMember(a) ==
  LET v == request[a].target IN
  /\ request[a].at = "write"
  /\ IF member[v] = "none" THEN UNCHANGED <<member, waived>>
     ELSE member' = [member EXCEPT ![v] = request[a].role] /\ waived' = (waived \/ Outlived(a))
  /\ Answer(a)
  /\ UNCHANGED <<tenantState, hasAccount, session>>

\* A statement fails; what the earlier ones did stays.
RequestFails(a) ==
  /\ request[a] # NoAsk
  /\ Answer(a)
  /\ waived' = (waived \/ a = Staff)
  /\ UNCHANGED Tenancy

---------------------------------------------------------------------------
(* Requests of one statement.                                               *)

\* POST /auth/login, /auth/magic-link/verify and /auth/switch-tenant; a user the
\* operator has locked may not, which here he does not have to.
SignIn(u) ==
  /\ u \in hasAccount /\ member[u] # "none"
  /\ session' = [session EXCEPT ![u] = member[u]]
  /\ UNCHANGED <<tenantState, hasAccount, member, request, waived>>

\* The token expires, or the user signs out.
SessionEnds(u) ==
  /\ session[u] # "none"
  /\ session' = [session EXCEPT ![u] = "none"]
  /\ UNCHANGED <<tenantState, hasAccount, member, request, waived>>

\* POST /admin/tenants: a tenant without users.
CreateTenant ==
  /\ tenantState = "none"
  /\ tenantState' = "live" /\ waived' = TRUE
  /\ UNCHANGED <<hasAccount, member, session, request>>

\* Mutant: the memberships of a deleted user stay.
DeleteUser_KeepsMembership(u) ==
  /\ u \in hasAccount
  /\ hasAccount' = hasAccount \ {u} /\ waived' = TRUE
  /\ UNCHANGED <<tenantState, member, session, request>>

\* DELETE /admin/users/:id, with his memberships by cascade.
DeleteUser(u) ==
  /\ u \in hasAccount
  /\ hasAccount' = hasAccount \ {u}
  /\ member' = [member EXCEPT ![u] = "none"]
  /\ waived' = TRUE
  /\ UNCHANGED <<tenantState, session, request>>

\* DELETE /admin/tenants/:id, with its memberships; its id does not come back.
RemoveTenant ==
  /\ tenantState = "live"
  /\ tenantState' = "deleted" /\ member' = [u \in Users |-> "none"]
  /\ UNCHANGED <<hasAccount, session, request, waived>>

---------------------------------------------------------------------------
AccountStep(a) == UpsertUser(a) \/ UpsertMember(a) \/ FindMember(a) \/ WriteMember(a) \/ RequestFails(a)

AccountsNext ==
  \/ CheckSlug \/ InsertTenant \/ CreateTenant \/ RemoveTenant
  \/ \E a \in Actors : \/ AccountStep(a)
                       \/ \E v \in Users, role \in Roles : ChangeRole(a, v, role)
  \/ \E u \in Users : \/ ProvisionTenant(u) \/ SignIn(u) \/ SessionEnds(u)
                      \/ DeleteUser(u)
                      \/ \E v \in Users : RemoveUser(u, v)
                      \/ \E v \in Users, role \in Roles : InviteUser(u, v, role)

AccountsSpec == AccountsInit /\ [][AccountsNext]_accountVars

---------------------------------------------------------------------------
(* Properties.                                                              *)

\* The types; a membership belongs to a user and a tenant that exist.
AccountsTypeOK ==
  /\ tenantState \in {"none", "live", "deleted"}
  /\ hasAccount \subseteq Users
  /\ \A u \in Users : member[u] # "none" => u \in hasAccount /\ tenantState = "live"
  /\ member \in [Users -> Roles \cup {"none"}] /\ session \in [Users -> Roles \cup {"none"}]
  /\ request \in [Actors -> [op : {"none", "invite", "role", "remove", "provision"},
                             at : {"idle", "slug", "tenant", "user", "member", "check", "write"},
                             target : Actors, role : Roles \cup {"none"}]]
  /\ waived \in BOOLEAN

\* The tenant is being provisioned: its administrator is about to be entered.
Provisioning == request[Staff].op = "provision" /\ request[Staff].at \in {"user", "member"}

\* Once provisioned, a tenant keeps an administrator, in whatever order its users
\* invite, remove and demote one another (users.ts:74, 93: nobody may demote or
\* remove himself) - unless the operator intervened, or somebody whose session
\* outlived his role, or who invited himself to a lower one, carried out a request.
AdminRemainsUnlessWaived ==
  tenantState = "live" /\ ~Provisioning /\ ~waived =>
    \E u \in hasAccount : member[u] = "tenant_admin"

\* "You cannot change your own role" (users.ts:74): no request of a user changes
\* his own membership.
OwnRoleKept ==
  [][\A u \in Users : request[u].at \in {"member", "write"} /\ request[u].target = u /\ request'[u] = NoAsk =>
       member'[u] = member[u]]_accountVars
=============================================================================
