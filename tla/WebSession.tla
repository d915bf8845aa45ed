----------------------------- MODULE WebSession -----------------------------
(***************************************************************************)
(* Who a browser believes is signed in (web: lib/api.ts, lib/useMe.ts, the *)
(* login and callback pages, the layouts of the dashboard and the admin    *)
(* console).  The token lies in localStorage, shared by all tabs; the      *)
(* identity behind it is fetched once per tab and kept in module variables *)
(* that survive client-side navigation, by links and by the history (back, *)
(* forward), but not a page load.                                          *)
(***************************************************************************)

CONSTANTS
  Tabs,
  Customers, PlatformStaff,  \* accounts, by the kind of their role
  Nobody                     \* no token, no identity

ASSUME WebAssumption == Nobody \notin Customers \cup PlatformStaff

VARIABLES
  token,    \* localStorage: whose token it is
  expired,  \* accounts whose token the API answers with 401
  tab,      \* tab[t]: the module variables, and the mounted layout of t
  pending,  \* pending[t]: tokens of t's other requests in flight
  disturbed \* history: tabs with an identity whose token was replaced behind its back, by
            \* another tab, a late 401, or a sign-in on a page the browser's history led to

webVars == <<token, expired, tab, pending, disturbed>>

Identities == Customers \cup PlatformStaff

MePromise(at, as) == [at |-> at, as |-> as]
NoPromise == MePromise("none", Nobody)

\* A tab after a page load: nothing cached, and the history has not yet led back to a
\* sign-in page (returned).
Fresh(view) == [view |-> view, ready |-> FALSE, loading |-> FALSE, me |-> Nobody,
                cached |-> Nobody, inflight |-> NoPromise, returned |-> FALSE]

InShell == {"app", "admin"}

\* useMe and the token check of a layout that mounts in tab record r.
Mount(r, view, tok) ==
  LET inflight == IF r.cached = Nobody /\ r.inflight.at = "none" THEN MePromise("sent", tok)
                  ELSE r.inflight IN
  [r EXCEPT !.view = view, !.ready = tok # Nobody, !.me = r.cached,
            !.inflight = inflight, !.loading = r.cached = Nobody /\ inflight.at = "sent"]

\* No layout is mounted any more; the module variables stay.
ShowLogin(r) == [r EXCEPT !.view = "login", !.ready = FALSE, !.loading = FALSE, !.me = Nobody]

WebInit ==
  /\ token = Nobody /\ expired = {}
  /\ tab = [t \in Tabs |-> Fresh("closed")]
  /\ pending = [t \in Tabs |-> {}]
  /\ disturbed = {}

\* The tabs other than t that have, or are about to have, an identity.
Witnesses(t) == {u \in Tabs \ {t} : tab[u].cached # Nobody \/ tab[u].inflight.at = "sent"}

\* Tab t stores a token, or none.
SetToken(t, tok) == token' = tok /\ disturbed' = disturbed \cup Witnesses(t)

\* A page load in t.
OpenTab(t, view) ==
  /\ tab' = [tab EXCEPT ![t] = IF view = "login" THEN Fresh(view) ELSE Mount(Fresh(view), view, token)]
  /\ pending' = [pending EXCEPT ![t] = {}]
  /\ disturbed' = disturbed \ {t}
  /\ UNCHANGED <<token, expired>>

\* router.replace('/login') of a layout that found no token.
RedirectToLogin(t) ==
  /\ tab[t].view \in InShell /\ ~tab[t].ready
  /\ tab' = [tab EXCEPT ![t] = ShowLogin(@)]
  /\ UNCHANGED <<token, expired, pending, disturbed>>

\* r holds, or asks for, an identity other than u.
HoldsOther(r, u) == r.cached \notin {Nobody, u} \/ (r.inflight.at = "sent" /\ r.inflight.as \notin {Nobody, u})

\* The token of u is stored and t, whose record is r, goes to '/' without a page load.
Enter(t, r, u) ==
  /\ token' = u /\ expired' = expired \ {u}
  /\ disturbed' = disturbed \cup Witnesses(t) \cup {v \in {t} : r.returned /\ HoldsOther(r, u)}
  /\ tab' = [tab EXCEPT ![t] = Mount(r, "app", u)]
  /\ UNCHANGED pending

\* POST /auth/login succeeds.
Login(t, u) == tab[t].view = "login" /\ Enter(t, tab[t], u)

\* The history leads back to the login link that the document was opened with: it is good
\* for some minutes and signs in again.
FollowLinkAgain(t, u) ==
  /\ tab[t].view # "closed"
  /\ Enter(t, [tab[t] EXCEPT !.returned = TRUE], u)

\* It does not: on the login page a 401 clears the token and nothing else.
WrongPassword(t) ==
  /\ tab[t].view = "login"
  /\ SetToken(t, Nobody)
  /\ UNCHANGED <<expired, tab, pending>>

\* A login link opens in t: a page load, the token of u, then '/'.
MagicLink(t, u) ==
  /\ expired' = expired \ {u}
  /\ token' = u
  /\ disturbed' = (disturbed \ {t}) \cup Witnesses(t)
  /\ tab' = [tab EXCEPT ![t] = Mount(Fresh("app"), "app", u)]
  /\ pending' = [pending EXCEPT ![t] = {}]

TokenExpires(u) == u \notin expired /\ expired' = expired \cup {u} /\ UNCHANGED <<token, tab, pending, disturbed>>

Accepted(tok) == tok \in Identities \ expired

\* A 401: the token is cleared and, unless t shows the login page, t loads it.
Unauthorized(t, settled) ==
  /\ SetToken(t, Nobody)
  /\ IF tab[t].view = "login"
     THEN tab' = [tab EXCEPT ![t] = settled] /\ pending' = pending
     ELSE tab' = [tab EXCEPT ![t] = Fresh("login")] /\ pending' = [pending EXCEPT ![t] = {}]
  /\ UNCHANGED expired

\* GET /auth/me answers: the identity is kept, and shown by the mounted layout.
MeArrives(t) ==
  LET as == tab[t].inflight.as IN
  /\ tab[t].inflight.at = "sent" /\ Accepted(as)
  /\ tab' = [tab EXCEPT ![t].cached = as, ![t].inflight.at = "kept", ![t].loading = FALSE,
                        ![t].me = IF tab[t].view \in InShell THEN as ELSE Nobody]
  /\ UNCHANGED <<token, expired, pending, disturbed>>

\* The rejected promise stays where the next layout finds it.
Rejected(t) == [tab[t] EXCEPT !.inflight.at = "rejected", !.loading = FALSE]

MeRefused(t) ==
  /\ tab[t].inflight.at = "sent" /\ ~Accepted(tab[t].inflight.as)
  /\ Unauthorized(t, Rejected(t))

MeFails(t) ==
  /\ tab[t].inflight.at = "sent"
  /\ tab' = [tab EXCEPT ![t] = Rejected(t)]
  /\ UNCHANGED <<token, expired, pending, disturbed>>

Shown(t) == tab[t].view \in InShell /\ tab[t].ready /\ ~tab[t].loading

\* Any other request of a page, with the token of that moment.
CallApi(t) ==
  /\ Shown(t) /\ token # Nobody
  /\ pending' = [pending EXCEPT ![t] = @ \cup {token}]
  /\ UNCHANGED <<token, expired, tab, disturbed>>

CallReturns(t, as) ==
  /\ as \in pending[t] /\ Accepted(as)
  /\ pending' = [pending EXCEPT ![t] = @ \ {as}]
  /\ UNCHANGED <<token, expired, tab, disturbed>>

CallRefused(t, as) == as \in pending[t] /\ ~Accepted(as) /\ Unauthorized(t, tab[t])

\* Platform staff are sent on to the console; everybody else may try it, and come back.
Navigate(t, view) ==
  /\ Shown(t) /\ view # tab[t].view
  /\ tab' = [tab EXCEPT ![t] = Mount(@, view, token)]
  /\ UNCHANGED <<token, expired, pending, disturbed>>

\* Back or forward, to a page that the document has shown before: whatever it shows, it may
\* have come from any of the others.  The login page clears nothing.
Traverse(t, view) ==
  /\ tab[t].view \notin {"closed", view}
  /\ tab' = [tab EXCEPT ![t] = IF view = "login" THEN [ShowLogin(@) EXCEPT !.returned = TRUE]
                                               ELSE Mount(@, view, token)]
  /\ UNCHANGED <<token, expired, pending, disturbed>>

\* The console shows its navigation, and the button in it, to staff only.
CanLogOut(t) == Shown(t) /\ (tab[t].view = "admin" => tab[t].me \in PlatformStaff)

\* Mutant: the cache outlives the session.
Logout_KeepsCache(t) ==
  /\ CanLogOut(t)
  /\ SetToken(t, Nobody)
  /\ tab' = [tab EXCEPT ![t] = ShowLogin(@)]
  /\ UNCHANGED <<expired, pending>>

\* clearToken, clearMeCache, and the login page without a page load.
Logout(t) ==
  /\ CanLogOut(t)
  /\ token' = Nobody /\ disturbed' = (disturbed \ {t}) \cup Witnesses(t)
  /\ tab' = [tab EXCEPT ![t] = Fresh("login")]
  /\ UNCHANGED <<expired, pending>>

WebNext ==
  \/ \E u \in Identities : TokenExpires(u)
  \/ \E t \in Tabs :
       \/ RedirectToLogin(t) \/ WrongPassword(t) \/ MeArrives(t) \/ MeRefused(t) \/ MeFails(t)
       \/ CallApi(t) \/ Logout(t)
       \/ \E view \in InShell : Navigate(t, view)
       \/ \E view \in InShell \cup {"login"} : OpenTab(t, view) \/ Traverse(t, view)
       \/ \E u \in Identities : \/ Login(t, u) \/ MagicLink(t, u) \/ FollowLinkAgain(t, u)
                               \/ CallReturns(t, u) \/ CallRefused(t, u)

WebSpec == WebInit /\ [][WebNext]_webVars

---------------------------------------------------------------------------
(* Properties.                                                              *)

WebTypeOK ==
  /\ token \in Identities \cup {Nobody} /\ expired \subseteq Identities
  /\ tab \in [Tabs -> [view : InShell \cup {"closed", "login"}, ready : BOOLEAN, loading : BOOLEAN,
                       me : Identities \cup {Nobody}, cached : Identities \cup {Nobody},
                       inflight : [at : {"none", "sent", "kept", "rejected"}, as : Identities \cup {Nobody}],
                       returned : BOOLEAN]]
  /\ pending \in [Tabs -> SUBSET Identities] /\ disturbed \subseteq Tabs

\* The account a tab shows, and chooses its menus by, is the one its requests are sent
\* as (useMe.ts:15, Nav.tsx:23), through sign-outs, sign-ins, back and forward, expiry and
\* late answers - unless another tab changed the token they share, or somebody else signed
\* in on a page the history led back to: it clears no cache (login/page.tsx:25).
ShownIsSignedInUnlessDisturbed ==
  \A t \in Tabs \ disturbed : tab[t].me # Nobody /\ token # Nobody => tab[t].me = token

\* "Platform staff use the Admin console, not the customer app." ((dashboard)/layout.tsx:22):
\* an app that is shown to staff knows that they are, and sends them on.
StaffUseConsole ==
  \A t \in Tabs : Shown(t) /\ tab[t].view = "app" /\ token \in PlatformStaff => tab[t].me # Nobody
=============================================================================
