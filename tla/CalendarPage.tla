---------------------------- MODULE CalendarPage ----------------------------
(***************************************************************************)
(* Connecting a calendar and choosing the one to book in, for one provider *)
(* (company/integrations/page.tsx, routes/integrations.ts).  Connecting    *)
(* leads through the provider's consent page, which the user may come back *)
(* to.  The other provider is on the same page and shares the flag that    *)
(* disables the buttons while a request runs.                              *)
(***************************************************************************)
EXTENDS Naturals, FiniteSets

CONSTANTS
  CalendarAccounts,  \* accounts of the provider; each has a calendar of its own name
  NoAccount,
  MaxCalls           \* bound: requests at a time

ASSUME CalendarPageAssumption == CalendarAccounts \cap {NoAccount, "unset"} = {}

VARIABLES
  conn,      \* the CalendarConnection row
  panel,     \* the state variables of the page
  calls,     \* requests: sent, served and on their way back, or late: nobody waits
  consent,   \* a consent page can still be completed: its state token is valid
  picked,    \* history: the user has chosen another calendar since the last save
  meddled    \* history: what excuses a wrong default, see Meddle

pageVars == <<conn, panel, calls, consent, picked, meddled>>

Calendars == CalendarAccounts \cup {"primary"}

\* Without a row; the column of the calendar has the default "primary".
NoConnection == [account |-> NoAccount, calendar |-> "primary"]
Connections == [account : CalendarAccounts \cup {NoAccount}, calendar : Calendars]

\* What listCalendars returns: the primary one is the account's own.
ListCalendars(c) == IF c.account = NoAccount THEN {} ELSE {"primary", c.account}

Unset == "unset"
NewPanel == [open |-> TRUE, loaded |-> FALSE, view |-> NoConnection, listed |-> FALSE, list |-> {},
             selected |-> Unset, busy |-> FALSE]

\* A request: the calendar it sends, or shows once it is back, and what the API read.
Request(op, calendar) == [op |-> op, at |-> "sent", calendar |-> calendar, read |-> NoConnection]
Load == Request("load", Unset)
Again == Request("reload", Unset)  \* within the handler of a button
Changes == {"connect", "disconnect", "save", "test", "reload"}

PageInit ==
  /\ conn = NoConnection
  /\ panel = NewPanel /\ calls = {Load}
  /\ consent = FALSE /\ picked = FALSE /\ meddled = FALSE

Choices == <<picked, meddled>>
Connected == panel.open /\ panel.view # NoConnection

\* Requests that run at the same time, a second consent, or a page that could not load
\* what it has changed.
Meddle(how) == meddled' = (meddled \/ how)
Running(ops) == \E c \in calls : c.op \in ops

---------------------------------------------------------------------------
(* The user.                                                                *)

\* What the API still serves when nobody waits any more.
Late == {[c EXCEPT !.at = "late"] : c \in {d \in calls : d.op \in {"save", "disconnect"} /\ d.at # "ok"}}

\* A page load.
Reload == panel' = NewPanel /\ calls' = Late \cup {Load} /\ picked' = FALSE

OpenPage ==
  /\ Reload
  /\ Meddle(Running(Changes))
  /\ UNCHANGED <<conn, consent>>

\* A button of the provider: enabled unless the flag names the provider.
Click(op, calendar) ==
  /\ panel.open /\ ~panel.busy
  /\ Request(op, calendar) \notin calls /\ Cardinality(calls) < MaxCalls
  /\ calls' = calls \cup {Request(op, calendar)}
  /\ panel' = [panel EXCEPT !.busy = TRUE]
  /\ Meddle(Running(Changes) \/ (op # "test" /\ Running({"list"})))
  /\ UNCHANGED <<conn, consent, picked>>

Connect == panel.loaded /\ panel.view = NoConnection /\ Click("connect", Unset)
Disconnect == Connected /\ Click("disconnect", Unset)
SaveDefault == Connected /\ Click("save", panel.selected)
Test == Connected /\ Click("test", Unset)

Select(calendar) ==
  /\ Connected /\ calendar \in panel.list /\ calendar # panel.selected
  /\ panel' = [panel EXCEPT !.selected = calendar]
  /\ picked' = TRUE /\ Meddle(Running({"list"}))
  /\ UNCHANGED <<conn, calls, consent>>

\* A request of the other provider takes the flag for itself, and clears it at its end.
OtherProvider ==
  /\ panel.open /\ panel.busy
  /\ panel' = [panel EXCEPT !.busy = FALSE]
  /\ UNCHANGED <<conn, calls, consent, Choices>>

\* upsert: the update leaves the calendar as it is, the creation finds the default.
UpsertConnection(account) == conn' = [conn EXCEPT !.account = account]

\* The user agrees, in whatever account of the provider; the callback stores the tokens
\* and sends the browser back to the page.
CompleteOAuth(account) ==
  /\ consent
  /\ UpsertConnection(account)
  /\ Reload
  /\ Meddle(conn # NoConnection \/ Running(Changes))
  /\ UNCHANGED consent

\* He declines, or the exchange of the code fails.
OAuthFails ==
  /\ consent
  /\ Reload
  /\ Meddle(Running(Changes))
  /\ UNCHANGED <<conn, consent>>

\* Ten minutes later.
StateExpires == consent /\ consent' = FALSE /\ UNCHANGED <<conn, panel, calls, Choices>>

---------------------------------------------------------------------------
(* The API.                                                                 *)

Served(c, read) ==
  /\ c.at # "ok"
  /\ calls' = (calls \ {c}) \cup {[d EXCEPT !.at = "ok", !.read = read] : d \in {c} \ Late}

\* The status of the connection, or the calendars of its account.
ServeRead(c) ==
  /\ c.op \in {"load", "reload", "list"} /\ Served(c, conn)
  /\ UNCHANGED <<conn, panel, consent, Choices>>

\* Neither the way to the consent page nor a test changes or tells anything here.
ServeOther(c) ==
  /\ c.op \in {"connect", "test"} /\ Served(c, NoConnection)
  /\ UNCHANGED <<conn, panel, consent, Choices>>

\* Mutant: the tokens are deleted and the row is kept.
ServeDisconnect_KeepsRow(c) ==
  /\ c.op = "disconnect" /\ Served(c, NoConnection)
  /\ conn' = [conn EXCEPT !.account = NoAccount]
  /\ UNCHANGED <<panel, consent, Choices>>

ServeDisconnect(c) ==
  /\ c.op = "disconnect" /\ Served(c, NoConnection)
  /\ conn' = NoConnection
  /\ UNCHANGED <<panel, consent, Choices>>

\* updateMany: no row, no error.
SetDefaultCalendar(c) ==
  /\ c.op = "save" /\ c.calendar # Unset /\ Served(c, NoConnection)
  /\ conn' = IF conn.account = NoAccount THEN conn ELSE [conn EXCEPT !.calendar = c.calendar]
  /\ UNCHANGED <<panel, consent, Choices>>

---------------------------------------------------------------------------
(* Its answers.                                                             *)

\* The effect that asks for the calendars of a connection, until it has them.
ListCalls(view) ==
  IF view # NoConnection /\ ~panel.listed THEN {Request("list", view.calendar)} ELSE {}

LoadReturns(c) ==
  /\ c.op \in {"load", "reload"} /\ c.at = "ok" /\ panel.open
  /\ panel' = [panel EXCEPT !.loaded = TRUE, !.view = c.read, !.busy = @ /\ c.op = "load"]
  /\ calls' = (calls \ {c}) \cup ListCalls(c.read)
  /\ UNCHANGED <<conn, consent, Choices>>

\* The selection becomes what the page had loaded when it asked.
ListReturns(c) ==
  /\ c.op = "list" /\ c.at = "ok" /\ panel.open
  /\ panel' = [panel EXCEPT !.listed = TRUE, !.list = ListCalendars(c.read), !.selected = c.calendar]
  /\ calls' = calls \ {c} /\ picked' = FALSE
  /\ UNCHANGED <<conn, consent, meddled>>

\* window.location: the page goes, the consent page comes.
ConnectReturns(c) ==
  /\ c.op = "connect" /\ c.at = "ok" /\ panel.open
  /\ consent' = TRUE
  /\ panel' = [NewPanel EXCEPT !.open = FALSE] /\ calls' = Late
  /\ Meddle(Running(Changes \ {"connect"}))
  /\ UNCHANGED <<conn, picked>>

\* The list is forgotten, not unset; the flag goes when the status has been loaded.
DisconnectReturns(c) ==
  /\ c.op = "disconnect" /\ c.at = "ok"
  /\ panel' = [panel EXCEPT !.listed = TRUE, !.list = {}]
  /\ calls' = (calls \ {c}) \cup {Again}
  /\ UNCHANGED <<conn, consent, Choices>>

SaveReturns(c) ==
  /\ c.op = "save" /\ c.at = "ok"
  /\ panel' = [panel EXCEPT !.busy = FALSE]
  /\ calls' = calls \ {c} /\ picked' = (picked /\ panel.selected # c.calendar)
  /\ UNCHANGED <<conn, consent, meddled>>

TestReturns(c) ==
  /\ c.op = "test" /\ c.at = "ok"
  /\ calls' = (calls \ {c}) \cup {Again}
  /\ UNCHANGED <<conn, panel, consent, Choices>>

\* A refusal, or an answer that is lost, or late.
AnswerFails(c) ==
  /\ c.at # "late"
  /\ calls' \in {calls \ {c}, (calls \ {c}) \cup {d \in Late : d = [c EXCEPT !.at = "late"]}}
  /\ panel' = IF c.op \in {"load", "list"} THEN panel ELSE [panel EXCEPT !.busy = FALSE]
  /\ Meddle(c.op \in {"reload", "save", "disconnect"})
  /\ UNCHANGED <<conn, consent, picked>>

PageNext ==
  \/ OpenPage \/ Connect \/ Disconnect \/ SaveDefault \/ Test \/ OtherProvider
  \/ \E calendar \in Calendars : Select(calendar)
  \/ \E account \in CalendarAccounts : CompleteOAuth(account)
  \/ OAuthFails \/ StateExpires
  \/ \E c \in calls :
       \/ ServeRead(c) \/ ServeOther(c) \/ ServeDisconnect(c) \/ SetDefaultCalendar(c)
       \/ LoadReturns(c) \/ ListReturns(c) \/ ConnectReturns(c) \/ DisconnectReturns(c)
       \/ SaveReturns(c) \/ TestReturns(c) \/ AnswerFails(c)

PageSpec == PageInit /\ [][PageNext]_pageVars

---------------------------------------------------------------------------
(* Properties.                                                              *)

PageTypeOK ==
  /\ conn \in Connections
  /\ panel \in [open : BOOLEAN, loaded : BOOLEAN, view : Connections, listed : BOOLEAN, list : SUBSET Calendars,
                selected : Calendars \cup {Unset}, busy : BOOLEAN]
  /\ calls \subseteq [op : Changes \cup {"load", "list"}, at : {"sent", "ok", "late"},
                      calendar : Calendars \cup {Unset}, read : Connections]
  /\ consent \in BOOLEAN /\ picked \in BOOLEAN /\ meddled \in BOOLEAN

\* "Target calendar + the account it belongs to" (schema.prisma:520).
TargetIsOwn == conn.calendar \in {"primary", conn.account}

Shows == IF panel.selected = Unset THEN panel.view.calendar ELSE panel.selected

\* Through disconnections and connections as somebody else, appointments go into a
\* calendar of the connected account, and the page at rest selects the calendar they go
\* into - unless requests overlap, a consent is given twice or an answer is lost.
DefaultHoldsUnlessMeddled ==
  ~meddled =>
    /\ TargetIsOwn
    /\ Connected /\ calls = {} /\ ~picked => conn.account = panel.view.account /\ conn.calendar = Shows
=============================================================================
