-------------------------- MODULE CalendarBooking --------------------------
(***************************************************************************)
(* The calendar of one tenant (services/calendar.service.ts): bookings of  *)
(* ended calls, availability checks of running calls and connection tests, *)
(* against connecting, disconnecting and the user's own events.            *)
(*                                                                         *)
(* A task reads the connection once and works on its copy of the row, over *)
(* several calls of the provider.  An OAuth grant is a number, counted up. *)
(***************************************************************************)
EXTENDS CalendarAvailability, FiniteSets

CONSTANTS Tasks, Calendars, Starts, Duration,
          MaxGrants,     \* bound: connections made by the user
          MaxUserEvents  \* bound: events the user enters himself

ASSUME CalendarAssumption ==
  Starts \subseteq Nat /\ Duration \in Nat \ {0} /\ MaxGrants \in Nat /\ MaxUserEvents \in Nat

VARIABLES conn,         \* the CalendarConnection row, without its status
          connStatus,   \* the status of the row, for the dashboard
          events,       \* what is in the calendars
          task,         \* task[b]: a running operation, at its next statement
          appointment,  \* appointment[b]: status of the CallAppointment row
          grants,       \* grants made so far
          withdrawn,    \* history: grants up to this one were disconnected
          bookRaced     \* history: an event came between a check and its booking

calendarVars == <<conn, connStatus, events, task, appointment, grants, withdrawn, bookRaced>>

\* The row: the grants behind its access and refresh token (0: no token).
NoConnection ==
  [id |-> 0, access |-> 0, refresh |-> 0, expired |-> FALSE, calendar |-> "none"]

IdleTask == [op |-> "none", at |-> "idle", row |-> NoConnection, start |-> 0, checked |-> FALSE]

Busy(calendar) ==
  {Interval(e.start, e.start + Duration) : e \in {f \in events : f.calendar = calendar}}

CalendarInit ==
  /\ conn = NoConnection /\ connStatus = "none"
  /\ events = {}
  /\ task = [b \in Tasks |-> IdleTask]
  /\ appointment = [b \in Tasks |-> "none"]
  /\ grants = 0 /\ withdrawn = 0
  /\ bookRaced = FALSE

\* A finished task forgets its copies.
SetAt(b, a) == task' = [task EXCEPT ![b] = IF a = "done" THEN [IdleTask EXCEPT !.at = a]
                                           ELSE [@ EXCEPT !.at = a]]
ConnRow == <<conn, connStatus>>
User == <<grants, withdrawn>>
Outcome(b, status) == appointment' = [appointment EXCEPT ![b] = status]

\* The row a task works on is still there.
RowExists(b) == conn # NoConnection /\ conn.id = task[b].row.id

---------------------------------------------------------------------------
\* activeConnection: createAppointment, checkAvailability or testConnection begins.
Begin(b, op, start) ==
  /\ task[b].at = "idle"
  /\ IF conn = NoConnection
     THEN /\ SetAt(b, "done")
          /\ IF op = "book" THEN Outcome(b, "detected") ELSE UNCHANGED appointment
     ELSE /\ task' = [task EXCEPT ![b] = [op |-> op, at |-> "token", row |-> conn,
                                          start |-> start, checked |-> FALSE]]
          /\ UNCHANGED appointment
  /\ UNCHANGED <<ConnRow, events, bookRaced, User>>

AfterToken(b) == IF task[b].checked THEN "create" ELSE "busy"

\* validAccessToken decides on the task's copy of the row: an expired access
\* token is refreshed (again) by the provider if there is a refresh token.
ValidAccessToken(b) ==
  /\ task[b].at = "token"
  /\ SetAt(b, IF task[b].row.expired /\ task[b].row.refresh # 0 THEN "persist" ELSE AfterToken(b))
  /\ UNCHANGED <<ConnRow, events, appointment, bookRaced, User>>

\* Mutant: the tokens are upserted by tenant and provider.
PersistTokens_Upsert(b) ==
  /\ task[b].at = "persist"
  /\ conn' = [task[b].row EXCEPT !.access = task[b].row.refresh, !.expired = FALSE]
  /\ connStatus' = "active"
  /\ SetAt(b, AfterToken(b))
  /\ UNCHANGED <<events, appointment, bookRaced, User>>

\* The refreshed tokens are stored under the row's id, the refresh token if the provider
\* sent a new one; without the row this throws.
PersistTokens(b) ==
  /\ task[b].at = "persist"
  /\ IF RowExists(b)
     THEN /\ \E rotated \in BOOLEAN :
               conn' = [conn EXCEPT !.access = task[b].row.refresh, !.expired = FALSE,
                                    !.refresh = IF rotated THEN task[b].row.refresh ELSE @]
          /\ connStatus' = "active"
          /\ SetAt(b, AfterToken(b))
     ELSE SetAt(b, "catch") /\ UNCHANGED ConnRow
  /\ UNCHANGED <<events, appointment, bookRaced, User>>

\* Mutant: a busy slot is booked all the same.
LoadBusy_FailOpen(b) ==
  /\ task[b].at = "busy"
  /\ CASE task[b].op = "check" -> SetAt(b, "done")
       [] task[b].op = "test"  -> SetAt(b, "settle")
       [] task[b].op = "book"  -> task' = [task EXCEPT ![b].at = "token", ![b].checked = TRUE]
  /\ UNCHANGED <<ConnRow, events, appointment, bookRaced, User>>

\* The provider's answer.  An availability check ends here, a connection test
\* sets the status, a booking goes on if its slot is free.
LoadBusy(b) ==
  /\ task[b].at = "busy"
  /\ \/ task[b].op = "check" /\ SetAt(b, "done") /\ UNCHANGED appointment
     \/ task[b].op = "test" /\ SetAt(b, "settle") /\ UNCHANGED appointment
     \/ /\ task[b].op = "book"
        /\ IF IsSlotFree(task[b].start, Duration, Busy(task[b].row.calendar))
           THEN /\ task' = [task EXCEPT ![b].at = "token", ![b].checked = TRUE]
                /\ UNCHANGED appointment
           ELSE SetAt(b, "done") /\ Outcome(b, "conflict")
  /\ UNCHANGED <<ConnRow, events, bookRaced, User>>

\* b has found its slot free and not yet created its event.
Committed(b) == task[b].checked /\ task[b].at \in {"token", "persist", "create"}

\* The provider enters the event; its answer may be lost.
CreateEvent(b) ==
  /\ task[b].at = "create"
  /\ events' = events \cup {[start |-> task[b].start, calendar |-> task[b].row.calendar, by |-> b]}
  /\ bookRaced' = (bookRaced \/ \E c \in Tasks \ {b} : Committed(c))
  /\ SetAt(b, "settle") \/ SetAt(b, "catch")
  /\ UNCHANGED <<ConnRow, appointment, User>>

\* The connection is active, the appointment booked.  For a test the update of
\* a row that is gone throws; a booking ignores that.
Settle(b) ==
  /\ task[b].at = "settle"
  /\ connStatus' = IF RowExists(b) THEN "active" ELSE connStatus
  /\ IF task[b].op = "book" THEN Outcome(b, "booked") ELSE UNCHANGED appointment
  /\ SetAt(b, IF task[b].op = "test" /\ ~RowExists(b) THEN "catch" ELSE "done")
  /\ UNCHANGED <<conn, events, bookRaced, User>>

\* A call of the provider or a statement throws.
ThrowTask(b) ==
  /\ task[b].at \in {"token", "persist", "busy", "create"}
  /\ SetAt(b, "catch")
  /\ UNCHANGED <<ConnRow, events, appointment, bookRaced, User>>

\* The catch clauses: the connection needs attention, a booking has failed.
Catch(b) ==
  /\ task[b].at = "catch"
  /\ connStatus' = IF ~RowExists(b) THEN connStatus
                   ELSE IF task[b].op = "check" THEN "attention" ELSE "error"
  /\ IF task[b].op = "book" THEN Outcome(b, "failed") ELSE UNCHANGED appointment
  /\ SetAt(b, "done")
  /\ UNCHANGED <<conn, events, bookRaced, User>>

---------------------------------------------------------------------------
(* The user.                                                                *)

\* completeOAuth: the upsert keeps the old refresh token if the provider sends none.
CompleteOAuth(sendsRefresh) ==
  LET g == grants + 1
      old == IF conn = NoConnection
             THEN [NoConnection EXCEPT !.id = g, !.calendar = "primary"] ELSE conn
  IN
  /\ grants < MaxGrants /\ grants' = g
  /\ conn' = [old EXCEPT !.access = g, !.refresh = IF sendsRefresh THEN g ELSE @,
                         !.expired = FALSE]
  /\ connStatus' = "active"
  /\ UNCHANGED <<events, task, appointment, withdrawn, bookRaced>>

DisconnectCalendar ==
  /\ conn # NoConnection
  /\ conn' = NoConnection /\ connStatus' = "none"
  /\ withdrawn' = grants
  /\ UNCHANGED <<events, task, appointment, grants, bookRaced>>

SetDefaultCalendar(c) ==
  /\ conn # NoConnection
  /\ conn' = [conn EXCEPT !.calendar = c]
  /\ UNCHANGED <<connStatus, events, task, appointment, bookRaced, User>>

\* Less than a minute is left of the access token.
Expire ==
  /\ conn # NoConnection /\ ~conn.expired
  /\ conn' = [conn EXCEPT !.expired = TRUE]
  /\ UNCHANGED <<connStatus, events, task, appointment, bookRaced, User>>

\* The user enters an event of his own where his calendar is free.
UserAddsEvent(start, c) ==
  /\ Cardinality({e \in events : e.by = "user"}) < MaxUserEvents
  /\ IsSlotFree(start, Duration, Busy(c))
  /\ events' = events \cup {[start |-> start, calendar |-> c, by |-> "user"]}
  /\ bookRaced' = (bookRaced \/ \E b \in Tasks : Committed(b))
  /\ UNCHANGED <<ConnRow, task, appointment, User>>

---------------------------------------------------------------------------
TaskStep(b) ==
  \/ ValidAccessToken(b) \/ PersistTokens(b) \/ LoadBusy(b) \/ CreateEvent(b)
  \/ Settle(b) \/ ThrowTask(b) \/ Catch(b)

CalendarNext ==
  \/ \E b \in Tasks : \/ TaskStep(b)
                      \/ \E op \in {"book", "check", "test"}, s \in Starts : Begin(b, op, s)
  \/ \E sendsRefresh \in BOOLEAN : CompleteOAuth(sendsRefresh)
  \/ DisconnectCalendar \/ Expire
  \/ \E c \in Calendars : SetDefaultCalendar(c) \/ \E s \in Starts : UserAddsEvent(s, c)

CalendarSpec == CalendarInit /\ [][CalendarNext]_calendarVars

---------------------------------------------------------------------------
(* Properties.                                                              *)

ConnectionType ==
  [id : 0..MaxGrants, access : 0..MaxGrants, refresh : 0..MaxGrants, expired : BOOLEAN,
   calendar : Calendars \cup {"none", "primary"}]

CalendarTypeOK ==
  /\ conn \in ConnectionType
  /\ connStatus \in {"none", "active", "attention", "error"}
  /\ events \subseteq [start : Starts, calendar : Calendars \cup {"primary"}, by : Tasks \cup {"user"}]
  /\ task \in [Tasks -> [op : {"none", "book", "check", "test"},
                         at : {"idle", "token", "persist", "busy", "create", "settle", "catch", "done"},
                         row : ConnectionType, start : Starts \cup {0}, checked : BOOLEAN]]
  /\ appointment \in [Tasks -> {"none", "detected", "conflict", "booked", "failed"}]
  /\ grants \in 0..MaxGrants /\ withdrawn \in 0..grants /\ bookRaced \in BOOLEAN

Overlap(e, f) ==
  e.calendar = f.calendar /\ e.start < f.start + Duration /\ f.start < e.start + Duration

\* "Fail-CLOSED on conflicts: if a slot cannot be verified free, no event is
\* created (no double bookings)" (calendar.service.ts:8).
NoDoubleBooking ==
  \A e, f \in events : e # f => ~Overlap(e, f)

\* The same as long as no event comes between the check of a booking and its
\* creation - whatever calls of the provider fail, whatever tokens are refreshed
\* and whichever calendar is chosen or disconnected meanwhile.
NoDoubleBookingUnlessRaced == ~bookRaced => NoDoubleBooking

\* A calendar the user has disconnected stays disconnected until he connects one
\* again: no refresh (calendar.service.ts:102), test or booking in flight at the
\* time brings it back, nor gives its tokens to a connection made since.
DisconnectHolds ==
  conn # NoConnection => conn.access > withdrawn /\ (conn.refresh # 0 => conn.refresh > withdrawn)
=============================================================================
