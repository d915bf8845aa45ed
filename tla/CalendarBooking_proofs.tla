------------------------ MODULE CalendarBooking_proofs ------------------------
(***************************************************************************)
(* Proofs about CalendarBooking, for any number of running operations, any *)
(* starting times and durations: a disconnected calendar stays so, and no  *)
(* booking overlaps another event unless one came in between.              *)
(***************************************************************************)
EXTENDS CalendarBooking, TLAPS

TaskType ==
  [op : {"none", "book", "check", "test"},
   at : {"idle", "token", "persist", "busy", "create", "settle", "catch", "done"},
   row : ConnectionType, start : Starts \cup {0}, checked : BOOLEAN]

\* Where a task still works with its copy of the row.
Working == {"token", "persist", "busy", "create"}

\* A task's copy of the row has a calendar and a start; if the connection it was made of
\* has not been disconnected since, neither have its tokens; what it refreshes with is there.
TaskOK(b) ==
  /\ task[b].row.id <= grants
  /\ task[b].row.id > withdrawn => task[b].row.refresh = 0 \/ task[b].row.refresh > withdrawn
  /\ task[b].at = "persist" => task[b].row.refresh # 0
  /\ task[b].at \in Working =>
       task[b].start \in Starts /\ task[b].row.calendar \in Calendars \cup {"primary"}
  /\ task[b].at = "create" => task[b].checked

\* The row is younger than the last disconnection, and so are its tokens.
ConnOK ==
  conn # NoConnection =>
    /\ conn.id > withdrawn /\ conn.id <= grants /\ conn.access > withdrawn
    /\ conn.refresh # 0 => conn.refresh > withdrawn
    /\ conn.calendar \in Calendars \cup {"primary"}

Meets(e, calendar, start) ==
  e.calendar = calendar /\ start < e.start + Duration /\ e.start < start + Duration

\* What a booking has found free is free.
SlotOK(b) ==
  Committed(b) => \A e \in events : ~Meets(e, task[b].row.calendar, task[b].start)

BookingsOK == ~bookRaced => NoDoubleBooking /\ \A b \in Tasks : SlotOK(b)

CalendarInv == CalendarTypeOK /\ ConnOK /\ (\A b \in Tasks : TaskOK(b)) /\ BookingsOK

\* The availability check compares with every event of the calendar.
LEMMA SlotFreeMeansUnmet ==
  ASSUME NEW start, NEW calendar
  PROVE  IsSlotFree(start, Duration, Busy(calendar)) =>
           \A e \in events : e.calendar = calendar =>
             ~(start < e.start + Duration /\ start + Duration > e.start)
<1> SUFFICES ASSUME IsSlotFree(start, Duration, Busy(calendar)), NEW e \in events, e.calendar = calendar
             PROVE  ~(start < e.start + Duration /\ start + Duration > e.start)
  OBVIOUS
<1>1. Interval(e.start, e.start + Duration) \in Busy(calendar)
  BY DEF Busy
<1> QED
  BY <1>1 DEF IsSlotFree, Interval

\* The invariant holds at the start: there is no connection, event or task.
LEMMA CalendarInvInit == CalendarInit => CalendarInv
<1> SUFFICES ASSUME CalendarInit PROVE CalendarInv
  OBVIOUS
<1>1. NoConnection \in ConnectionType /\ IdleTask \in TaskType
  BY CalendarAssumption DEF NoConnection, ConnectionType, IdleTask, TaskType
<1>2. CalendarTypeOK
  <2>1. task \in [Tasks -> TaskType]
    BY <1>1 DEF CalendarInit
  <2>2. grants \in 0..MaxGrants /\ withdrawn \in 0..grants
    BY CalendarAssumption DEF CalendarInit
  <2>3. bookRaced \in BOOLEAN
    BY DEF CalendarInit
  <2> QED
    BY <1>1, <2>1, <2>2, <2>3 DEF CalendarInit, CalendarTypeOK, TaskType
<1>3. \A b \in Tasks : TaskOK(b) /\ ~Committed(b)
  BY DEF CalendarInit, IdleTask, NoConnection, TaskOK, Committed, Working
<1> QED
  BY <1>2, <1>3 DEF CalendarInit, CalendarInv, ConnOK, BookingsOK, SlotOK, NoDoubleBooking

(***************************************************************************)
(* The steps of a task.                                                    *)
(***************************************************************************)

\* A task that goes on keeps its copies, one that has finished forgets them.
LEMMA SetAtEffect ==
  ASSUME task \in [Tasks -> TaskType], NEW b \in Tasks,
         NEW a \in {"token", "persist", "busy", "create", "settle", "catch", "done"}, SetAt(b, a)
  PROVE  /\ task' \in [Tasks -> TaskType] /\ \A c \in Tasks \ {b} : task'[c] = task[c]
         /\ task'[b].at = a
         /\ a # "done" => /\ task'[b].row = task[b].row /\ task'[b].start = task[b].start
                          /\ task'[b].checked = task[b].checked
         /\ a = "done" => task'[b].row.id = 0
<1> DEFINE new == IF a = "done" THEN [IdleTask EXCEPT !.at = a] ELSE [task[b] EXCEPT !.at = a]
<1>1. NoConnection \in ConnectionType /\ IdleTask \in TaskType
  BY CalendarAssumption DEF NoConnection, ConnectionType, IdleTask, TaskType
<1>2. task' = [task EXCEPT ![b] = new]
  BY DEF SetAt
<1>3. /\ new \in TaskType /\ new.at = a
      /\ a # "done" => new.row = task[b].row /\ new.start = task[b].start /\ new.checked = task[b].checked
      /\ a = "done" => new.row.id = 0
  BY <1>1 DEF TaskType, IdleTask, NoConnection
<1> HIDE DEF new
<1> QED
  BY <1>2, <1>3

\* A task that moves on, over a row that keeps its age and calendar, leaves all in order.
LEMMA TaskMoves ==
  ASSUME CalendarInv, NEW b \in Tasks, UNCHANGED <<events, bookRaced, grants, withdrawn>>,
         conn' \in ConnectionType, connStatus' \in {"none", "active", "attention", "error"},
         appointment' \in [Tasks -> {"none", "detected", "conflict", "booked", "failed"}],
         ConnOK', task' \in [Tasks -> TaskType], \A c \in Tasks \ {b} : task'[c] = task[c],
         TaskOK(b)', Committed(b)' => SlotOK(b)'
  PROVE  CalendarInv'
<1>1. CalendarTypeOK'
  BY DEF CalendarInv, CalendarTypeOK, TaskType
<1>2. \A c \in Tasks : TaskOK(c)'
  BY DEF CalendarInv, TaskOK
<1>3. BookingsOK'
  <2>1. NoDoubleBooking => NoDoubleBooking'
    BY DEF NoDoubleBooking
  <2>2. \A c \in Tasks \ {b} : SlotOK(c) => SlotOK(c)'
    BY DEF SlotOK, Committed
  <2>3. SlotOK(b)'
    BY DEF SlotOK
  <2> QED
    BY <2>1, <2>2, <2>3 DEF CalendarInv, BookingsOK
<1> QED
  BY <1>1, <1>2, <1>3 DEF CalendarInv

\* A new task works on the row as it is.
LEMMA BeginStep ==
  ASSUME CalendarInv, NEW b \in Tasks, NEW op \in {"book", "check", "test"}, NEW s \in Starts,
         Begin(b, op, s)
  PROVE  CalendarInv'
<1>1. /\ task \in [Tasks -> TaskType] /\ conn \in ConnectionType
      /\ connStatus \in {"none", "active", "attention", "error"}
      /\ appointment \in [Tasks -> {"none", "detected", "conflict", "booked", "failed"}]
  BY DEF CalendarInv, CalendarTypeOK, TaskType
<1>2. /\ UNCHANGED <<conn, connStatus, events, bookRaced, grants, withdrawn>>
      /\ appointment' \in [Tasks -> {"none", "detected", "conflict", "booked", "failed"}]
  BY <1>1 DEF Begin, ConnRow, User, Outcome
<1>3. ConnOK' /\ 0 <= grants
  BY <1>2 DEF CalendarInv, ConnOK, CalendarTypeOK
<1>4. CASE conn = NoConnection
  <2>1. SetAt(b, "done")
    BY <1>4 DEF Begin
  <2>2. /\ task' \in [Tasks -> TaskType] /\ \A c \in Tasks \ {b} : task'[c] = task[c]
        /\ task'[b].at = "done" /\ task'[b].row.id = 0
    BY <1>1, <2>1, SetAtEffect
  <2>3. TaskOK(b)' /\ ~Committed(b)'
    BY <1>2, <1>3, <2>2 DEF TaskOK, Committed, Working, CalendarInv, CalendarTypeOK
  <2> QED
    BY <1>1, <1>2, <1>3, <2>2, <2>3, TaskMoves
<1>5. CASE conn # NoConnection
  <2> DEFINE new == [op |-> op, at |-> "token", row |-> conn, start |-> s, checked |-> FALSE]
  <2>1. task' = [task EXCEPT ![b] = new]
    BY <1>5 DEF Begin
  <2>2. new \in TaskType /\ new.at = "token" /\ new.row = conn /\ new.start = s /\ ~new.checked
    BY <1>1 DEF TaskType
  <2> HIDE DEF new
  <2>3. task' \in [Tasks -> TaskType] /\ task'[b] = new /\ \A c \in Tasks \ {b} : task'[c] = task[c]
    BY <1>1, <2>1, <2>2
  <2>4. TaskOK(b)' /\ ~Committed(b)'
    BY <1>2, <1>5, <2>2, <2>3 DEF CalendarInv, ConnOK, TaskOK, Committed, Working
  <2> QED
    BY <1>1, <1>2, <1>3, <2>3, <2>4, TaskMoves
<1> QED
  BY <1>4, <1>5

\* The token is valid or refreshed, a call throws, or a task settles.  None of this finds a
\* slot free.
LEMMA PlainStep ==
  ASSUME CalendarInv, NEW b \in Tasks,
         ValidAccessToken(b) \/ Settle(b) \/ ThrowTask(b) \/ Catch(b)
  PROVE  CalendarInv'
<1>1. /\ task \in [Tasks -> TaskType] /\ conn \in ConnectionType
      /\ connStatus \in {"none", "active", "attention", "error"}
      /\ appointment \in [Tasks -> {"none", "detected", "conflict", "booked", "failed"}]
      /\ TaskOK(b) /\ grants \in Nat /\ withdrawn \in Nat
  BY CalendarAssumption DEF CalendarInv, CalendarTypeOK, TaskType
<1>2. /\ UNCHANGED <<conn, events, bookRaced, grants, withdrawn>>
      /\ connStatus' \in {"none", "active", "attention", "error"}
      /\ appointment' \in [Tasks -> {"none", "detected", "conflict", "booked", "failed"}]
  <2>1. CASE ValidAccessToken(b) \/ ThrowTask(b)
    BY <1>1, <2>1 DEF ValidAccessToken, ThrowTask, ConnRow, User
  <2>2. CASE Settle(b)
    BY <1>1, <2>2 DEF Settle, User, Outcome
  <2>3. CASE Catch(b)
    BY <1>1, <2>3 DEF Catch, User, Outcome
  <2> QED
    BY <2>1, <2>2, <2>3
<1>3. ConnOK'
  BY <1>2 DEF CalendarInv, ConnOK
<1>4. PICK a \in {"persist", "create", "busy", "catch", "done"} :
        /\ SetAt(b, a)
        /\ a = "persist" => task[b].row.refresh # 0
        /\ a \in {"persist", "create", "busy"} => task[b].at = "token"
        /\ a = "create" => task[b].checked
  <2>1. CASE ValidAccessToken(b)
    BY <2>1 DEF ValidAccessToken, AfterToken
  <2>2. CASE Settle(b) \/ ThrowTask(b) \/ Catch(b)
    BY <2>2 DEF Settle, ThrowTask, Catch
  <2> QED
    BY <2>1, <2>2
<1>5. /\ task' \in [Tasks -> TaskType] /\ \A c \in Tasks \ {b} : task'[c] = task[c]
      /\ task'[b].at = a
      /\ a # "done" => /\ task'[b].row = task[b].row /\ task'[b].start = task[b].start
                       /\ task'[b].checked = task[b].checked
      /\ a = "done" => task'[b].row.id = 0
  BY <1>1, <1>4, SetAtEffect
<1>6. TaskOK(b)'
  BY <1>1, <1>2, <1>4, <1>5 DEF TaskOK, Working
<1>7. Committed(b)' => Committed(b)
  BY <1>4, <1>5 DEF Committed
<1>8. Committed(b)' => task'[b].row = task[b].row /\ task'[b].start = task[b].start
  BY <1>5 DEF Committed
<1>9. CalendarTypeOK' /\ \A c \in Tasks : TaskOK(c)'
  BY <1>1, <1>2, <1>5, <1>6 DEF CalendarInv, CalendarTypeOK, TaskType, TaskOK
<1>10. BookingsOK'
  <2>1. \A c \in Tasks : SlotOK(c) => SlotOK(c)'
    BY <1>2, <1>5, <1>7, <1>8 DEF SlotOK, Committed
  <2> QED
    BY <1>2, <2>1 DEF CalendarInv, BookingsOK, NoDoubleBooking
<1> QED
  BY <1>3, <1>9, <1>10 DEF CalendarInv

\* The refreshed tokens go to the row the task has read, if it is still there: its tokens
\* are younger than the last disconnection, as the row is.
LEMMA PersistStep ==
  ASSUME CalendarInv, NEW b \in Tasks, PersistTokens(b)
  PROVE  CalendarInv'
<1>1. /\ task \in [Tasks -> TaskType] /\ conn \in ConnectionType
      /\ connStatus \in {"none", "active", "attention", "error"}
      /\ TaskOK(b) /\ ConnOK /\ grants \in Nat /\ withdrawn \in Nat /\ task[b].at = "persist"
      /\ UNCHANGED <<events, appointment, bookRaced, grants, withdrawn>>
  <2>1. task[b].at = "persist" /\ UNCHANGED <<events, appointment, bookRaced, grants, withdrawn>>
    BY DEF PersistTokens, User
  <2> QED
    BY <2>1, CalendarAssumption DEF CalendarInv, CalendarTypeOK, TaskType
<1>2. PICK a \in {"create", "busy", "catch"} :
        /\ SetAt(b, a)
        /\ a = "create" => task[b].checked
        /\ a = "catch" <=> ~RowExists(b)
  BY DEF PersistTokens, AfterToken
<1>3. /\ task' \in [Tasks -> TaskType] /\ \A c \in Tasks \ {b} : task'[c] = task[c]
      /\ task'[b].at = a /\ task'[b].row = task[b].row /\ task'[b].start = task[b].start
      /\ task'[b].checked = task[b].checked
  BY <1>1, <1>2, SetAtEffect
<1>4. TaskOK(b)'
  BY <1>1, <1>2, <1>3 DEF TaskOK, Working
<1>5. /\ conn' \in ConnectionType /\ connStatus' \in {"none", "active", "attention", "error"} /\ ConnOK'
  <2>1. CASE RowExists(b)
    <3> DEFINE row == task[b].row
    <3>1. row \in ConnectionType /\ row.refresh # 0 /\ row.id = conn.id /\ conn # NoConnection
      BY <1>1, <2>1 DEF TaskType, TaskOK, RowExists
    <3>2. row.refresh > withdrawn /\ conn.id > withdrawn
      BY <1>1, <3>1 DEF ConnOK, TaskOK
    <3>3. PICK refresh \in {row.refresh, conn.refresh} :
            conn' = [conn EXCEPT !.access = row.refresh, !.expired = FALSE, !.refresh = refresh]
      BY <1>1, <2>1 DEF PersistTokens, ConnectionType
    <3> HIDE DEF row
    <3>4. /\ conn' \in ConnectionType /\ conn'.id = conn.id /\ conn'.access = row.refresh
          /\ conn'.refresh = refresh /\ conn'.calendar = conn.calendar
      BY <1>1, <3>1, <3>3 DEF ConnectionType
    <3>5. ConnOK'
      BY <1>1, <3>1, <3>2, <3>4 DEF ConnOK
    <3> QED
      BY <2>1, <3>4, <3>5 DEF PersistTokens
  <2>2. CASE ~RowExists(b)
    BY <1>1, <2>2 DEF PersistTokens, ConnRow, ConnOK
  <2> QED
    BY <2>1, <2>2
<1>6. CalendarTypeOK' /\ \A c \in Tasks : TaskOK(c)'
  BY <1>1, <1>3, <1>4, <1>5 DEF CalendarInv, CalendarTypeOK, TaskType, TaskOK
<1>7. BookingsOK'
  <2>1. \A c \in Tasks : SlotOK(c) => SlotOK(c)'
    BY <1>1, <1>3 DEF SlotOK, Committed
  <2> QED
    BY <1>1, <2>1 DEF CalendarInv, BookingsOK, NoDoubleBooking
<1> QED
  BY <1>5, <1>6, <1>7 DEF CalendarInv

\* A booking goes on only if its slot is free.
LEMMA LoadBusyStep ==
  ASSUME CalendarInv, NEW b \in Tasks, LoadBusy(b)
  PROVE  CalendarInv'
<1>1. /\ task \in [Tasks -> TaskType] /\ conn \in ConnectionType
      /\ connStatus \in {"none", "active", "attention", "error"}
      /\ appointment \in [Tasks -> {"none", "detected", "conflict", "booked", "failed"}]
      /\ TaskOK(b) /\ ConnOK /\ grants \in Nat /\ withdrawn \in Nat /\ task[b].at = "busy"
      /\ UNCHANGED <<conn, connStatus, events, bookRaced, grants, withdrawn>>
  BY CalendarAssumption DEF CalendarInv, CalendarTypeOK, TaskType, LoadBusy, ConnRow, User
<1>2. appointment' \in [Tasks -> {"none", "detected", "conflict", "booked", "failed"}]
  BY <1>1 DEF LoadBusy, Outcome
<1>3. ConnOK'
  BY <1>1 DEF ConnOK
<1>4. CASE \E a \in {"done", "settle"} : SetAt(b, a)
  <2>1. PICK a \in {"done", "settle"} : SetAt(b, a)
    BY <1>4
  <2>2. /\ task' \in [Tasks -> TaskType] /\ \A c \in Tasks \ {b} : task'[c] = task[c]
        /\ task'[b].at = a
        /\ task'[b].row = task[b].row \/ task'[b].row.id = 0
    BY <1>1, <2>1, SetAtEffect
  <2>3. TaskOK(b)' /\ ~Committed(b)'
    BY <1>1, <2>2 DEF TaskOK, Committed, Working
  <2> QED
    BY <1>1, <1>2, <1>3, <2>2, <2>3, TaskMoves
<1>5. CASE /\ task' = [task EXCEPT ![b].at = "token", ![b].checked = TRUE]
           /\ IsSlotFree(task[b].start, Duration, Busy(task[b].row.calendar))
  <2> DEFINE new == [task[b] EXCEPT !.at = "token", !.checked = TRUE]
  <2>1. task' = [task EXCEPT ![b] = new]
    BY <1>1, <1>5 DEF TaskType
  <2>2. new \in TaskType /\ new.at = "token" /\ new.row = task[b].row /\ new.start = task[b].start
    BY <1>1 DEF TaskType
  <2> HIDE DEF new
  <2>3. task' \in [Tasks -> TaskType] /\ task'[b] = new /\ \A c \in Tasks \ {b} : task'[c] = task[c]
    BY <1>1, <2>1, <2>2
  <2>4. TaskOK(b)'
    BY <1>1, <2>2, <2>3 DEF TaskOK, Working
  <2>5. \A e \in events : ~Meets(e, task[b].row.calendar, task[b].start)
    BY <1>5, SlotFreeMeansUnmet DEF Meets
  <2>6. SlotOK(b)'
    BY <1>1, <2>2, <2>3, <2>5 DEF SlotOK
  <2> QED
    BY <1>1, <1>2, <1>3, <2>3, <2>4, <2>6, TaskMoves
<1> QED
  BY <1>4, <1>5 DEF LoadBusy

\* An event is entered where nothing was when its booking checked; if another booking has
\* checked by then, the two have raced.
LEMMA CreateEventStep ==
  ASSUME CalendarInv, NEW b \in Tasks, CreateEvent(b)
  PROVE  CalendarInv'
<1> DEFINE new == [start |-> task[b].start, calendar |-> task[b].row.calendar, by |-> b]
<1>1. /\ task \in [Tasks -> TaskType] /\ TaskOK(b) /\ ConnOK
      /\ task[b].at = "create" /\ events' = events \cup {new}
      /\ UNCHANGED <<conn, connStatus, appointment, grants, withdrawn>>
      /\ grants \in Nat /\ withdrawn \in Nat
  BY CalendarAssumption DEF CalendarInv, CalendarTypeOK, TaskType, CreateEvent, ConnRow, User
<1>2. PICK a \in {"settle", "catch"} : SetAt(b, a)
  BY DEF CreateEvent
<1>3. /\ task' \in [Tasks -> TaskType] /\ \A c \in Tasks \ {b} : task'[c] = task[c]
      /\ task'[b].at = a /\ task'[b].row = task[b].row
  BY <1>1, <1>2, SetAtEffect
<1>4. \A c \in Tasks : TaskOK(c)'
  BY <1>1, <1>3 DEF CalendarInv, TaskOK, Working
<1>5. new \in [start : Starts, calendar : Calendars \cup {"primary"}, by : Tasks \cup {"user"}]
  BY <1>1 DEF TaskOK, Working
<1>6. bookRaced' = (bookRaced \/ \E c \in Tasks \ {b} : Committed(c)) /\ bookRaced' \in BOOLEAN
  BY DEF CreateEvent, CalendarInv, CalendarTypeOK
<1>7. CalendarTypeOK'
  <2>1. events' \subseteq [start : Starts, calendar : Calendars \cup {"primary"}, by : Tasks \cup {"user"}]
    BY <1>1, <1>5 DEF CalendarInv, CalendarTypeOK
  <2> QED
    BY <1>1, <1>3, <1>6, <2>1 DEF CalendarInv, CalendarTypeOK, TaskType
<1>8. ConnOK'
  BY <1>1 DEF ConnOK
<1>9. BookingsOK'
  <2> SUFFICES ASSUME ~bookRaced' PROVE NoDoubleBooking' /\ \A c \in Tasks : SlotOK(c)'
    BY DEF BookingsOK
  <2>1. ~bookRaced /\ \A c \in Tasks \ {b} : ~Committed(c)
    BY <1>6
  <2>2. \A c \in Tasks : ~Committed(c)'
    BY <1>3, <2>1 DEF Committed
  <2>3. NoDoubleBooking /\ \A e \in events : ~Meets(e, new.calendar, new.start)
    BY <1>1, <2>1 DEF CalendarInv, BookingsOK, SlotOK, Committed, TaskOK
  <2>4. \A e \in events : ~Overlap(e, new) /\ ~Overlap(new, e)
    BY <2>3 DEF Meets, Overlap
  <2> HIDE DEF new
  <2>5. NoDoubleBooking'
    BY <1>1, <2>3, <2>4 DEF NoDoubleBooking, Overlap
  <2> QED
    BY <2>2, <2>5 DEF SlotOK
<1> QED
  BY <1>4, <1>7, <1>8, <1>9 DEF CalendarInv

(***************************************************************************)
(* The steps of the user.                                                  *)
(***************************************************************************)

\* The row that the first grant creates.
FirstRow(g) == [NoConnection EXCEPT !.id = g, !.calendar = "primary"]

\* It is typed, and has no refresh token yet.
LEMMA FirstRowTyped ==
  ASSUME NEW g \in 0..MaxGrants
  PROVE  /\ FirstRow(g) \in ConnectionType /\ FirstRow(g).id = g
         /\ FirstRow(g).refresh = 0 /\ FirstRow(g).calendar = "primary"
<1> DEFINE Ids == 0..MaxGrants
<1>1. ConnectionType = [id : Ids, access : Ids, refresh : Ids, expired : BOOLEAN,
                        calendar : Calendars \cup {"none", "primary"}]
  BY DEF ConnectionType
<1>2. g \in Ids /\ 0 \in Ids
  BY CalendarAssumption
<1> HIDE DEF Ids
<1>3. NoConnection \in ConnectionType /\ NoConnection.refresh = 0
  BY <1>1, <1>2 DEF NoConnection
<1> QED
  BY <1>1, <1>2, <1>3 DEF FirstRow

\* The row changes, or goes; the tasks keep their copies.
LEMMA ConnectionStep ==
  ASSUME CalendarInv,
         \/ \E sendsRefresh \in BOOLEAN : CompleteOAuth(sendsRefresh)
         \/ DisconnectCalendar \/ Expire \/ \E c \in Calendars : SetDefaultCalendar(c)
  PROVE  CalendarInv'
<1>1. /\ conn \in ConnectionType /\ connStatus \in {"none", "active", "attention", "error"}
      /\ ConnOK /\ grants \in Nat /\ withdrawn \in Nat /\ grants \in 0..MaxGrants
      /\ withdrawn <= grants /\ MaxGrants \in Nat /\ task \in [Tasks -> TaskType]
  BY CalendarAssumption DEF CalendarInv, CalendarTypeOK, TaskType
<1>2. /\ UNCHANGED <<events, task, appointment, bookRaced>>
      /\ conn' \in ConnectionType /\ connStatus' \in {"none", "active", "attention", "error"}
      /\ ConnOK' /\ grants' \in 0..MaxGrants /\ withdrawn' \in 0..grants'
      /\ grants <= grants' /\ (withdrawn' = withdrawn \/ withdrawn' = grants)
  <2>1. CASE \E sendsRefresh \in BOOLEAN : CompleteOAuth(sendsRefresh)
    <3>1. PICK sendsRefresh \in BOOLEAN : CompleteOAuth(sendsRefresh)
      BY <2>1
    <3> DEFINE g == grants + 1
               old == IF conn = NoConnection
                      THEN [NoConnection EXCEPT !.id = g, !.calendar = "primary"] ELSE conn
    <3>2. /\ grants < MaxGrants /\ grants' = g /\ connStatus' = "active"
          /\ UNCHANGED <<events, task, appointment, withdrawn, bookRaced>>
          /\ conn' = [old EXCEPT !.access = g, !.refresh = IF sendsRefresh THEN g ELSE @, !.expired = FALSE]
      BY <3>1 DEF CompleteOAuth
    <3>3. g \in 0..MaxGrants /\ g > withdrawn /\ g > grants
      BY <1>1, <3>2
    <3>4. /\ old \in ConnectionType /\ old.id > withdrawn /\ old.id <= g
          /\ old.refresh # 0 => old.refresh > withdrawn
          /\ old.calendar \in Calendars \cup {"primary"}
      <4>1. CASE conn = NoConnection
        <5>1. old = FirstRow(g)
          BY <4>1 DEF FirstRow
        <5> HIDE DEF old, g
        <5> QED
          BY <3>3, <5>1, FirstRowTyped
      <4>2. CASE conn # NoConnection
        <5>1. old = conn /\ conn.id <= g
          BY <1>1, <3>3, <4>2 DEF ConnOK, ConnectionType
        <5> HIDE DEF old, g
        <5> QED
          BY <1>1, <4>2, <5>1 DEF ConnOK
      <4> QED
        BY <4>1, <4>2
    <3> DEFINE refresh == IF sendsRefresh THEN g ELSE old.refresh
    <3> HIDE DEF g, old
    <3>5. refresh \in {g, old.refresh} /\ refresh \in 0..MaxGrants
      BY <3>3, <3>4 DEF ConnectionType
    <3>6. conn' = [old EXCEPT !.access = g, !.refresh = refresh, !.expired = FALSE]
      BY <3>2, <3>4 DEF ConnectionType
    <3> HIDE DEF refresh
    <3>7. /\ conn' \in ConnectionType /\ conn'.id = old.id /\ conn'.access = g
          /\ conn'.refresh = refresh /\ conn'.calendar = old.calendar
      BY <3>3, <3>4, <3>5, <3>6 DEF ConnectionType
    <3>8. ConnOK'
      BY <3>2, <3>3, <3>4, <3>5, <3>7 DEF ConnOK
    <3> QED
      BY <1>1, <3>2, <3>3, <3>7, <3>8
  <2>2. CASE DisconnectCalendar
    <3>1. NoConnection \in ConnectionType
      BY <1>1 DEF NoConnection, ConnectionType
    <3> QED
      BY <1>1, <2>2, <3>1 DEF DisconnectCalendar, ConnOK
  <2>3. CASE Expire
    <3>1. /\ conn # NoConnection /\ conn' = [conn EXCEPT !.expired = TRUE]
          /\ UNCHANGED <<connStatus, events, task, appointment, bookRaced, grants, withdrawn>>
      BY <2>3 DEF Expire, User
    <3>2. /\ conn' \in ConnectionType /\ conn'.id = conn.id /\ conn'.access = conn.access
          /\ conn'.refresh = conn.refresh /\ conn'.calendar = conn.calendar
      BY <1>1, <3>1 DEF ConnectionType
    <3>3. ConnOK'
      BY <1>1, <3>1, <3>2 DEF ConnOK
    <3> QED
      BY <1>1, <3>1, <3>2, <3>3
  <2>4. CASE \E c \in Calendars : SetDefaultCalendar(c)
    <3>1. PICK c \in Calendars :
            /\ conn # NoConnection /\ conn' = [conn EXCEPT !.calendar = c]
            /\ UNCHANGED <<connStatus, events, task, appointment, bookRaced, grants, withdrawn>>
      BY <2>4 DEF SetDefaultCalendar, User
    <3>2. /\ conn' \in ConnectionType /\ conn'.id = conn.id /\ conn'.access = conn.access
          /\ conn'.refresh = conn.refresh /\ conn'.calendar = c
      BY <1>1, <3>1 DEF ConnectionType
    <3>3. ConnOK'
      BY <1>1, <3>1, <3>2 DEF ConnOK
    <3> QED
      BY <1>1, <3>1, <3>2, <3>3
  <2> QED
    BY <2>1, <2>2, <2>3, <2>4
<1>3. CalendarTypeOK'
  BY <1>2 DEF CalendarInv, CalendarTypeOK
<1>4. \A b \in Tasks : TaskOK(b)'
  BY <1>1, <1>2 DEF CalendarInv, TaskOK, TaskType, ConnectionType
<1>5. BookingsOK'
  BY <1>2 DEF CalendarInv, BookingsOK, NoDoubleBooking, SlotOK, Committed
<1> QED
  BY <1>2, <1>3, <1>4, <1>5 DEF CalendarInv

\* An event of the user's own is entered where nothing is; if a booking has checked by
\* then, the two have raced.
LEMMA UserEventStep ==
  ASSUME CalendarInv, NEW s \in Starts, NEW c \in Calendars, UserAddsEvent(s, c)
  PROVE  CalendarInv'
<1> DEFINE new == [start |-> s, calendar |-> c, by |-> "user"]
<1>1. /\ events' = events \cup {new} /\ IsSlotFree(s, Duration, Busy(c))
      /\ bookRaced' = (bookRaced \/ \E b \in Tasks : Committed(b)) /\ bookRaced' \in BOOLEAN
      /\ UNCHANGED <<conn, connStatus, task, appointment, grants, withdrawn>>
  BY DEF UserAddsEvent, ConnRow, User, CalendarInv, CalendarTypeOK
<1>2. events' \subseteq [start : Starts, calendar : Calendars \cup {"primary"}, by : Tasks \cup {"user"}]
  BY <1>1 DEF CalendarInv, CalendarTypeOK
<1>3. CalendarTypeOK' /\ ConnOK' /\ \A b \in Tasks : TaskOK(b)'
  BY <1>1, <1>2 DEF CalendarInv, CalendarTypeOK, ConnOK, TaskOK
<1>4. BookingsOK'
  <2> SUFFICES ASSUME ~bookRaced' PROVE NoDoubleBooking' /\ \A b \in Tasks : SlotOK(b)'
    BY DEF BookingsOK
  <2>1. NoDoubleBooking /\ \A b \in Tasks : ~Committed(b)'
    BY <1>1 DEF CalendarInv, BookingsOK, Committed
  <2>2. \A e \in events : ~Overlap(e, new) /\ ~Overlap(new, e)
    BY <1>1, SlotFreeMeansUnmet DEF Overlap
  <2> HIDE DEF new
  <2>3. NoDoubleBooking'
    BY <1>1, <2>1, <2>2 DEF NoDoubleBooking, Overlap
  <2> QED
    BY <2>1, <2>3 DEF SlotOK
<1> QED
  BY <1>3, <1>4 DEF CalendarInv

(***************************************************************************)
(* The theorems.                                                           *)
(***************************************************************************)

\* Every step keeps the invariant.
LEMMA CalendarInvStep == CalendarInv /\ [CalendarNext]_calendarVars => CalendarInv'
<1> SUFFICES ASSUME CalendarInv, [CalendarNext]_calendarVars PROVE CalendarInv'
  OBVIOUS
<1>1. ASSUME NEW b \in Tasks, TaskStep(b) PROVE CalendarInv'
  BY <1>1, PlainStep, PersistStep, LoadBusyStep, CreateEventStep DEF TaskStep
<1>2. CASE UNCHANGED calendarVars
  BY <1>2 DEF calendarVars, CalendarInv, CalendarTypeOK, ConnOK, TaskOK, BookingsOK, SlotOK,
              Committed, NoDoubleBooking
<1> QED
  BY <1>1, <1>2, BeginStep, ConnectionStep, UserEventStep DEF CalendarNext

\* The invariant holds throughout.
LEMMA CalendarInvariant == CalendarSpec => []CalendarInv
  BY CalendarInvInit, CalendarInvStep, PTL DEF CalendarSpec

\* The connection, the events and the tasks keep their types; in particular a task never
\* enters an event in a calendar that nobody has chosen (calendar.service.ts:218-252).
THEOREM CalendarTypeCorrect == CalendarSpec => []CalendarTypeOK
<1>1. CalendarInv => CalendarTypeOK
  BY DEF CalendarInv
<1> QED
  BY <1>1, CalendarInvariant, PTL

\* Whatever is in flight when the user disconnects his calendar, no refresh brings it back
\* or gives its tokens to a later connection (calendar.service.ts:88-113).
THEOREM DisconnectionHolds == CalendarSpec => []DisconnectHolds
<1>1. CalendarInv => DisconnectHolds
  BY DEF CalendarInv, ConnOK, DisconnectHolds
<1> QED
  BY <1>1, CalendarInvariant, PTL

\* No two events of a calendar overlap, whatever fails or changes between the statements of
\* a booking, unless an event came between its check and its creation (calendar.service.ts:8).
THEOREM NoDoubleBookings == CalendarSpec => []NoDoubleBookingUnlessRaced
<1>1. CalendarInv => NoDoubleBookingUnlessRaced
  BY DEF CalendarInv, BookingsOK, NoDoubleBookingUnlessRaced
<1> QED
  BY <1>1, CalendarInvariant, PTL
=============================================================================
