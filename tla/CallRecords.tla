----------------------------- MODULE CallRecords -----------------------------
(***************************************************************************)
(* What is stored of a tenant's calls, and its removal (routes/gdpr.ts,    *)
(* routes/calls.ts, routes/admin.ts, services/retention.service.ts):       *)
(* erasure by number, anonymisation, deletion and the retention job, while *)
(* turns and finalisers write.                                             *)
(***************************************************************************)
EXTENDS Naturals

CONSTANTS Records, Callers,
          Turns, Finalisers, \* what may work on a call at the same time: a gather request, the
                       \* simulator or a handler of the relay session; a status callback or
                       \* the close of the relay session
          Anonymized,  \* stands for the number of an anonymised call
          Periods,     \* retention periods, in days
          MaxAge       \* bound: days a call is kept in the model

ASSUME CallRecordsAssumption ==
  /\ Anonymized \notin Callers /\ Periods \subseteq Nat \ {0} /\ MaxAge \in Nat
  /\ Turns \cap Finalisers = {}

VARIABLES record,   \* record[c]: the Call row with its messages and its summary
          writer,   \* writer[c][w]: the next statement of turn or finaliser w of call c
          gdpr,     \* a request of the data-subject endpoints
          setting,  \* DataRetentionSetting.retentionDays, 0 without a row
          cron,     \* the retention job
          resumed,  \* history: calls a turn was working on when they were anonymised, or since
          unsummarised, \* history: calls that had no summary when they were anonymised
          early      \* history: a call was cleaned up before its time, "stale" if the
                     \* setting had been changed since the job read it

recordVars == <<record, writer, gdpr, setting, cron, resumed, unsummarised, early>>

NoRecord == [state |-> "none", from |-> Anonymized, transcript |-> FALSE, summarised |-> FALSE,
             person |-> FALSE, age |-> 0]
IdleGdpr == [at |-> "idle", ids |-> {}]
IdleCron == [at |-> "idle", days |-> 0, changed |-> FALSE]

RecordsInit ==
  /\ record = [c \in Records |-> NoRecord]
  /\ writer = [c \in Records |-> [w \in Turns \cup Finalisers |-> "idle"]]
  /\ gdpr = IdleGdpr /\ setting \in Periods \cup {0} /\ cron = IdleCron
  /\ resumed = {} /\ unsummarised = {} /\ early = "no"

\* "failed" stands for a call that was declined, too.  An erased call has no rows left, and
\* none can be added: they refer to it.
Stored(c) == record[c].state \in {"live", "done", "failed"}
Erased(cs) == [c \in Records |-> IF c \in cs THEN [NoRecord EXCEPT !.state = "erased"] ELSE record[c]]

Jobs == <<gdpr, setting, cron>>
History == <<resumed, unsummarised, early>>

AtWork(c) == \E t \in Turns : writer[c][t] # "idle"
Goto(c, w, next) == writer' = [writer EXCEPT ![c][w] = next]

\* What finalize() leaves w to do: a turn still speaks its closing line.
After(w) == IF w \in Turns THEN "message" ELSE "idle"

---------------------------------------------------------------------------
(* The calls.                                                               *)

CallArrives(c, phone) ==
  /\ record[c].state = "none"
  /\ record' = [record EXCEPT ![c] = [NoRecord EXCEPT !.state = "live", !.from = phone]]
  /\ UNCHANGED <<writer, Jobs, History>>

\* handleTurn loads the call, and looks at no status.
LoadCall(c, t) ==
  /\ writer[c][t] = "idle" /\ Stored(c)
  /\ Goto(c, t, "message")
  /\ resumed' = IF record[c].from = Anonymized THEN resumed \cup {c} ELSE resumed
  /\ UNCHANGED <<record, Jobs, unsummarised, early>>

\* A line of the caller or of the assistant.  Without its call it cannot be stored.
WriteMessage(c, t) ==
  /\ writer[c][t] = "message"
  /\ record' = IF Stored(c) THEN [record EXCEPT ![c].transcript = TRUE] ELSE record
  /\ \E next \in {"idle"} \cup (IF Stored(c) THEN {"message"} ELSE {}) : Goto(c, t, next)
  /\ UNCHANGED <<Jobs, History>>

\* An answer to the consent question sets the status, over whatever it was.
WriteConsent(c, t) ==
  /\ writer[c][t] = "message" /\ Stored(c)
  /\ \E status \in {"live", "failed"} : record' = [record EXCEPT ![c].state = status]
  /\ UNCHANGED <<writer, Jobs, History>>

\* The status callback closes a call that was live without answers when it read it; turns
\* may have moved it on since.
AbandonCall(c) ==
  /\ Stored(c)
  /\ record' = [record EXCEPT ![c].state = "failed"]
  /\ UNCHANGED <<writer, Jobs, History>>

\* finalizeCall reads the call, and turns back if it is completed.
ReadRecord(c, w) ==
  /\ writer[c][w] = IF w \in Turns THEN "message" ELSE "idle"
  /\ record[c].state \in {"live", "failed"}
  /\ Goto(c, w, "summary")
  /\ UNCHANGED <<record, Jobs, History>>

\* Mutant: the update of a summary that exists sets what its creation sets.
WriteSummary_Whole(c, w) ==
  /\ writer[c][w] = "summary" /\ Stored(c)
  /\ record' = [record EXCEPT ![c].person = TRUE, ![c].summarised = TRUE]
  /\ Goto(c, w, "complete")
  /\ UNCHANGED <<Jobs, History>>

\* The summary holds the caller's name and address, which writing it again leaves alone.
WriteSummary(c, w) ==
  /\ writer[c][w] = "summary" /\ Stored(c)
  /\ record' = [record EXCEPT ![c].person = @ \/ ~record[c].summarised, ![c].summarised = TRUE]
  /\ Goto(c, w, "complete")
  /\ UNCHANGED <<Jobs, History>>

\* The call is completed; what comes after that may fail in a turn, which notes it.
CompleteRecord(c, w) ==
  /\ writer[c][w] = "complete" /\ Stored(c)
  /\ \E status \in {"done"} \cup (IF w \in Turns THEN {"failed"} ELSE {}) :
       record' = [record EXCEPT ![c].state = status]
  /\ Goto(c, w, After(w))
  /\ UNCHANGED <<Jobs, History>>

\* A statement fails: of a finalisation, because the call is gone, because the number of an
\* anonymised call cannot be decrypted (the caller has stated none), or otherwise.
WriterFails(c, w) ==
  /\ writer[c][w] # "idle"
  /\ IF writer[c][w] = "message"
     THEN UNCHANGED record /\ Goto(c, w, "idle")
     ELSE /\ record' = IF w \in Turns /\ Stored(c) THEN [record EXCEPT ![c].state = "failed"] ELSE record
          /\ Goto(c, w, After(w))
  /\ UNCHANGED <<Jobs, History>>

---------------------------------------------------------------------------
(* Removal.                                                                 *)

\* POST /admin/gdpr/anonymize-call/:callId, one transaction, at any time.
AnonymizeCall(c) ==
  /\ Stored(c)
  /\ record' = [record EXCEPT ![c].transcript = FALSE, ![c].person = FALSE, ![c].from = Anonymized]
  /\ resumed' = (resumed \ {c}) \cup {d \in {c} : AtWork(d)}
  /\ unsummarised' = (unsummarised \ {c}) \cup {d \in {c} : ~record[d].summarised}
  /\ UNCHANGED <<writer, Jobs, early>>

\* DELETE /calls/:id, with everything by cascade.
DeleteCall(c) ==
  /\ Stored(c)
  /\ record' = Erased({c})
  /\ UNCHANGED <<writer, Jobs, History>>

\* POST /gdpr/erase reads every call of the tenant, and decrypts every number.
FindCalls(phone) ==
  LET rows == {c \in Records : Stored(c)} IN
  /\ gdpr.at = "idle"
  /\ gdpr' = IF \E c \in rows : record[c].from = Anonymized THEN [IdleGdpr EXCEPT !.at = "error"]
             ELSE [at |-> "delete", ids |-> {c \in rows : record[c].from = phone}]
  /\ UNCHANGED <<record, writer, setting, cron, History>>

EraseCalls ==
  /\ gdpr.at = "delete"
  /\ record' = Erased({c \in gdpr.ids : Stored(c)})
  /\ gdpr' = IdleGdpr
  /\ UNCHANGED <<writer, setting, cron, History>>

\* The error is reported; POST /gdpr/export meets it in the same way.
ReportError ==
  /\ gdpr.at = "error" /\ gdpr' = IdleGdpr
  /\ UNCHANGED <<record, writer, setting, cron, History>>

\* PUT /settings/retention
SetRetention(days) ==
  /\ setting' = days /\ days # setting
  /\ cron' = [cron EXCEPT !.changed = cron.at = "delete"]
  /\ UNCHANGED <<record, writer, gdpr, History>>

\* The retention job reads the settings; a tenant without one is passed over.
ReadSettings ==
  /\ cron.at = "idle" /\ setting # 0
  /\ cron' = [at |-> "delete", days |-> setting, changed |-> FALSE]
  /\ UNCHANGED <<record, writer, gdpr, setting, History>>

Due(c, days) == Stored(c) /\ record[c].age > days

\* The calls older than the period that was read.
CleanUp ==
  LET due == {c \in Records : Due(c, cron.days)} IN
  /\ cron.at = "delete"
  /\ record' = Erased(due)
  /\ early' = IF \A c \in due : Due(c, setting) THEN early ELSE IF cron.changed THEN "stale" ELSE "wrong"
  /\ cron' = IdleCron
  /\ UNCHANGED <<writer, gdpr, setting, resumed, unsummarised>>

DayPasses ==
  /\ \A c \in Records : record[c].age < MaxAge
  /\ record' = [c \in Records |-> IF Stored(c) THEN [record[c] EXCEPT !.age = @ + 1] ELSE record[c]]
  /\ record' # record
  /\ UNCHANGED <<writer, Jobs, History>>

---------------------------------------------------------------------------
RecordsNext ==
  \/ \E c \in Records :
       \/ AbandonCall(c) \/ AnonymizeCall(c) \/ DeleteCall(c)
       \/ \E phone \in Callers : CallArrives(c, phone)
       \/ \E t \in Turns : LoadCall(c, t) \/ WriteMessage(c, t) \/ WriteConsent(c, t)
       \/ \E w \in Turns \cup Finalisers :
            ReadRecord(c, w) \/ WriteSummary(c, w) \/ CompleteRecord(c, w) \/ WriterFails(c, w)
  \/ \E phone \in Callers : FindCalls(phone)
  \/ \E days \in Periods : SetRetention(days)
  \/ EraseCalls \/ ReportError \/ ReadSettings \/ CleanUp \/ DayPasses

RecordsSpec == RecordsInit /\ [][RecordsNext]_recordVars

---------------------------------------------------------------------------
(* Properties.                                                              *)

RecordsTypeOK ==
  /\ record \in [Records -> [state : {"none", "live", "done", "failed", "erased"},
                             from : Callers \cup {Anonymized}, transcript : BOOLEAN,
                             summarised : BOOLEAN, person : BOOLEAN, age : 0..MaxAge]]
  /\ writer \in [Records -> [Turns \cup Finalisers -> {"idle", "message", "summary", "complete"}]]
  /\ gdpr \in [at : {"idle", "delete", "error"}, ids : SUBSET Records]
  /\ setting \in Periods \cup {0}
  /\ cron \in [at : {"idle", "delete"}, days : Periods \cup {0}, changed : BOOLEAN]
  /\ resumed \subseteq Records /\ unsummarised \subseteq Records /\ early \in {"no", "stale", "wrong"}

\* An anonymised call (admin.ts:417) keeps no transcript, unless a turn was working on it or
\* has been taken since (conversation.service.ts:170): finalisers, whenever they read the
\* call, bring back no word.  And it keeps no name or address in its summary, whatever turns
\* and finalisers do to the status and write again, if that summary was there.  (Its answers
\* are not touched, and a first summary is made of them.)
AnonymityHoldsUnlessRaced ==
  \A c \in Records : Stored(c) /\ record[c].from = Anonymized =>
    /\ c \notin resumed => ~record[c].transcript
    /\ c \notin unsummarised => ~record[c].person

\* The retention job deletes no call that the tenant's setting still keeps, unless
\* the setting was lengthened after the job had read it (retention.service.ts:11).
CleanUpKeepsUnlessRaced == early # "wrong"

\* Neither an anonymisation nor the retention job is undone.
RemovalHoldsUnlessRaced == AnonymityHoldsUnlessRaced /\ CleanUpKeepsUnlessRaced

\* "Right to erasure (Art. 17): POST /api/gdpr/erase { phone } deletes all matching
\* calls and returns the count" (docs/GDPR.md:50): it does not end in an error.
ErasureSucceeds == gdpr.at # "error"
=============================================================================
