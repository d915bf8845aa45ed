----------------------- MODULE Administration_proofs -----------------------
(***************************************************************************)
(* Theorems about what the users of the dashboard and of the operator's    *)
(* console do: the removal of stored calls, the versions of the prompt,    *)
(* the users of a tenant, the session of a browser, the calendar page, the *)
(* number wizard and the questionnaire editor; and about all these parts   *)
(* side by side.                                                           *)
(***************************************************************************)
EXTENDS MCAdministration, FiniteSetTheorems, SequenceTheorems, TLAPS

(***************************************************************************)
(* CallRecords.                                                            *)
(***************************************************************************)

\* No turn works on an anonymised call that has not been resumed; and a summary that has
\* lost its name is still there, so that nobody creates it again.
AnonymisedStayBare ==
  \A c \in Records : Stored(c) /\ record[c].from = Anonymized =>
    /\ c \notin resumed => ~record[c].transcript /\ ~AtWork(c)
    /\ c \notin unsummarised => ~record[c].person /\ record[c].summarised

\* The job works with the period of today, unless it was changed since the job read it.
JobKnowsSetting ==
  /\ cron.at = "delete" /\ ~cron.changed => cron.days = setting
  /\ early # "wrong"

RecordsInv == RecordsTypeOK /\ AnonymisedStayBare /\ JobKnowsSetting

LEMMA RecordsInvInit == RecordsInit => RecordsInv
BY CallRecordsAssumption
DEF RecordsInit, RecordsInv, RecordsTypeOK, AnonymisedStayBare, JobKnowsSetting, NoRecord, IdleGdpr,
    IdleCron, Stored

Row == [state : {"none", "live", "done", "failed", "erased"}, from : Callers \cup {Anonymized},
        transcript : BOOLEAN, summarised : BOOLEAN, person : BOOLEAN, age : 0..MaxAge]

OthersOK ==
  /\ writer \in [Records -> [Turns \cup Finalisers -> {"idle", "message", "summary", "complete"}]]
  /\ gdpr \in [at : {"idle", "delete", "error"}, ids : SUBSET Records]
  /\ setting \in Periods \cup {0}
  /\ cron \in [at : {"idle", "delete"}, days : Periods \cup {0}, changed : BOOLEAN]
  /\ resumed \subseteq Records /\ unsummarised \subseteq Records /\ early \in {"no", "stale", "wrong"}

LEMMA RecordsTypeParts == RecordsTypeOK <=> record \in [Records -> Row] /\ OthersOK
BY DEF RecordsTypeOK, OthersOK, Row

\* What the actions make of a row is a row.
LEMMA RowsChange ==
  ASSUME NEW r \in Row
  PROVE  /\ \A phone \in Callers : [NoRecord EXCEPT !.state = "live", !.from = phone] \in Row
         /\ [NoRecord EXCEPT !.state = "erased"] \in Row
         /\ \A s \in {"live", "done", "failed"} : [r EXCEPT !.state = s] \in Row
         /\ [r EXCEPT !.transcript = TRUE] \in Row
         /\ [r EXCEPT !.person = @ \/ ~r.summarised, !.summarised = TRUE] \in Row
         /\ [r EXCEPT !.transcript = FALSE, !.person = FALSE, !.from = Anonymized] \in Row
         /\ r.age < MaxAge => [r EXCEPT !.age = @ + 1] \in Row
<1>0. NoRecord \in Row
  BY CallRecordsAssumption DEF Row, NoRecord
<1> USE CallRecordsAssumption DEF Row
<1>1. \A phone \in Callers : [NoRecord EXCEPT !.state = "live", !.from = phone] \in Row
  BY <1>0
<1>2. [NoRecord EXCEPT !.state = "erased"] \in Row
  BY <1>0
<1>3. \A s \in {"live", "done", "failed"} : [r EXCEPT !.state = s] \in Row
  OBVIOUS
<1>4. [r EXCEPT !.transcript = TRUE] \in Row
  OBVIOUS
<1>5. [r EXCEPT !.person = @ \/ ~r.summarised, !.summarised = TRUE] \in Row
  OBVIOUS
<1>6. [r EXCEPT !.transcript = FALSE, !.person = FALSE, !.from = Anonymized] \in Row
  OBVIOUS
<1>7. r.age < MaxAge => [r EXCEPT !.age = @ + 1] \in Row
  OBVIOUS
<1> QED BY <1>1, <1>2, <1>3, <1>4, <1>5, <1>6, <1>7

LEMMA RecordRowsStep ==
  ASSUME record \in [Records -> Row], [RecordsNext]_recordVars
  PROVE  record' \in [Records -> Row]
<1> USE RowsChange
<1>1. ASSUME NEW c \in Records, NEW phone \in Callers, CallArrives(c, phone) PROVE record' \in [Records -> Row]
  BY <1>1 DEF CallArrives
<1>2. ASSUME NEW c \in Records, NEW t \in Turns, LoadCall(c, t) PROVE record' \in [Records -> Row]
  BY <1>2 DEF LoadCall, Goto
<1>3. ASSUME NEW c \in Records, NEW t \in Turns, WriteMessage(c, t) PROVE record' \in [Records -> Row]
  BY <1>3 DEF WriteMessage, Goto
<1>4. ASSUME NEW c \in Records, NEW t \in Turns, WriteConsent(c, t) PROVE record' \in [Records -> Row]
  <2>1. PICK status \in {"live", "failed"} : record' = [record EXCEPT ![c].state = status]
    BY <1>4 DEF WriteConsent
  <2>2. [record[c] EXCEPT !.state = status] \in Row
    OBVIOUS
  <2> QED BY <2>1, <2>2
<1>5. ASSUME NEW c \in Records, AbandonCall(c) PROVE record' \in [Records -> Row]
  BY <1>5 DEF AbandonCall
<1>6. ASSUME NEW c \in Records, NEW w \in Turns \cup Finalisers, ReadRecord(c, w) PROVE record' \in [Records -> Row]
  BY <1>6 DEF ReadRecord, Goto
<1>7. ASSUME NEW c \in Records, NEW w \in Turns \cup Finalisers, WriteSummary(c, w) PROVE record' \in [Records -> Row]
  BY <1>7 DEF WriteSummary, Goto
<1>8. ASSUME NEW c \in Records, NEW w \in Turns \cup Finalisers, CompleteRecord(c, w) PROVE record' \in [Records -> Row]
  <2>1. PICK status \in {"done", "failed"} : record' = [record EXCEPT ![c].state = status]
    BY <1>8 DEF CompleteRecord
  <2>2. [record[c] EXCEPT !.state = status] \in Row
    OBVIOUS
  <2> QED BY <2>1, <2>2
<1>9. ASSUME NEW c \in Records, NEW w \in Turns \cup Finalisers, WriterFails(c, w) PROVE record' \in [Records -> Row]
  BY <1>9 DEF WriterFails, Goto, After
<1>10. ASSUME NEW c \in Records, AnonymizeCall(c) PROVE record' \in [Records -> Row]
  BY <1>10 DEF AnonymizeCall
<1>11. ASSUME NEW c \in Records, DeleteCall(c) PROVE record' \in [Records -> Row]
  BY <1>11 DEF DeleteCall, Erased
<1>12. ASSUME NEW phone \in Callers, FindCalls(phone) PROVE record' \in [Records -> Row]
  BY <1>12 DEF FindCalls, IdleGdpr
<1>13. ASSUME NEW days \in Periods, SetRetention(days) PROVE record' \in [Records -> Row]
  BY <1>13 DEF SetRetention
<1>14. CASE EraseCalls
  BY <1>14 DEF EraseCalls, IdleGdpr, Erased
<1>15. CASE ReportError
  BY <1>15 DEF ReportError, IdleGdpr
<1>16. CASE ReadSettings
  BY <1>16 DEF ReadSettings
<1>17. CASE CleanUp
  BY <1>17 DEF CleanUp, IdleCron, Due, Erased
<1>18. CASE DayPasses
  BY <1>18 DEF DayPasses
<1>19. CASE UNCHANGED recordVars
  BY <1>19 DEF recordVars
<1> QED
  BY <1>1, <1>2, <1>3, <1>4, <1>5, <1>6, <1>7, <1>8, <1>9, <1>10, <1>11, <1>12, <1>13, <1>14,
  <1>15, <1>16, <1>17, <1>18, <1>19
  DEF RecordsNext

WriterStates == [Records -> [Turns \cup Finalisers -> {"idle", "message", "summary", "complete"}]]

LEMMA WriterMoves ==
  ASSUME writer \in WriterStates, NEW c \in Records, NEW w \in Turns \cup Finalisers,
         NEW next \in {"idle", "message", "summary", "complete"}, Goto(c, w, next)
  PROVE  writer' \in WriterStates
BY DEF Goto, WriterStates

LEMMA RecordOthersStep ==
  ASSUME OthersOK, [RecordsNext]_recordVars
  PROVE  OthersOK'
<1>0. writer \in WriterStates
  BY DEF OthersOK, WriterStates
<1> USE DEF OthersOK, Jobs, History
<1>1. ASSUME NEW c \in Records, NEW phone \in Callers, CallArrives(c, phone) PROVE OthersOK'
  BY <1>1 DEF CallArrives
<1>2. ASSUME NEW c \in Records, NEW t \in Turns, LoadCall(c, t) PROVE OthersOK'
  BY <1>2 DEF LoadCall, Goto
<1>3. ASSUME NEW c \in Records, NEW t \in Turns, WriteMessage(c, t) PROVE OthersOK'
  <2>1. PICK next \in {"idle", "message"} : Goto(c, t, next)
    BY <1>3 DEF WriteMessage
  <2>2. UNCHANGED <<gdpr, setting, cron, resumed, unsummarised, early>>
    BY <1>3 DEF WriteMessage
  <2>3. writer' \in WriterStates
    BY <1>0, <2>1, WriterMoves
  <2> QED BY <2>2, <2>3 DEF WriterStates
<1>4. ASSUME NEW c \in Records, NEW t \in Turns, WriteConsent(c, t) PROVE OthersOK'
  BY <1>4 DEF WriteConsent
<1>5. ASSUME NEW c \in Records, AbandonCall(c) PROVE OthersOK'
  BY <1>5 DEF AbandonCall
<1>6. ASSUME NEW c \in Records, NEW w \in Turns \cup Finalisers, ReadRecord(c, w) PROVE OthersOK'
  BY <1>6 DEF ReadRecord, Goto
<1>7. ASSUME NEW c \in Records, NEW w \in Turns \cup Finalisers, WriteSummary(c, w) PROVE OthersOK'
  BY <1>7 DEF WriteSummary, Goto
<1>8. ASSUME NEW c \in Records, NEW w \in Turns \cup Finalisers, CompleteRecord(c, w) PROVE OthersOK'
  BY <1>8 DEF CompleteRecord, Goto, After
<1>9. ASSUME NEW c \in Records, NEW w \in Turns \cup Finalisers, WriterFails(c, w) PROVE OthersOK'
  <2>1. PICK next \in {"idle", "message"} : Goto(c, w, next)
    BY <1>9 DEF WriterFails, After
  <2>2. UNCHANGED <<gdpr, setting, cron, resumed, unsummarised, early>>
    BY <1>9 DEF WriterFails
  <2>3. writer' \in WriterStates
    BY <1>0, <2>1, WriterMoves
  <2> QED BY <2>2, <2>3 DEF WriterStates
<1>10. ASSUME NEW c \in Records, AnonymizeCall(c) PROVE OthersOK'
  BY <1>10 DEF AnonymizeCall
<1>11. ASSUME NEW c \in Records, DeleteCall(c) PROVE OthersOK'
  BY <1>11 DEF DeleteCall, Erased
<1>12. ASSUME NEW phone \in Callers, FindCalls(phone) PROVE OthersOK'
  BY <1>12 DEF FindCalls, IdleGdpr
<1>13. ASSUME NEW days \in Periods, SetRetention(days) PROVE OthersOK'
  BY <1>13 DEF SetRetention
<1>14. CASE EraseCalls
  BY <1>14 DEF EraseCalls, IdleGdpr, Erased
<1>15. CASE ReportError
  BY <1>15 DEF ReportError, IdleGdpr
<1>16. CASE ReadSettings
  BY <1>16 DEF ReadSettings
<1>17. CASE CleanUp
  BY <1>17 DEF CleanUp, IdleCron, Due, Erased
<1>18. CASE DayPasses
  BY <1>18 DEF DayPasses
<1>19. CASE UNCHANGED recordVars
  BY <1>19 DEF recordVars
<1> QED
  BY <1>1, <1>2, <1>3, <1>4, <1>5, <1>6, <1>7, <1>8, <1>9, <1>10, <1>11, <1>12, <1>13, <1>14,
  <1>15, <1>16, <1>17, <1>18, <1>19
  DEF RecordsNext

LEMMA RecordsTypeStep == RecordsTypeOK /\ [RecordsNext]_recordVars => RecordsTypeOK'
<1>1. ASSUME record' \in [Records -> Row], OthersOK' PROVE RecordsTypeOK'
  BY <1>1 DEF RecordsTypeOK, OthersOK, Row
<1> QED BY <1>1, RecordsTypeParts, RecordRowsStep, RecordOthersStep

LEMMA AnonymisedStep ==
  RecordsTypeOK /\ AnonymisedStayBare /\ [RecordsNext]_recordVars => AnonymisedStayBare'
<1> SUFFICES ASSUME RecordsTypeOK, AnonymisedStayBare, [RecordsNext]_recordVars,
                    NEW d \in Records, Stored(d)', record'[d].from = Anonymized
             PROVE  /\ d \notin resumed' => ~record'[d].transcript /\ ~AtWork(d)'
                    /\ d \notin unsummarised' => ~record'[d].person /\ record'[d].summarised
  BY DEF AnonymisedStayBare
<1> DEFINE Bare == /\ d \notin resumed' => ~record'[d].transcript /\ ~AtWork(d)'
                   /\ d \notin unsummarised' => ~record'[d].person /\ record'[d].summarised
<1> SUFFICES Bare
  OBVIOUS
<1> USE CallRecordsAssumption
    DEF RecordsTypeOK, AnonymisedStayBare, Jobs, History, NoRecord, Erased, Stored, AtWork
<1>1. ASSUME NEW c \in Records, NEW phone \in Callers, CallArrives(c, phone) PROVE Bare
  BY <1>1 DEF CallArrives
<1>2. ASSUME NEW c \in Records, NEW t \in Turns, LoadCall(c, t) PROVE Bare
  BY <1>2 DEF LoadCall, Goto
<1>3. ASSUME NEW c \in Records, NEW t \in Turns, WriteMessage(c, t) PROVE Bare
  BY <1>3 DEF WriteMessage, Goto
<1>4. ASSUME NEW c \in Records, NEW t \in Turns, WriteConsent(c, t) PROVE Bare
  BY <1>4 DEF WriteConsent
<1>5. ASSUME NEW c \in Records, AbandonCall(c) PROVE Bare
  BY <1>5 DEF AbandonCall
<1>6. ASSUME NEW c \in Records, NEW w \in Turns \cup Finalisers, ReadRecord(c, w) PROVE Bare
  BY <1>6 DEF ReadRecord, Goto
<1>7. ASSUME NEW c \in Records, NEW w \in Turns \cup Finalisers, WriteSummary(c, w) PROVE Bare
  BY <1>7 DEF WriteSummary, Goto
<1>8. ASSUME NEW c \in Records, NEW w \in Turns \cup Finalisers, CompleteRecord(c, w) PROVE Bare
  BY <1>8 DEF CompleteRecord, Goto, After
<1>9. ASSUME NEW c \in Records, NEW w \in Turns \cup Finalisers, WriterFails(c, w) PROVE Bare
  <2>1. PICK next \in {"idle", "message"} : Goto(c, w, next)
    BY <1>9 DEF WriterFails, After
  <2>2. /\ record'[d].transcript = record[d].transcript /\ record'[d].person = record[d].person
        /\ record'[d].summarised = record[d].summarised /\ record'[d].from = record[d].from
        /\ Stored(d) /\ resumed' = resumed /\ unsummarised' = unsummarised
    BY <1>9 DEF WriterFails
  <2>3. d \notin resumed /\ d = c => w \notin Turns
    BY <1>9, <2>2 DEF WriterFails
  <2>4. d \notin resumed => \A t \in Turns : writer'[d][t] = writer[d][t]
    BY <2>1, <2>3 DEF Goto
  <2> QED BY <2>2, <2>4
<1>10. ASSUME NEW c \in Records, AnonymizeCall(c) PROVE Bare
  BY <1>10 DEF AnonymizeCall
<1>11. ASSUME NEW c \in Records, DeleteCall(c) PROVE Bare
  BY <1>11 DEF DeleteCall, Erased
<1>12. ASSUME NEW phone \in Callers, FindCalls(phone) PROVE Bare
  BY <1>12 DEF FindCalls, IdleGdpr
<1>13. ASSUME NEW days \in Periods, SetRetention(days) PROVE Bare
  BY <1>13 DEF SetRetention
<1>14. CASE EraseCalls
  BY <1>14 DEF EraseCalls, IdleGdpr, Erased
<1>15. CASE ReportError
  BY <1>15 DEF ReportError, IdleGdpr
<1>16. CASE ReadSettings
  BY <1>16 DEF ReadSettings
<1>17. CASE CleanUp
  BY <1>17 DEF CleanUp, IdleCron, Due, Erased
<1>18. CASE DayPasses
  BY <1>18 DEF DayPasses
<1>19. CASE UNCHANGED recordVars
  BY <1>19 DEF recordVars
<1> QED
  BY <1>1, <1>2, <1>3, <1>4, <1>5, <1>6, <1>7, <1>8, <1>9, <1>10, <1>11, <1>12, <1>13, <1>14,
  <1>15, <1>16, <1>17, <1>18, <1>19
  DEF RecordsNext

LEMMA JobStep ==
  RecordsTypeOK /\ JobKnowsSetting /\ [RecordsNext]_recordVars => JobKnowsSetting'
<1> SUFFICES ASSUME RecordsTypeOK, JobKnowsSetting, [RecordsNext]_recordVars PROVE JobKnowsSetting'
  OBVIOUS
<1> USE DEF RecordsTypeOK, JobKnowsSetting, Jobs, History
<1>1. ASSUME NEW c \in Records, NEW phone \in Callers, CallArrives(c, phone) PROVE JobKnowsSetting'
  BY <1>1 DEF CallArrives
<1>2. ASSUME NEW c \in Records, NEW t \in Turns, LoadCall(c, t) PROVE JobKnowsSetting'
  BY <1>2 DEF LoadCall, Goto
<1>3. ASSUME NEW c \in Records, NEW t \in Turns, WriteMessage(c, t) PROVE JobKnowsSetting'
  BY <1>3 DEF WriteMessage, Goto
<1>4. ASSUME NEW c \in Records, NEW t \in Turns, WriteConsent(c, t) PROVE JobKnowsSetting'
  BY <1>4 DEF WriteConsent
<1>5. ASSUME NEW c \in Records, AbandonCall(c) PROVE JobKnowsSetting'
  BY <1>5 DEF AbandonCall
<1>6. ASSUME NEW c \in Records, NEW w \in Turns \cup Finalisers, ReadRecord(c, w) PROVE JobKnowsSetting'
  BY <1>6 DEF ReadRecord, Goto
<1>7. ASSUME NEW c \in Records, NEW w \in Turns \cup Finalisers, WriteSummary(c, w) PROVE JobKnowsSetting'
  BY <1>7 DEF WriteSummary, Goto
<1>8. ASSUME NEW c \in Records, NEW w \in Turns \cup Finalisers, CompleteRecord(c, w) PROVE JobKnowsSetting'
  BY <1>8 DEF CompleteRecord, Goto, After
<1>9. ASSUME NEW c \in Records, NEW w \in Turns \cup Finalisers, WriterFails(c, w) PROVE JobKnowsSetting'
  BY <1>9 DEF WriterFails, Goto, After
<1>10. ASSUME NEW c \in Records, AnonymizeCall(c) PROVE JobKnowsSetting'
  BY <1>10 DEF AnonymizeCall
<1>11. ASSUME NEW c \in Records, DeleteCall(c) PROVE JobKnowsSetting'
  BY <1>11 DEF DeleteCall, Erased
<1>12. ASSUME NEW phone \in Callers, FindCalls(phone) PROVE JobKnowsSetting'
  BY <1>12 DEF FindCalls, IdleGdpr
<1>13. ASSUME NEW days \in Periods, SetRetention(days) PROVE JobKnowsSetting'
  BY <1>13 DEF SetRetention
<1>14. CASE EraseCalls
  BY <1>14 DEF EraseCalls, IdleGdpr, Erased
<1>15. CASE ReportError
  BY <1>15 DEF ReportError, IdleGdpr
<1>16. CASE ReadSettings
  BY <1>16 DEF ReadSettings
<1>17. CASE CleanUp
  BY <1>17 DEF CleanUp, IdleCron, Due, Erased
<1>18. CASE DayPasses
  BY <1>18 DEF DayPasses
<1>19. CASE UNCHANGED recordVars
  BY <1>19 DEF recordVars
<1> QED
  BY <1>1, <1>2, <1>3, <1>4, <1>5, <1>6, <1>7, <1>8, <1>9, <1>10, <1>11, <1>12, <1>13, <1>14,
  <1>15, <1>16, <1>17, <1>18, <1>19
  DEF RecordsNext

LEMMA RecordsInvStep == RecordsInv /\ [RecordsNext]_recordVars => RecordsInv'
BY RecordsTypeStep, AnonymisedStep, JobStep DEF RecordsInv

LEMMA RecordsInvAlways == RecordsSpec => []RecordsInv
BY RecordsInvInit, RecordsInvStep, PTL DEF RecordsSpec

\* Whoever writes, anonymises, erases and cleans up, the rows keep their types.
THEOREM RecordsTypeCorrect == RecordsSpec => []RecordsTypeOK
<1>1. RecordsInv => RecordsTypeOK
  BY DEF RecordsInv
<1> QED BY <1>1, RecordsInvAlways, PTL

\* For any number of turns and finalisers that overlap: an anonymised call stays without the
\* caller's words until a turn is taken on it, and without the name if it had been summarised
\* (admin.ts:417); and the retention job deletes nothing the tenant's setting keeps, unless
\* the setting was changed behind its back.
THEOREM RemovalHolds == RecordsSpec => []RemovalHoldsUnlessRaced
<1>1. RecordsInv => RemovalHoldsUnlessRaced
  BY DEF RecordsInv, RemovalHoldsUnlessRaced, AnonymityHoldsUnlessRaced, CleanUpKeepsUnlessRaced,
         AnonymisedStayBare, JobKnowsSetting
<1> QED BY <1>1, RecordsInvAlways, PTL

---------------------------------------------------------------------------
(***************************************************************************)
(* PromptVersions.                                                         *)
(***************************************************************************)

PromptTask == [at : {"idle", "scan", "lock", "write", "done", "load", "loaded"},
               by : Operators \cup {NoOperator}, id : 0 .. MaxPrompts,
               activate : BOOLEAN, locked : SUBSET Numbered, view : Rows]

\* A transaction has a version; it changes other rows only to activate its own.
TaskOK(k) ==
  /\ k \in PromptTask
  /\ k.at = "idle" => k = NoTask
  /\ k.at \in {"scan", "lock", "write"} => k.id # 0
  /\ k.locked # {} => k.activate /\ k.at = "write"
  /\ k.at \in {"scan", "lock"} => k.activate

PromptTaskOK == \A t \in PromptTasks : TaskOK(task[t])

\* The page of the last change has, or waits for, what is stored.
PageFollows(o) ==
  \/ shown[o] = prompts
  \/ \E t \in PromptTasks : task[t].by = o /\ task[t].at \in {"done", "load", "loaded"}

\* One request at a time: its transaction sees the rows as they are.
AloneOK ==
  /\ \A t, q \in PromptTasks : task[t] # NoTask /\ task[q] # NoTask => t = q
  /\ prompts.active = {rolledTo.version} \ {0}
  /\ \A t \in PromptTasks :
       /\ task[t].at \in {"lock", "loaded"} => task[t].view = prompts
       /\ At(t, "write") /\ task[t].activate => task[t].locked = prompts.active
  /\ rolledTo.by # NoOperator => PageFollows(rolledTo.by)

ActiveKept == rolledTo.version # 0 => prompts.active # {}

PromptsInv == PromptsTypeOK /\ PromptTaskOK /\ ActiveKept /\ (~overlapped => AloneOK)

LEMMA NoTaskType ==
  /\ NoTask \in PromptTask /\ NoPrompts \in Rows /\ NoPrompts.active = {} /\ NoPrompts.stored = {}
  /\ NoTask.at = "idle" /\ NoTask.by = NoOperator /\ NoTask.locked = {} /\ NoTask.view = NoPrompts
BY PromptAssumption DEF NoTask, PromptTask, NoPrompts, Rows, Numbered

LEMMA PromptsInvInit == PromptInit => PromptsInv
<1> SUFFICES ASSUME PromptInit PROVE PromptsInv
  OBVIOUS
<1>1. rolledTo.version \in 0 .. 1 /\ prompts.active = {rolledTo.version} \ {0}
      /\ rolledTo \in [version : 0 .. 1, by : {NoOperator}]
  <2> DEFINE n == CHOOSE n \in 0 .. 1 : prompts.active = {n} \ {0}
  <2>1. n \in 0 .. 1 /\ prompts.active = {n} \ {0}
    <3>1. prompts.active = {0} \ {0} \/ prompts.active = {1} \ {0}
      BY DEF PromptInit, NoPrompts
    <3> QED BY <3>1
  <2>2. rolledTo = [version |-> n, by |-> NoOperator]
    BY DEF PromptInit
  <2> HIDE DEF n
  <2> QED BY <2>1, <2>2
<1>2. prompts \in Rows /\ prompts.active \subseteq prompts.stored
  BY PromptAssumption DEF PromptInit, NoPrompts, Rows, Numbered
<1>3. \A t \in PromptTasks : task[t] = NoTask
  BY DEF PromptInit
<1>4. PromptsTypeOK
  <2>1. task \in [PromptTasks -> PromptTask] /\ shown \in [Operators -> Rows] /\ overlapped \in BOOLEAN
    BY NoTaskType DEF PromptInit
  <2>2. rolledTo \in [version : 0 .. MaxPrompts, by : Operators \cup {NoOperator}]
    BY <1>1, PromptAssumption
  <2> QED BY <1>2, <2>1, <2>2 DEF PromptsTypeOK, PromptTask
<1>5. PromptTaskOK
  BY <1>3, NoTaskType DEF PromptTaskOK, TaskOK
<1>6. AloneOK
  BY <1>1, <1>3, NoTaskType DEF AloneOK, At
<1>7. ActiveKept
  BY <1>1 DEF ActiveKept
<1> QED BY <1>4, <1>5, <1>6, <1>7 DEF PromptsInv

\* What an action does to the task it moves; the others stay.
OnlyTask(t) ==
  /\ task' \in [PromptTasks -> PromptTask]
  /\ \A q \in PromptTasks \ {t} : task'[q] = task[q]

SameTransaction(t) ==
  /\ task'[t].by = task[t].by /\ task'[t].id = task[t].id /\ task'[t].activate = task[t].activate

LEMMA SendEffect ==
  ASSUME PromptsTypeOK, NEW t \in PromptTasks, NEW o \in Operators, NEW n \in Numbered,
         NEW activate \in BOOLEAN, NEW at \in {"scan", "write"},
         Sends(t, [NoTask EXCEPT !.at = at, !.by = o, !.id = n, !.activate = activate])
  PROVE  /\ OnlyTask(t) /\ task[t] = NoTask
         /\ task'[t].at = at /\ task'[t].by = o /\ task'[t].id = n /\ task'[t].activate = activate
         /\ task'[t].locked = {} /\ task'[t].view = NoPrompts
<1> DEFINE r == [NoTask EXCEPT !.at = at, !.by = o, !.id = n, !.activate = activate]
<1>1. r \in PromptTask
  <2>1. o \in Operators \cup {NoOperator} /\ n \in 0 .. MaxPrompts
        /\ at \in {"idle", "scan", "lock", "write", "done", "load", "loaded"}
    BY PromptAssumption DEF Numbered
  <2> QED BY <2>1, NoTaskType DEF PromptTask
<1>2. r.at = at /\ r.by = o /\ r.id = n /\ r.activate = activate /\ r.locked = {} /\ r.view = NoPrompts
  BY DEF NoTask
<1>3. task \in [PromptTasks -> PromptTask]
  BY DEF PromptsTypeOK, PromptTask
<1> HIDE DEF r
<1>4. task' = [task EXCEPT ![t] = r] /\ task[t] = NoTask
  BY DEF Sends, r
<1> QED BY <1>1, <1>2, <1>3, <1>4 DEF OnlyTask

LEMMA CreateEffect ==
  ASSUME PromptsTypeOK, NEW t \in PromptTasks, NEW o \in Operators, NEW activate \in BOOLEAN,
         CreatePrompt(t, o, activate)
  PROVE  /\ OnlyTask(t) /\ task[t] = NoTask
         /\ task'[t].at = (IF activate THEN "scan" ELSE "write")
         /\ task'[t].by = o /\ task'[t].id \in Numbered /\ task'[t].activate = activate
         /\ task'[t].locked = {} /\ task'[t].view = NoPrompts
         /\ overlapped' = (overlapped \/ Busy # {}) /\ UNCHANGED <<prompts, shown, rolledTo>>
<1> DEFINE at == IF activate THEN "scan" ELSE "write"
<1>1. PICK n \in Numbered : Sends(t, [NoTask EXCEPT !.at = at, !.by = o, !.id = n, !.activate = activate])
  BY DEF CreatePrompt, FreeNumbers
<1>2. at \in {"scan", "write"}
  OBVIOUS
<1>3. overlapped' = (overlapped \/ Busy # {}) /\ UNCHANGED <<prompts, shown, rolledTo>>
  BY <1>1 DEF Sends
<1> HIDE DEF at
<1>4. /\ OnlyTask(t) /\ task[t] = NoTask
      /\ task'[t].at = at /\ task'[t].by = o /\ task'[t].id = n /\ task'[t].activate = activate
      /\ task'[t].locked = {} /\ task'[t].view = NoPrompts
  BY <1>1, <1>2, SendEffect
<1> QED BY <1>3, <1>4 DEF at

LEMMA ActivateEffect ==
  ASSUME PromptsTypeOK, NEW t \in PromptTasks, NEW o \in Operators, NEW n \in Numbered,
         ActivatePrompt(t, o, n)
  PROVE  /\ OnlyTask(t) /\ task[t] = NoTask
         /\ task'[t].at = "scan" /\ task'[t].by = o /\ task'[t].id \in Numbered /\ task'[t].activate = TRUE
         /\ task'[t].locked = {} /\ task'[t].view = NoPrompts
         /\ overlapped' = (overlapped \/ Busy # {}) /\ UNCHANGED <<prompts, shown, rolledTo>>
<1>1. Sends(t, [NoTask EXCEPT !.at = "scan", !.by = o, !.id = n, !.activate = TRUE])
  BY DEF ActivatePrompt
<1>2. overlapped' = (overlapped \/ Busy # {}) /\ UNCHANGED <<prompts, shown, rolledTo>>
  BY <1>1 DEF Sends
<1> QED BY <1>1, <1>2, SendEffect

LEMMA OpenEffect ==
  ASSUME PromptsTypeOK, NEW t \in PromptTasks, NEW o \in Operators, OpenPrompts(t, o)
  PROVE  /\ task' \in [PromptTasks -> PromptTask] /\ task[t] = NoTask
         /\ task'[t].at = "load" /\ task'[t].by = o /\ task'[t].locked = {} /\ task'[t].activate = FALSE
         /\ \A q \in PromptTasks \ {t} :
              /\ task'[q].at = task[q].at /\ task'[q].id = task[q].id /\ task'[q].locked = task[q].locked
              /\ task'[q].activate = task[q].activate /\ task'[q].view = task[q].view
              /\ task[q] = NoTask => task'[q] = NoTask
         /\ shown' \in [Operators -> Rows] /\ \A p \in Operators \ {o} : shown'[p] = shown[p]
         /\ overlapped' = (overlapped \/ Busy # {}) /\ UNCHANGED <<prompts, rolledTo>>
<1> DEFINE r == [NoTask EXCEPT !.at = "load", !.by = o]
           s(q) == IF task[q].by = o THEN [task[q] EXCEPT !.by = NoOperator] ELSE task[q]
<1>1. r \in PromptTask /\ r.at = "load" /\ r.by = o /\ r.locked = {} /\ r.activate = FALSE
  BY NoTaskType DEF PromptTask, NoTask
<1>2. task \in [PromptTasks -> PromptTask]
  BY DEF PromptsTypeOK, PromptTask
<1>3. ASSUME NEW q \in PromptTasks
      PROVE  /\ s(q) \in PromptTask /\ s(q).at = task[q].at /\ s(q).id = task[q].id
             /\ s(q).locked = task[q].locked /\ s(q).activate = task[q].activate /\ s(q).view = task[q].view
             /\ task[q] = NoTask => s(q) = NoTask
  <2>1. task[q] \in PromptTask
    BY <1>2
  <2>2. task[q] = NoTask => task[q].by # o
    BY PromptAssumption DEF NoTask
  <2> QED BY <2>1, <2>2 DEF PromptTask
<1> HIDE DEF r, s
<1>4. task' = [q \in PromptTasks |-> IF q = t THEN r ELSE s(q)] /\ task[t] = NoTask
  BY DEF OpenPrompts, r, s
<1>5. shown' \in [Operators -> Rows] /\ \A p \in Operators \ {o} : shown'[p] = shown[p]
  BY NoTaskType DEF OpenPrompts, PromptsTypeOK
<1>6. overlapped' = (overlapped \/ Busy # {}) /\ UNCHANGED <<prompts, rolledTo>>
  BY DEF OpenPrompts
<1> QED BY <1>1, <1>3, <1>4, <1>5, <1>6

LEMMA ScanEffect ==
  ASSUME PromptsTypeOK, NEW t \in PromptTasks, ScanActive(t)
  PROVE  /\ OnlyTask(t) /\ SameTransaction(t) /\ At(t, "scan")
         /\ task'[t].at = "lock" /\ task'[t].view = prompts /\ task'[t].locked = task[t].locked
<1>1. task \in [PromptTasks -> PromptTask] /\ prompts \in Rows
  BY DEF PromptsTypeOK, PromptTask
<1>2. task' = [task EXCEPT ![t].at = "lock", ![t].view = prompts] /\ At(t, "scan")
  BY DEF ScanActive
<1> QED BY <1>1, <1>2 DEF OnlyTask, SameTransaction, PromptTask

LEMMA WriteEffect ==
  ASSUME PromptsTypeOK, NEW t \in PromptTasks, WriteActive(t)
  PROVE  /\ OnlyTask(t) /\ SameTransaction(t) /\ At(t, "lock")
         /\ task'[t].at = "write" /\ task'[t].locked = task[t].view.active \cap prompts.active
<1> DEFINE rows == task[t].view.active \cap prompts.active
<1>1. task \in [PromptTasks -> PromptTask]
  BY DEF PromptsTypeOK, PromptTask
<1>2. rows \in SUBSET Numbered
  BY <1>1 DEF PromptTask, Rows
<1>3. task' = [task EXCEPT ![t].at = "write", ![t].locked = rows, ![t].view = NoPrompts] /\ At(t, "lock")
  BY DEF WriteActive
<1> HIDE DEF rows
<1>4. task' \in [PromptTasks -> PromptTask]
  <2> DEFINE r == [task[t] EXCEPT !.at = "write", !.locked = rows, !.view = NoPrompts]
  <2>1. r \in PromptTask
    BY <1>1, <1>2, NoTaskType DEF PromptTask
  <2>2. task' = [task EXCEPT ![t] = r]
    BY <1>3
  <2> HIDE DEF r
  <2> QED BY <1>1, <2>1, <2>2
<1>5. task'[t].at = "write" /\ task'[t].locked = rows
  BY <1>1, <1>3 DEF PromptTask
<1>6. SameTransaction(t) /\ \A q \in PromptTasks \ {t} : task'[q] = task[q]
  BY <1>1, <1>3 DEF PromptTask, SameTransaction
<1> QED BY <1>3, <1>4, <1>5, <1>6 DEF OnlyTask, rows

LEMMA CommitEffect ==
  ASSUME PromptsTypeOK, NEW t \in PromptTasks, CommitPrompt(t)
  PROVE  /\ OnlyTask(t) /\ At(t, "write")
         /\ task'[t].at = "done" /\ task'[t].by = task[t].by /\ task'[t].locked = {}
         /\ task'[t].activate = FALSE
<1> DEFINE r == [NoTask EXCEPT !.at = "done", !.by = task[t].by]
<1>1. task \in [PromptTasks -> PromptTask]
  BY DEF PromptsTypeOK, PromptTask
<1>2. r \in PromptTask /\ r.at = "done" /\ r.by = task[t].by /\ r.locked = {} /\ r.activate = FALSE
  BY <1>1, NoTaskType DEF PromptTask, NoTask
<1>3. task' = [task EXCEPT ![t] = r] /\ At(t, "write")
  BY DEF CommitPrompt
<1> HIDE DEF r
<1> QED BY <1>1, <1>2, <1>3 DEF OnlyTask

LEMMA EndEffect ==
  ASSUME PromptsTypeOK, NEW t \in PromptTasks, task' = [task EXCEPT ![t] = NoTask]
  PROVE  OnlyTask(t) /\ task'[t] = NoTask
BY NoTaskType DEF PromptsTypeOK, PromptTask, OnlyTask

LEMMA ReloadEffect ==
  ASSUME PromptsTypeOK, NEW t \in PromptTasks, Step(t, "load")
  PROVE  /\ OnlyTask(t) /\ SameTransaction(t)
         /\ task'[t].at = "load" /\ task'[t].locked = task[t].locked
<1>1. task \in [PromptTasks -> PromptTask]
  BY DEF PromptsTypeOK, PromptTask
<1> QED BY <1>1 DEF Step, OnlyTask, SameTransaction, PromptTask

LEMMA ServeEffect ==
  ASSUME PromptsTypeOK, NEW t \in PromptTasks, ServePrompts(t)
  PROVE  /\ OnlyTask(t) /\ SameTransaction(t) /\ At(t, "load")
         /\ task'[t].at = "loaded" /\ task'[t].view = prompts /\ task'[t].locked = task[t].locked
<1>1. task \in [PromptTasks -> PromptTask] /\ prompts \in Rows
  BY DEF PromptsTypeOK, PromptTask
<1>2. task' = [task EXCEPT ![t].at = "loaded", ![t].view = prompts] /\ At(t, "load")
  BY DEF ServePrompts
<1> QED BY <1>1, <1>2 DEF OnlyTask, SameTransaction, PromptTask

LEMMA PromptsTypeStep ==
  PromptsTypeOK /\ PromptTaskOK /\ [PromptNext]_promptVars => PromptsTypeOK'
<1> SUFFICES ASSUME PromptsTypeOK, PromptTaskOK, [PromptNext]_promptVars PROVE PromptsTypeOK'
  OBVIOUS
<1>1. /\ prompts \in Rows /\ prompts.active \subseteq prompts.stored /\ shown \in [Operators -> Rows]
      /\ rolledTo \in [version : 0 .. MaxPrompts, by : Operators \cup {NoOperator}]
      /\ overlapped \in BOOLEAN /\ task \in [PromptTasks -> PromptTask]
  BY DEF PromptsTypeOK, PromptTask
<1> DEFINE RestOK == /\ prompts' \in Rows /\ prompts'.active \subseteq prompts'.stored
                     /\ shown' \in [Operators -> Rows]
                     /\ rolledTo' \in [version : 0 .. MaxPrompts, by : Operators \cup {NoOperator}]
                     /\ overlapped' \in BOOLEAN
<1>2. ASSUME RestOK, task' \in [PromptTasks -> PromptTask] PROVE PromptsTypeOK'
  BY <1>2 DEF PromptsTypeOK, PromptTask
<1>3. ASSUME NEW t \in PromptTasks, NEW o \in Operators, OpenPrompts(t, o) PROVE PromptsTypeOK'
  BY <1>3, <1>1, <1>2, OpenEffect DEF OnlyTask
<1>4. ASSUME NEW t \in PromptTasks, NEW o \in Operators, NEW activate \in BOOLEAN,
            CreatePrompt(t, o, activate) PROVE PromptsTypeOK'
  <2>1. OnlyTask(t) /\ overlapped' = (overlapped \/ Busy # {}) /\ UNCHANGED <<prompts, shown, rolledTo>>
    BY <1>4, CreateEffect
  <2> QED BY <1>1, <1>2, <2>1 DEF OnlyTask
<1>5. ASSUME NEW t \in PromptTasks, NEW o \in Operators, NEW n \in Numbered, ActivatePrompt(t, o, n) PROVE PromptsTypeOK'
  BY <1>5, <1>1, <1>2, ActivateEffect DEF OnlyTask
<1>6. ASSUME NEW t \in PromptTasks, ScanActive(t) PROVE PromptsTypeOK'
  BY <1>6, <1>1, <1>2, ScanEffect DEF ScanActive, OnlyTask
<1>7. ASSUME NEW t \in PromptTasks, WriteActive(t) PROVE PromptsTypeOK'
  BY <1>7, <1>1, <1>2, WriteEffect DEF WriteActive, OnlyTask
<1>8. ASSUME NEW t \in PromptTasks, CommitPrompt(t) PROVE PromptsTypeOK'
  <2>1. OnlyTask(t) /\ At(t, "write")
    BY <1>8, CommitEffect
  <2>2. task[t].id \in Numbered /\ task[t].by \in Operators \cup {NoOperator}
    BY <1>1, <2>1 DEF PromptTaskOK, TaskOK, At, PromptTask, Numbered
  <2>3. prompts' \in Rows /\ prompts'.active \subseteq prompts'.stored
    BY <1>1, <1>8, <2>2 DEF CommitPrompt, Rows
  <2>4. rolledTo' \in [version : 0 .. MaxPrompts, by : Operators \cup {NoOperator}]
    BY <1>1, <1>8, <2>2 DEF CommitPrompt, Numbered
  <2>5. shown' = shown /\ overlapped' = overlapped
    BY <1>8 DEF CommitPrompt
  <2> QED BY <1>1, <1>2, <2>1, <2>3, <2>4, <2>5 DEF OnlyTask
<1>9. ASSUME NEW t \in PromptTasks, PromptFails(t) PROVE PromptsTypeOK'
  BY <1>9, <1>1, <1>2, EndEffect DEF PromptFails, OnlyTask
<1>10. ASSUME NEW t \in PromptTasks, PromptAnswered(t) PROVE PromptsTypeOK'
  BY <1>10, <1>1, <1>2, EndEffect, ReloadEffect DEF PromptAnswered, OnlyTask
<1>11. ASSUME NEW t \in PromptTasks, ServePrompts(t) PROVE PromptsTypeOK'
  BY <1>11, <1>1, <1>2, ServeEffect DEF ServePrompts, OnlyTask
<1>12. ASSUME NEW t \in PromptTasks, PromptsLoaded(t) PROVE PromptsTypeOK'
  <2>1. OnlyTask(t)
    BY <1>12, EndEffect DEF PromptsLoaded
  <2>2. shown' \in [Operators -> Rows]
    BY <1>1, <1>12 DEF PromptsLoaded, PromptTask
  <2>3. prompts' = prompts /\ rolledTo' = rolledTo /\ overlapped' = overlapped
    BY <1>12 DEF PromptsLoaded
  <2> QED BY <1>1, <1>2, <2>1, <2>2, <2>3 DEF OnlyTask
<1>13. CASE UNCHANGED promptVars
  BY <1>13, <1>1, <1>2 DEF promptVars, OnlyTask
<1> QED
  BY <1>3, <1>4, <1>5, <1>6, <1>7, <1>8, <1>9, <1>10, <1>11, <1>12, <1>13
  DEF PromptNext

LEMMA OtherTasksOK ==
  ASSUME PromptTaskOK, NEW t \in PromptTasks, OnlyTask(t), TaskOK(task'[t])
  PROVE  PromptTaskOK'
BY DEF PromptTaskOK, OnlyTask, TaskOK

LEMMA PromptTaskStep ==
  PromptsTypeOK /\ PromptTaskOK /\ [PromptNext]_promptVars => PromptTaskOK'
<1> SUFFICES ASSUME PromptsTypeOK, PromptTaskOK, [PromptNext]_promptVars PROVE PromptTaskOK'
  OBVIOUS
<1> USE DEF At, SameTransaction
<1>0. \A t \in PromptTasks : TaskOK(task[t])
  BY DEF PromptTaskOK
<1>1. ASSUME NEW t \in PromptTasks, NEW o \in Operators, OpenPrompts(t, o) PROVE PromptTaskOK'
  <2> SUFFICES ASSUME NEW q \in PromptTasks PROVE TaskOK(task'[q])
    BY DEF PromptTaskOK, TaskOK
  <2>1. CASE q = t
    BY <1>1, <2>1, OpenEffect DEF TaskOK
  <2>2. CASE q # t
    <3>1. TaskOK(task[q]) /\ task'[q] \in PromptTask
      BY <1>0, <1>1, OpenEffect
    <3>2. /\ task'[q].at = task[q].at /\ task'[q].id = task[q].id /\ task'[q].locked = task[q].locked
          /\ task'[q].activate = task[q].activate /\ (task[q] = NoTask => task'[q] = NoTask)
      <4>1. q \in PromptTasks \ {t}
        BY <2>2
      <4>2. \A p \in PromptTasks \ {t} :
              /\ task'[p].at = task[p].at /\ task'[p].id = task[p].id /\ task'[p].locked = task[p].locked
              /\ task'[p].activate = task[p].activate /\ (task[p] = NoTask => task'[p] = NoTask)
        BY <1>1, OpenEffect
      <4> QED BY <4>1, <4>2
    <3> QED BY <3>1, <3>2 DEF TaskOK
  <2> QED BY <2>1, <2>2
<1>2. ASSUME NEW t \in PromptTasks, NEW o \in Operators, NEW activate \in BOOLEAN,
            CreatePrompt(t, o, activate) PROVE PromptTaskOK'
  <2>1. /\ OnlyTask(t)
        /\ task'[t].at = (IF activate THEN "scan" ELSE "write") /\ task'[t].id \in Numbered
        /\ task'[t].activate = activate /\ task'[t].locked = {}
    BY <1>2, CreateEffect
  <2>2. TaskOK(task'[t])
    BY <1>0, <2>1 DEF OnlyTask, TaskOK, Numbered
  <2> QED BY <2>1, <2>2, OtherTasksOK
<1>3. ASSUME NEW t \in PromptTasks, NEW o \in Operators, NEW n \in Numbered, ActivatePrompt(t, o, n) PROVE PromptTaskOK'
  <2>1. /\ OnlyTask(t)
        /\ task'[t].at = "scan" /\ task'[t].id \in Numbered /\ task'[t].activate = TRUE /\ task'[t].locked = {}
    BY <1>3, ActivateEffect
  <2>2. TaskOK(task'[t])
    BY <1>0, <2>1 DEF OnlyTask, TaskOK, Numbered
  <2> QED BY <2>1, <2>2, OtherTasksOK
<1>4. ASSUME NEW t \in PromptTasks, ScanActive(t) PROVE PromptTaskOK'
  <2>1. /\ OnlyTask(t)
        /\ task'[t].at = "lock" /\ task[t].at = "scan" /\ task'[t].locked = task[t].locked
        /\ task'[t].id = task[t].id /\ task'[t].activate = task[t].activate
    BY <1>4, ScanEffect
  <2>2. TaskOK(task'[t])
    BY <1>0, <2>1 DEF OnlyTask, TaskOK, Numbered
  <2> QED BY <2>1, <2>2, OtherTasksOK
<1>5. ASSUME NEW t \in PromptTasks, WriteActive(t) PROVE PromptTaskOK'
  <2>1. /\ OnlyTask(t)
        /\ task'[t].at = "write" /\ task[t].at = "lock"
        /\ task'[t].id = task[t].id /\ task'[t].activate = task[t].activate
    BY <1>5, WriteEffect
  <2>2. TaskOK(task'[t])
    BY <1>0, <2>1 DEF OnlyTask, TaskOK, Numbered
  <2> QED BY <2>1, <2>2, OtherTasksOK
<1>6. ASSUME NEW t \in PromptTasks, CommitPrompt(t) PROVE PromptTaskOK'
  <2>1. /\ OnlyTask(t)
        /\ task'[t].at = "done" /\ task'[t].locked = {}
    BY <1>6, CommitEffect
  <2>2. TaskOK(task'[t])
    BY <1>0, <2>1 DEF OnlyTask, TaskOK, Numbered
  <2> QED BY <2>1, <2>2, OtherTasksOK
<1>7. ASSUME NEW t \in PromptTasks, PromptFails(t) PROVE PromptTaskOK'
  BY <1>7, EndEffect, NoTaskType, OtherTasksOK DEF PromptFails, TaskOK
<1>8. ASSUME NEW t \in PromptTasks, PromptAnswered(t) PROVE PromptTaskOK'
  <2>1. CASE task' = [task EXCEPT ![t] = NoTask]
    BY <2>1, EndEffect, NoTaskType, OtherTasksOK DEF TaskOK
  <2>2. CASE Step(t, "load")
    <3>1. OnlyTask(t) /\ task'[t].at = "load" /\ task[t].at = "done" /\ task'[t].locked = task[t].locked
      BY <1>8, <2>2, ReloadEffect DEF PromptAnswered
    <3>2. TaskOK(task'[t])
      BY <1>0, <3>1 DEF OnlyTask, TaskOK
    <3> QED BY <3>1, <3>2, OtherTasksOK
  <2> QED BY <1>8, <2>1, <2>2 DEF PromptAnswered
<1>9. ASSUME NEW t \in PromptTasks, ServePrompts(t) PROVE PromptTaskOK'
  <2>1. /\ OnlyTask(t)
        /\ task'[t].at = "loaded" /\ task[t].at = "load" /\ task'[t].locked = task[t].locked
    BY <1>9, ServeEffect
  <2>2. TaskOK(task'[t])
    BY <1>0, <2>1 DEF OnlyTask, TaskOK, Numbered
  <2> QED BY <2>1, <2>2, OtherTasksOK
<1>10. ASSUME NEW t \in PromptTasks, PromptsLoaded(t) PROVE PromptTaskOK'
  BY <1>10, EndEffect, NoTaskType, OtherTasksOK DEF PromptsLoaded, TaskOK
<1>11. CASE UNCHANGED promptVars
  BY <1>11, <1>0 DEF promptVars, PromptTaskOK, TaskOK
<1> QED
  BY <1>1, <1>2, <1>3, <1>4, <1>5, <1>6, <1>7, <1>8, <1>9, <1>10, <1>11
  DEF PromptNext

LEMMA ActiveStep ==
  PromptsTypeOK /\ PromptTaskOK /\ ActiveKept /\ [PromptNext]_promptVars => ActiveKept'
<1> SUFFICES ASSUME PromptsTypeOK, PromptTaskOK, ActiveKept, [PromptNext]_promptVars PROVE ActiveKept'
  OBVIOUS
<1>1. ASSUME NEW t \in PromptTasks, CommitPrompt(t) PROVE ActiveKept'
  <2>1. TaskOK(task[t])
    BY DEF PromptTaskOK
  <2>2. task[t].activate \in BOOLEAN /\ (~task[t].activate => task[t].locked = {})
    BY <2>1 DEF TaskOK, PromptTask
  <2>3. CASE task[t].activate
    BY <1>1, <2>3 DEF ActiveKept, CommitPrompt
  <2>4. CASE ~task[t].activate
    BY <1>1, <2>2, <2>4 DEF ActiveKept, CommitPrompt
  <2> QED BY <2>2, <2>3, <2>4
<1>2. CASE UNCHANGED <<prompts, rolledTo>>
  BY <1>2 DEF ActiveKept
<1>3. \/ \E t \in PromptTasks : CommitPrompt(t)
      \/ UNCHANGED <<prompts, rolledTo>>
  BY DEF PromptNext, promptVars, OpenPrompts, CreatePrompt, ActivatePrompt, Sends, ScanActive,
     WriteActive, PromptFails, PromptAnswered, ServePrompts, PromptsLoaded
<1> QED BY <1>1, <1>2, <1>3

\* While requests follow each other, the others are not there.
LEMMA AloneTask ==
  ASSUME PromptTaskOK, AloneOK, NEW t \in PromptTasks, task[t] # NoTask
  PROVE  \A q \in PromptTasks \ {t} : task[q] = NoTask
BY DEF AloneOK

LEMMA NobodyFollowed ==
  ASSUME AloneOK, Busy = {}, rolledTo.by # NoOperator
  PROVE  shown[rolledTo.by] = prompts
BY NoTaskType DEF AloneOK, Busy, PageFollows

LEMMA AloneMoves ==
  ASSUME PromptTaskOK, AloneOK, NEW t \in PromptTasks, OnlyTask(t),
         task[t] # NoTask \/ Busy = {},
         UNCHANGED <<prompts, shown, rolledTo>>,
         task'[t].at \in {"lock", "loaded"} => task'[t].view = prompts,
         task'[t].at = "write" /\ task'[t].activate => task'[t].locked = prompts.active,
         rolledTo.by # NoOperator /\ task[t].by = rolledTo.by /\ task[t].at \in {"done", "load", "loaded"}
           => task'[t].by = rolledTo.by /\ task'[t].at \in {"done", "load", "loaded"}
  PROVE  AloneOK'
<1>1. \A q \in PromptTasks \ {t} : task[q] = NoTask /\ task'[q] = NoTask
  BY AloneTask DEF Busy, OnlyTask
<1>2. \A p, q \in PromptTasks : task'[p] # NoTask /\ task'[q] # NoTask => p = q
  BY <1>1
<1>3. \A q \in PromptTasks :
        /\ task'[q].at \in {"lock", "loaded"} => task'[q].view = prompts
        /\ task'[q].at = "write" /\ task'[q].activate => task'[q].locked = prompts.active
  BY <1>1, NoTaskType
<1>4. ASSUME rolledTo.by # NoOperator PROVE PageFollows(rolledTo.by)'
  <2>1. CASE shown[rolledTo.by] = prompts
    BY <2>1 DEF PageFollows
  <2>2. CASE shown[rolledTo.by] # prompts
    <3>1. PICK q \in PromptTasks : task[q].by = rolledTo.by /\ task[q].at \in {"done", "load", "loaded"}
      BY <1>4, <2>2 DEF AloneOK, PageFollows
    <3>2. q = t
      BY <1>1, <3>1, NoTaskType
    <3>3. task'[t].by = rolledTo.by /\ task'[t].at \in {"done", "load", "loaded"}
      BY <1>4, <3>1, <3>2
    <3> QED BY <3>3 DEF PageFollows
  <2> QED BY <2>1, <2>2
<1> QED BY <1>2, <1>3, <1>4 DEF AloneOK, At

LEMMA AloneStep ==
  PromptsTypeOK /\ PromptTaskOK /\ AloneOK /\ ~overlapped' /\ [PromptNext]_promptVars => AloneOK'
<1> SUFFICES ASSUME PromptsTypeOK, PromptTaskOK, AloneOK, ~overlapped', [PromptNext]_promptVars
             PROVE  AloneOK'
  OBVIOUS
<1>0. \A t \in PromptTasks : TaskOK(task[t])
  BY DEF PromptTaskOK
<1>1. ASSUME NEW t \in PromptTasks, NEW o \in Operators, OpenPrompts(t, o) PROVE AloneOK'
  <2>1. /\ Busy = {} /\ task'[t].at = "load" /\ task'[t].by = o
        /\ prompts' = prompts /\ rolledTo' = rolledTo /\ \A p \in Operators \ {o} : shown'[p] = shown[p]
    BY <1>1, OpenEffect
  <2>2. \A q \in PromptTasks \ {t} : task'[q] = NoTask
    BY <1>1, <2>1, OpenEffect DEF Busy
  <2>3. ASSUME rolledTo.by # NoOperator PROVE PageFollows(rolledTo.by)'
    <3>1. rolledTo.by \in Operators
      BY <2>3 DEF PromptsTypeOK
    <3>2. CASE rolledTo.by = o
      BY <2>1, <3>2 DEF PageFollows
    <3>3. CASE rolledTo.by # o
      <4>1. shown'[rolledTo.by] = prompts'
        BY <2>1, <2>3, <3>1, <3>3, NobodyFollowed
      <4> QED BY <2>1, <4>1 DEF PageFollows
    <3> QED BY <3>2, <3>3
  <2>4. \A p, q \in PromptTasks : task'[p] # NoTask /\ task'[q] # NoTask => p = q
    BY <2>2
  <2>5. \A q \in PromptTasks : task'[q].at \notin {"lock", "loaded", "write"}
    BY <2>1, <2>2, NoTaskType
  <2>6. prompts'.active = {rolledTo'.version} \ {0}
    BY <2>1 DEF AloneOK
  <2> QED BY <2>1, <2>3, <2>4, <2>5, <2>6 DEF AloneOK, At
<1>2. ASSUME NEW t \in PromptTasks, NEW o \in Operators, NEW activate \in BOOLEAN,
             CreatePrompt(t, o, activate) PROVE AloneOK'
  <2>0. /\ task'[t].at = (IF activate THEN "scan" ELSE "write") /\ task'[t].activate = activate
        /\ overlapped' = (overlapped \/ Busy # {})
    BY <1>2, CreateEffect
  <2>1. OnlyTask(t) /\ task[t] = NoTask /\ Busy = {} /\ UNCHANGED <<prompts, shown, rolledTo>>
    BY <1>2, <2>0, CreateEffect
  <2>2. task'[t].at \notin {"lock", "loaded"} /\ ~(task'[t].at = "write" /\ task'[t].activate)
        /\ task[t].at = "idle"
    BY <2>0, <2>1, NoTaskType
  <2>3. task[t].at \notin {"done", "load", "loaded"}
    BY <2>2
  <2> QED BY <2>1, <2>2, <2>3, AloneMoves
<1>3. ASSUME NEW t \in PromptTasks, NEW o \in Operators, NEW n \in Numbered, ActivatePrompt(t, o, n)
      PROVE AloneOK'
  <2>1. /\ OnlyTask(t) /\ task[t] = NoTask /\ Busy = {} /\ task'[t].at = "scan"
        /\ UNCHANGED <<prompts, shown, rolledTo>>
    BY <1>3, ActivateEffect
  <2> QED BY <2>1, AloneMoves, NoTaskType
<1>4. ASSUME NEW t \in PromptTasks, ScanActive(t) PROVE AloneOK'
  <2>1. /\ OnlyTask(t) /\ task[t].at = "scan" /\ task'[t].at = "lock" /\ task'[t].view = prompts
        /\ UNCHANGED <<prompts, shown, rolledTo>>
    BY <1>4, ScanEffect DEF At, ScanActive
  <2> QED BY <2>1, AloneMoves, NoTaskType
<1>5. ASSUME NEW t \in PromptTasks, WriteActive(t) PROVE AloneOK'
  <2>1. /\ OnlyTask(t) /\ task[t].at = "lock" /\ task'[t].at = "write"
        /\ task'[t].locked = task[t].view.active \cap prompts.active
        /\ UNCHANGED <<prompts, shown, rolledTo>>
    BY <1>5, WriteEffect DEF At, WriteActive
  <2>2. task[t].view = prompts
    BY <2>1 DEF AloneOK, At
  <2> QED BY <2>1, <2>2, AloneMoves, NoTaskType
<1>6. ASSUME NEW t \in PromptTasks, CommitPrompt(t) PROVE AloneOK'
  <2>1. /\ OnlyTask(t) /\ task[t].at = "write" /\ task'[t].at = "done" /\ task'[t].by = task[t].by
    BY <1>6, CommitEffect DEF At
  <2>2. \A q \in PromptTasks \ {t} : task'[q] = NoTask
    BY <2>1, AloneTask, NoTaskType DEF OnlyTask
  <2>3. prompts'.active = {rolledTo'.version} \ {0} /\ rolledTo'.by = task[t].by
    <3>1. task[t].activate \in BOOLEAN /\ task[t].id # 0
          /\ (~task[t].activate => task[t].locked = {})
      BY <1>0, <2>1 DEF TaskOK, PromptTask
    <3>2. task[t].activate => task[t].locked = prompts.active
      BY <2>1 DEF AloneOK, At
    <3>3. prompts.active = {rolledTo.version} \ {0}
      BY DEF AloneOK
    <3>4. CASE task[t].activate
      <4>1. prompts'.active = (prompts.active \ task[t].locked) \cup {task[t].id}
            /\ rolledTo'.version = task[t].id /\ rolledTo'.by = task[t].by
        BY <1>6, <3>4 DEF CommitPrompt
      <4> QED BY <3>1, <3>2, <3>4, <4>1
    <3>5. CASE ~task[t].activate
      BY <1>6, <3>1, <3>3, <3>5 DEF CommitPrompt
    <3> QED BY <3>1, <3>4, <3>5
  <2>4. \A p, q \in PromptTasks : task'[p] # NoTask /\ task'[q] # NoTask => p = q
    BY <2>2
  <2>5. \A q \in PromptTasks : task'[q].at \notin {"lock", "loaded", "write"}
    BY <2>1, <2>2, NoTaskType
  <2>6. PageFollows(rolledTo.by)'
    BY <2>1, <2>3 DEF PageFollows
  <2> QED BY <2>3, <2>4, <2>5, <2>6 DEF AloneOK, At
<1>7. ASSUME NEW t \in PromptTasks, PromptFails(t) PROVE AloneOK'
  <2>1. /\ OnlyTask(t) /\ task[t] # NoTask /\ task'[t] = NoTask
        /\ task[t].at \notin {"done", "load", "loaded"} /\ UNCHANGED <<prompts, shown, rolledTo>>
    BY <1>7, EndEffect DEF PromptFails
  <2> QED BY <2>1, AloneMoves, NoTaskType
<1>8. ASSUME NEW t \in PromptTasks, PromptAnswered(t) PROVE AloneOK'
  <2>1. task[t].at = "done" /\ task[t] # NoTask /\ UNCHANGED <<prompts, shown, rolledTo>>
    BY <1>8, NoTaskType DEF PromptAnswered, At
  <2>2. CASE task[t].by = NoOperator
    <3>1. OnlyTask(t) /\ task'[t] = NoTask
      BY <1>8, <2>2, EndEffect DEF PromptAnswered
    <3> QED BY <2>1, <2>2, <3>1, AloneMoves, NoTaskType
  <2>3. CASE task[t].by # NoOperator
    <3>1. OnlyTask(t) /\ task'[t].at = "load" /\ task'[t].by = task[t].by
      BY <1>8, <2>3, ReloadEffect DEF PromptAnswered, SameTransaction
    <3> QED BY <2>1, <3>1, AloneMoves
  <2> QED BY <2>2, <2>3
<1>9. ASSUME NEW t \in PromptTasks, ServePrompts(t) PROVE AloneOK'
  <2>1. /\ OnlyTask(t) /\ task[t].at = "load" /\ task'[t].at = "loaded" /\ task'[t].view = prompts
        /\ task'[t].by = task[t].by /\ UNCHANGED <<prompts, shown, rolledTo>>
    BY <1>9, ServeEffect DEF At, SameTransaction, ServePrompts
  <2> QED BY <2>1, AloneMoves, NoTaskType
<1>10. ASSUME NEW t \in PromptTasks, PromptsLoaded(t) PROVE AloneOK'
  <2>1. /\ OnlyTask(t) /\ task[t].at = "loaded" /\ task'[t] = NoTask
        /\ prompts' = prompts /\ rolledTo' = rolledTo
    BY <1>10, EndEffect DEF PromptsLoaded, At
  <2>2. \A q \in PromptTasks : task'[q] = NoTask
    BY <2>1, AloneTask, NoTaskType DEF OnlyTask
  <2>3. task[t].view = prompts
    BY <2>1 DEF AloneOK
  <2>4. ASSUME rolledTo.by # NoOperator PROVE shown'[rolledTo.by] = prompts
    <3>1. rolledTo.by \in Operators
      BY <2>4 DEF PromptsTypeOK
    <3>2. task[t].by = rolledTo.by \/ shown[rolledTo.by] = prompts
      BY <2>1, <2>4, AloneTask, NoTaskType DEF AloneOK, PageFollows
    <3>3. shown'[rolledTo.by] = IF task[t].by = rolledTo.by THEN task[t].view ELSE shown[rolledTo.by]
      BY <1>10, <3>1 DEF PromptsLoaded
    <3> QED BY <2>3, <3>2, <3>3
  <2>5. prompts'.active = {rolledTo'.version} \ {0}
    BY <2>1 DEF AloneOK
  <2> QED BY <2>1, <2>2, <2>4, <2>5, NoTaskType DEF AloneOK, At, PageFollows
<1>11. CASE UNCHANGED promptVars
  BY <1>11 DEF promptVars, AloneOK, At, PageFollows
<1> QED
  BY <1>1, <1>2, <1>3, <1>4, <1>5, <1>6, <1>7, <1>8, <1>9, <1>10, <1>11
  DEF PromptNext

LEMMA OverlapStays == PromptsTypeOK /\ [PromptNext]_promptVars => (overlapped => overlapped')
BY DEF PromptsTypeOK, PromptNext, promptVars, OpenPrompts, CreatePrompt, ActivatePrompt, Sends,
   ScanActive, WriteActive, CommitPrompt, PromptFails, PromptAnswered, ServePrompts, PromptsLoaded

LEMMA PromptsInvStep == PromptsInv /\ [PromptNext]_promptVars => PromptsInv'
<1> SUFFICES ASSUME PromptsInv, [PromptNext]_promptVars PROVE PromptsInv'
  OBVIOUS
<1>1. PromptsTypeOK /\ PromptTaskOK /\ ActiveKept /\ (~overlapped => AloneOK)
  BY DEF PromptsInv
<1>2. PromptsTypeOK' /\ PromptTaskOK' /\ ActiveKept'
  BY <1>1, PromptsTypeStep, PromptTaskStep, ActiveStep
<1>3. ASSUME ~overlapped' PROVE AloneOK'
  BY <1>1, <1>3, OverlapStays, AloneStep
<1> QED BY <1>2, <1>3 DEF PromptsInv

LEMMA PromptsInvAlways == PromptSpec => []PromptsInv
BY PromptsInvInit, PromptsInvStep, PTL DEF PromptSpec

\* The rows, the pages and the requests keep their shape.
THEOREM PromptsTypeCorrect == PromptSpec => []PromptsTypeOK
<1>1. PromptsInv => PromptsTypeOK
  BY DEF PromptsInv
<1> QED BY <1>1, PromptsInvAlways, PTL

\* However requests overlap or fail, a platform that has activated a version keeps one; and
\* when they do not overlap, it is the one activated last, and the page that asked shows it
\* (the transactions of the prompt routes in admin.ts).
THEOREM OneVersionIsActive == PromptSpec => []OneVersionIsActiveUnlessOverlapped
<1>1. PromptsInv => OneVersionIsActiveUnlessOverlapped
  <2> SUFFICES ASSUME PromptsInv PROVE OneVersionIsActiveUnlessOverlapped
    OBVIOUS
  <2>1. ASSUME ~overlapped, rolledTo.by # NoOperator, Busy = {} PROVE shown[rolledTo.by] = prompts
    BY <2>1, NobodyFollowed DEF PromptsInv
  <2> QED BY <2>1 DEF PromptsInv, ActiveKept, AloneOK, OneVersionIsActiveUnlessOverlapped
<1> QED BY <1>1, PromptsInvAlways, PTL

---------------------------------------------------------------------------
(***************************************************************************)
(* Accounts.                                                               *)
(***************************************************************************)

AskType == [op : {"none", "invite", "role", "remove", "provision"},
            at : {"idle", "slug", "tenant", "user", "member", "check", "write"},
            target : Actors, role : Roles \cup {"none"}]

\* A request of a is about a user, not about a himself where its handler looks; what
\* the operator enters while he provisions is the administrator of the tenant.
AskOK(a, r) ==
  /\ r \in AskType
  /\ r # NoAsk => r.target \in Users
  /\ r.at \in {"check", "write"} => r.target # a
  /\ r.at \in {"slug", "tenant"} => a = Staff /\ r.op = "provision" /\ r.role = "tenant_admin"
  /\ r.at \in {"user", "member"} => r.role \in Roles /\ (a = Staff => r.op = "provision" /\ r.role = "tenant_admin")

RequestsOK == \A a \in Actors : AskOK(a, request[a])

AccountsInv == AccountsTypeOK /\ RequestsOK /\ AdminRemainsUnlessWaived

LEMMA NoAskOK == NoAsk.at = "idle" /\ \A a \in Actors : AskOK(a, NoAsk)
BY DEF NoAsk, AskOK, AskType, Actors

\* What an actor's step does to his request; the requests of the others stay.
OnlyAsk(a) == \A b \in Actors \ {a} : request'[b] = request[b]

LEMMA ArrivesEffect ==
  ASSUME AccountsTypeOK, RequestsOK, NEW a \in Actors, NEW r, AskOK(a, r), Arrives(a, r)
  PROVE  /\ RequestsOK' /\ request' \in [Actors -> AskType] /\ request[a] = NoAsk /\ request'[a] = r
         /\ OnlyAsk(a) /\ UNCHANGED <<tenantState, hasAccount, member, session, waived>>
<1>1. request \in [Actors -> AskType]
  BY DEF AccountsTypeOK, AskType
<1>2. request[a] = NoAsk /\ request' = [request EXCEPT ![a] = r]
      /\ UNCHANGED <<tenantState, hasAccount, member, session, waived>>
  BY DEF Arrives, Tenancy
<1>3. r \in AskType
  BY DEF AskOK
<1>4. request' \in [Actors -> AskType] /\ request'[a] = r /\ OnlyAsk(a)
  BY <1>1, <1>2, <1>3 DEF OnlyAsk
<1>5. RequestsOK'
  <2> SUFFICES ASSUME NEW b \in Actors PROVE AskOK(b, request'[b])
    BY DEF RequestsOK, AskOK, AskType, NoAsk, Actors
  <2> QED BY <1>4 DEF OnlyAsk, RequestsOK
<1> QED BY <1>2, <1>4, <1>5

LEMMA AnswerEffect ==
  ASSUME AccountsTypeOK, RequestsOK, NEW a \in Actors, Answer(a)
  PROVE  RequestsOK' /\ request' \in [Actors -> AskType] /\ request'[a] = NoAsk /\ OnlyAsk(a)
<1>1. request \in [Actors -> AskType] /\ AskOK(a, NoAsk)
  BY NoAskOK DEF AccountsTypeOK, AskType
<1>2. request' \in [Actors -> AskType] /\ request'[a] = NoAsk /\ OnlyAsk(a)
  BY <1>1 DEF Answer, OnlyAsk, AskOK
<1>3. RequestsOK'
  <2> SUFFICES ASSUME NEW b \in Actors PROVE AskOK(b, request'[b])
    BY DEF RequestsOK, AskOK, AskType, NoAsk, Actors
  <2> QED BY <1>1, <1>2 DEF OnlyAsk, RequestsOK
<1> QED BY <1>2, <1>3

LEMMA ProceedEffect ==
  ASSUME AccountsTypeOK, RequestsOK, NEW a \in Actors,
         NEW at \in {"tenant", "user", "member", "write"}, Proceed(a, at),
         \/ request[a].at = "slug" /\ at = "tenant"
         \/ request[a].at = "tenant" /\ at = "user"
         \/ request[a].at = "user" /\ at = "member"
         \/ request[a].at = "check" /\ at = "write"
  PROVE  /\ RequestsOK' /\ request' \in [Actors -> AskType] /\ OnlyAsk(a)
         /\ request'[a].at = at /\ request'[a].op = request[a].op
<1> DEFINE r == [request[a] EXCEPT !.at = at]
<1>1. request \in [Actors -> AskType] /\ AskOK(a, request[a]) /\ request[a] # NoAsk
  BY NoAskOK DEF AccountsTypeOK, AskType, RequestsOK
<1>2. /\ r \in AskType /\ r.at = at /\ r.op = request[a].op /\ r.target = request[a].target
      /\ r.role = request[a].role
  BY <1>1 DEF AskType
<1>3. AskOK(a, r)
  <2> HIDE DEF r
  <2> QED BY <1>1, <1>2 DEF AskOK, Roles
<1>4. request' = [request EXCEPT ![a] = r]
  BY DEF Proceed
<1> HIDE DEF r
<1>5. request' \in [Actors -> AskType] /\ request'[a] = r /\ OnlyAsk(a)
  BY <1>1, <1>2, <1>4 DEF OnlyAsk
<1>6. RequestsOK'
  <2> SUFFICES ASSUME NEW b \in Actors PROVE AskOK(b, request'[b])
    BY DEF RequestsOK, AskOK, AskType, NoAsk, Actors
  <2> QED BY <1>3, <1>5 DEF OnlyAsk, RequestsOK
<1> QED BY <1>2, <1>5, <1>6

LEMMA AccountsInvInit == AccountsInit => AccountsInv
<1> SUFFICES ASSUME AccountsInit PROVE AccountsInv
  OBVIOUS
<1>1. request \in [Actors -> AskType] /\ RequestsOK
  BY NoAskOK DEF AccountsInit, RequestsOK, AskOK
<1>2. AccountsTypeOK
  BY <1>1 DEF AccountsInit, AccountsTypeOK, AskType
<1> QED BY <1>1, <1>2 DEF AccountsInit, AccountsInv, AdminRemainsUnlessWaived

\* While the requests of the operator and the memberships stay, so does an administrator.
LEMMA MembersStay ==
  ASSUME AdminRemainsUnlessWaived, UNCHANGED <<tenantState, hasAccount, member>>,
         waived => waived', tenantState = "live" /\ Provisioning /\ ~waived => Provisioning' \/ waived'
  PROVE  AdminRemainsUnlessWaived'
<1>1. CASE tenantState = "live" /\ ~Provisioning' /\ ~waived'
  <2>1. PICK u \in hasAccount : member[u] = "tenant_admin"
    BY <1>1 DEF AdminRemainsUnlessWaived
  <2> QED BY <2>1 DEF AdminRemainsUnlessWaived
<1> QED BY <1>1 DEF AdminRemainsUnlessWaived

\* An administrator of today: his account exists.
LEMMA AdminIs ==
  ASSUME AccountsTypeOK, NEW u \in Users, member[u] = "tenant_admin"
  PROVE  u \in hasAccount
BY DEF AccountsTypeOK

LEMMA AccountsInvStep == AccountsInv /\ [AccountsNext]_accountVars => AccountsInv'
<1> SUFFICES ASSUME AccountsInv, [AccountsNext]_accountVars PROVE AccountsInv'
  OBVIOUS
<1>1. /\ AccountsTypeOK /\ RequestsOK /\ AdminRemainsUnlessWaived
      /\ \A a \in Actors : AskOK(a, request[a])
  BY DEF AccountsInv, RequestsOK
<1>2. /\ tenantState \in {"none", "live", "deleted"} /\ hasAccount \subseteq Users /\ waived \in BOOLEAN
      /\ \A u \in Users : member[u] # "none" => u \in hasAccount /\ tenantState = "live"
      /\ member \in [Users -> Roles \cup {"none"}] /\ session \in [Users -> Roles \cup {"none"}]
      /\ request \in [Actors -> AskType]
  BY <1>1 DEF AccountsTypeOK, AskType
<1> DEFINE Typed == /\ tenantState' \in {"none", "live", "deleted"} /\ hasAccount' \subseteq Users
                    /\ \A u \in Users : member'[u] # "none" => u \in hasAccount' /\ tenantState' = "live"
                    /\ member' \in [Users -> Roles \cup {"none"}]
                    /\ session' \in [Users -> Roles \cup {"none"}] /\ waived' \in BOOLEAN
                    /\ request' \in [Actors -> AskType]
<1>3. ASSUME Typed, RequestsOK', AdminRemainsUnlessWaived' PROVE AccountsInv'
  BY <1>3 DEF AccountsInv, AccountsTypeOK, AskType
<1>4. UNCHANGED <<hasAccount, member, tenantState, session, waived>> /\ request' \in [Actors -> AskType] => Typed
  BY <1>2
<1> HIDE DEF Typed
<1>5. Staff \in Actors /\ Users \subseteq Actors
  BY DEF Actors
<1>6. ASSUME NEW a \in Actors, NEW r, AskOK(a, r), Arrives(a, r), r.at # "idle" PROVE AccountsInv'
  <2>1. /\ RequestsOK' /\ request' \in [Actors -> AskType] /\ request[a] = NoAsk /\ OnlyAsk(a)
        /\ UNCHANGED <<tenantState, hasAccount, member, session, waived>>
    BY <1>1, <1>6, ArrivesEffect
  <2>2. Provisioning => Provisioning'
    BY <2>1, <1>5, NoAskOK DEF Provisioning, OnlyAsk
  <2> QED BY <1>1, <1>3, <1>4, <2>1, <2>2, MembersStay
<1>7. ASSUME NEW a \in Actors, NEW v \in Users, NEW role \in Roles, ChangeRole(a, v, role) PROVE AccountsInv'
  <2>1. AskOK(a, Ask("role", "check", v, role)) /\ Ask("role", "check", v, role).at # "idle"
    BY <1>5, <1>7 DEF ChangeRole, AskOK, Ask, AskType
  <2> QED BY <1>6, <1>7, <2>1 DEF ChangeRole
<1>8. ASSUME NEW u \in Users, NEW v \in Users, RemoveUser(u, v) PROVE AccountsInv'
  <2>1. AskOK(u, Ask("remove", "check", v, "none")) /\ Ask("remove", "check", v, "none").at # "idle"
    BY <1>5, <1>8 DEF RemoveUser, AskOK, Ask, AskType
  <2> QED BY <1>5, <1>6, <1>8, <2>1 DEF RemoveUser
<1>9. ASSUME NEW u \in Users, NEW v \in Users, NEW role \in Roles, InviteUser(u, v, role) PROVE AccountsInv'
  <2>1. AskOK(u, Ask("invite", "user", v, role)) /\ Ask("invite", "user", v, role).at # "idle"
    BY <1>5, AccountsAssumption DEF AskOK, Ask, AskType
  <2> QED BY <1>5, <1>6, <1>9, <2>1 DEF InviteUser
<1>10. ASSUME NEW u \in Users, ProvisionTenant(u) PROVE AccountsInv'
  <2>1. /\ AskOK(Staff, Ask("provision", "slug", u, "tenant_admin"))
        /\ Ask("provision", "slug", u, "tenant_admin").at # "idle"
    BY <1>5 DEF AskOK, Ask, AskType, Roles
  <2> QED BY <1>5, <1>6, <1>10, <2>1 DEF ProvisionTenant
<1>11. CASE CheckSlug
  <2>1. request[Staff].at = "slug" /\ UNCHANGED <<tenantState, hasAccount, member, session, waived>>
    BY <1>11 DEF CheckSlug, Tenancy
  <2>2. RequestsOK' /\ request' \in [Actors -> AskType]
    BY <1>1, <1>5, <1>11, AnswerEffect, ProceedEffect DEF CheckSlug
  <2>3. ~Provisioning
    BY <2>1 DEF Provisioning
  <2> QED BY <1>1, <1>3, <1>4, <2>1, <2>2, <2>3, MembersStay
<1>12. CASE InsertTenant
  <2>1. request[Staff].at = "tenant" /\ UNCHANGED <<hasAccount, member, session, waived>>
    BY <1>12 DEF InsertTenant
  <2>2. CASE tenantState = "none"
    <3>1. tenantState' = "live" /\ Proceed(Staff, "user")
      BY <1>12, <2>2 DEF InsertTenant
    <3>2. /\ RequestsOK' /\ request' \in [Actors -> AskType]
          /\ request'[Staff].at = "user" /\ request'[Staff].op = request[Staff].op
      BY <1>1, <1>5, <2>1, <3>1, ProceedEffect
    <3>3. request[Staff].op = "provision"
      BY <1>1, <1>5, <2>1 DEF AskOK
    <3>4. AdminRemainsUnlessWaived'
      BY <3>2, <3>3 DEF AdminRemainsUnlessWaived, Provisioning
    <3>5. Typed
      BY <1>2, <2>1, <2>2, <3>1, <3>2 DEF Typed
    <3> QED BY <1>3, <3>2, <3>4, <3>5
  <2>3. CASE tenantState # "none"
    <3>1. Answer(Staff) /\ tenantState' = tenantState
      BY <1>12, <2>3 DEF InsertTenant
    <3>2. RequestsOK' /\ request' \in [Actors -> AskType]
      BY <1>1, <1>5, <3>1, AnswerEffect
    <3>3. ~Provisioning
      BY <2>1 DEF Provisioning
    <3> QED BY <1>1, <1>3, <1>4, <2>1, <3>1, <3>2, <3>3, MembersStay
  <2> QED BY <2>2, <2>3
<1>13. ASSUME NEW a \in Actors, UpsertUser(a) PROVE AccountsInv'
  <2>1. /\ request[a].at = "user" /\ hasAccount' = hasAccount \cup {request[a].target}
        /\ Proceed(a, "member") /\ UNCHANGED <<tenantState, member, session, waived>>
    BY <1>13 DEF UpsertUser
  <2>2. /\ RequestsOK' /\ request' \in [Actors -> AskType] /\ OnlyAsk(a)
        /\ request'[a].at = "member" /\ request'[a].op = request[a].op
    BY <1>1, <2>1, ProceedEffect
  <2>3. request[a].target \in Users
    BY <1>1, <2>1, NoAskOK DEF AskOK
  <2>4. Typed
    BY <1>2, <2>1, <2>2, <2>3 DEF Typed
  <2>5. Provisioning => Provisioning'
    BY <1>5, <2>1, <2>2 DEF Provisioning, OnlyAsk
  <2>6. AdminRemainsUnlessWaived'
    BY <1>1, <2>1, <2>5 DEF AdminRemainsUnlessWaived
  <2> QED BY <1>3, <2>2, <2>4, <2>6
<1>14. ASSUME NEW a \in Actors, UpsertMember(a) PROVE AccountsInv'
  <2> DEFINE v == request[a].target
  <2>1. /\ request[a].at = "member" /\ Answer(a) /\ UNCHANGED <<tenantState, hasAccount, session>>
    BY <1>14 DEF UpsertMember
  <2>2. /\ v \in Users /\ request[a].role \in Roles
        /\ a = Staff => request[a].op = "provision" /\ request[a].role = "tenant_admin"
    BY <1>1, <2>1, NoAskOK DEF AskOK
  <2>3. RequestsOK' /\ request' \in [Actors -> AskType] /\ request'[a] = NoAsk /\ OnlyAsk(a)
    BY <1>1, <2>1, AnswerEffect
  <2>4. CASE tenantState = "live" /\ v \in hasAccount
    <3>1. /\ member' = [member EXCEPT ![v] = request[a].role]
          /\ waived' = (waived \/ (a # Staff /\ (v = a \/ Outlived(a))))
      BY <1>14, <2>4 DEF UpsertMember
    <3>2. Typed
      <4>1. waived' \in BOOLEAN
        BY <3>1
      <4> HIDE DEF v
      <4>2. member' \in [Users -> Roles \cup {"none"}]
            /\ \A u \in Users : member'[u] # "none" => u \in hasAccount' /\ tenantState' = "live"
        BY <1>2, <2>1, <2>2, <2>4, <3>1
      <4> QED BY <1>2, <2>1, <2>3, <4>1, <4>2 DEF Typed
    <3>3. ASSUME ~waived' PROVE \E u \in hasAccount' : member'[u] = "tenant_admin"
      <4>1. CASE a = Staff
        BY <1>2, <2>1, <2>2, <2>4, <3>1, <4>1
      <4>2. CASE a # Staff
        <5>1. a \in Users /\ v # a /\ member[a] = "tenant_admin"
          BY <3>1, <3>3, <4>2 DEF Actors, Outlived
        <5>2. member'[a] = "tenant_admin" /\ a \in hasAccount
          BY <1>1, <1>2, <3>1, <5>1, AdminIs
        <5> QED BY <2>1, <5>2
      <4> QED BY <4>1, <4>2
    <3> QED BY <1>3, <2>3, <3>2, <3>3 DEF AdminRemainsUnlessWaived
  <2>5. CASE ~(tenantState = "live" /\ v \in hasAccount)
    <3>1. member' = member /\ waived' = (waived \/ a = Staff)
      BY <1>14, <2>5 DEF UpsertMember
    <3>2. Typed
      BY <1>2, <2>1, <2>3, <3>1 DEF Typed
    <3>3. ~waived' => (Provisioning => Provisioning')
      BY <1>5, <2>3, <3>1 DEF Provisioning, OnlyAsk
    <3> QED BY <1>1, <1>3, <2>1, <2>3, <3>1, <3>2, <3>3, MembersStay
  <2> QED BY <2>4, <2>5
<1>15. ASSUME NEW a \in Actors, FindMember(a) PROVE AccountsInv'
  <2>1. request[a].at = "check" /\ UNCHANGED <<tenantState, hasAccount, member, session, waived>>
    BY <1>15 DEF FindMember, Tenancy
  <2>2. RequestsOK' /\ request' \in [Actors -> AskType] /\ OnlyAsk(a)
    BY <1>1, <1>15, AnswerEffect, ProceedEffect DEF FindMember
  <2>3. Provisioning => Provisioning'
    BY <1>5, <2>1, <2>2 DEF Provisioning, OnlyAsk
  <2> QED BY <1>1, <1>3, <1>4, <2>1, <2>2, <2>3, MembersStay
<1>16. ASSUME NEW a \in Actors, WriteMember(a) PROVE AccountsInv'
  <2> DEFINE v == request[a].target
  <2>1. /\ request[a].at = "write" /\ Answer(a) /\ UNCHANGED <<tenantState, hasAccount, session>>
    BY <1>16 DEF WriteMember
  <2>2. v \in Users /\ v # a /\ request[a].role \in Roles \cup {"none"}
    BY <1>1, <1>2, <2>1, NoAskOK DEF AskOK, AskType
  <2>3. RequestsOK' /\ request' \in [Actors -> AskType] /\ OnlyAsk(a)
    BY <1>1, <2>1, AnswerEffect
  <2>4. Provisioning => Provisioning'
    BY <1>5, <2>1, <2>3 DEF Provisioning, OnlyAsk
  <2>5. CASE member[v] = "none"
    <3>1. member' = member /\ waived' = waived
      BY <1>16, <2>5 DEF WriteMember
    <3> QED BY <1>1, <1>3, <1>4, <2>1, <2>3, <2>4, <3>1, MembersStay
  <2>6. CASE member[v] # "none"
    <3>1. member' = [member EXCEPT ![v] = request[a].role] /\ waived' = (waived \/ Outlived(a))
      BY <1>16, <2>6 DEF WriteMember
    <3>2. Typed
      <4>1. waived' \in BOOLEAN
        BY <3>1
      <4> HIDE DEF v
      <4>2. member' \in [Users -> Roles \cup {"none"}]
            /\ \A u \in Users : member'[u] # "none" => u \in hasAccount' /\ tenantState' = "live"
        BY <1>2, <2>1, <2>2, <2>6, <3>1
      <4> QED BY <1>2, <2>1, <2>3, <4>1, <4>2 DEF Typed
    <3>3. ASSUME ~waived' PROVE \E u \in hasAccount' : member'[u] = "tenant_admin"
      <4>1. a \in Users /\ member[a] = "tenant_admin"
        BY <3>1, <3>3 DEF Actors, Outlived
      <4>2. member'[a] = "tenant_admin" /\ a \in hasAccount
        BY <1>1, <1>2, <2>2, <3>1, <4>1, AdminIs
      <4> QED BY <2>1, <4>2
    <3> QED BY <1>3, <2>3, <3>2, <3>3 DEF AdminRemainsUnlessWaived
  <2> QED BY <2>5, <2>6
<1>17. ASSUME NEW a \in Actors, RequestFails(a) PROVE AccountsInv'
  <2>1. Answer(a) /\ waived' = (waived \/ a = Staff) /\ UNCHANGED <<tenantState, hasAccount, member, session>>
    BY <1>17 DEF RequestFails, Tenancy
  <2>2. RequestsOK' /\ request' \in [Actors -> AskType] /\ OnlyAsk(a)
    BY <1>1, <2>1, AnswerEffect
  <2>3. Typed
    BY <1>2, <2>1, <2>2 DEF Typed
  <2>4. ~waived' => (Provisioning => Provisioning')
    BY <1>5, <2>1, <2>2 DEF Provisioning, OnlyAsk
  <2> QED BY <1>1, <1>3, <2>1, <2>2, <2>3, <2>4, MembersStay
<1>18. ASSUME request' = request, Typed, AdminRemainsUnlessWaived' PROVE AccountsInv'
  <2>1. RequestsOK'
    BY <1>1, <1>18 DEF RequestsOK, AskOK, AskType, NoAsk, Actors
  <2> QED BY <1>3, <1>18, <2>1
<1>19. ASSUME NEW u \in Users, SignIn(u) PROVE AccountsInv'
  <2>1. Typed
    BY <1>2, <1>19 DEF SignIn, Typed
  <2>2. AdminRemainsUnlessWaived'
    BY <1>1, <1>19 DEF SignIn, AdminRemainsUnlessWaived, Provisioning
  <2> QED BY <1>18, <1>19, <2>1, <2>2 DEF SignIn
<1>20. ASSUME NEW u \in Users, SessionEnds(u) PROVE AccountsInv'
  <2>1. Typed
    BY <1>2, <1>20 DEF SessionEnds, Typed
  <2>2. AdminRemainsUnlessWaived'
    BY <1>1, <1>20 DEF SessionEnds, AdminRemainsUnlessWaived, Provisioning
  <2> QED BY <1>18, <1>20, <2>1, <2>2 DEF SessionEnds
<1>21. ASSUME NEW u \in Users, DeleteUser(u) PROVE AccountsInv'
  <2>1. Typed
    BY <1>2, <1>21 DEF DeleteUser, Typed
  <2> QED BY <1>18, <1>21, <2>1 DEF DeleteUser, AdminRemainsUnlessWaived
<1>22. CASE CreateTenant
  <2>1. Typed
    BY <1>2, <1>22 DEF CreateTenant, Typed
  <2> QED BY <1>18, <1>22, <2>1 DEF CreateTenant, AdminRemainsUnlessWaived
<1>23. CASE RemoveTenant
  <2>1. Typed
    BY <1>2, <1>23 DEF RemoveTenant, Typed
  <2> QED BY <1>18, <1>23, <2>1 DEF RemoveTenant, AdminRemainsUnlessWaived
<1>24. CASE UNCHANGED accountVars
  <2>1. Typed
    BY <1>2, <1>24 DEF accountVars, Typed
  <2>2. AdminRemainsUnlessWaived'
    BY <1>1, <1>24 DEF accountVars, AdminRemainsUnlessWaived, Provisioning
  <2> QED BY <1>18, <1>24, <2>1, <2>2 DEF accountVars
<1> QED
  BY <1>7, <1>8, <1>9, <1>10, <1>11, <1>12, <1>13, <1>14, <1>15, <1>16, <1>17, <1>19, <1>20, <1>21,
     <1>22, <1>23, <1>24
  DEF AccountsNext, AccountStep

LEMMA AccountsInvAlways == AccountsSpec => []AccountsInv
BY AccountsInvInit, AccountsInvStep, PTL DEF AccountsSpec

\* A membership always belongs to a user and a tenant that exist, though the tables are
\* written in several statements by requests that interleave and fail.
THEOREM AccountsTypeCorrect == AccountsSpec => []AccountsTypeOK
<1>1. AccountsInv => AccountsTypeOK
  BY DEF AccountsInv
<1> QED BY <1>1, AccountsInvAlways, PTL

\* For any number of users, whatever they do to one another: a tenant that was provisioned
\* keeps an administrator, unless the operator intervened or somebody acts whom the code
\* should have stopped (the checks of users.ts).
THEOREM AdminRemains == AccountsSpec => []AdminRemainsUnlessWaived
<1>1. AccountsInv => AdminRemainsUnlessWaived
  BY DEF AccountsInv
<1> QED BY <1>1, AccountsInvAlways, PTL

---------------------------------------------------------------------------
(***************************************************************************)
(* WebSession.                                                             *)
(***************************************************************************)

TabType == [view : InShell \cup {"closed", "login"}, ready : BOOLEAN, loading : BOOLEAN,
            me : Identities \cup {Nobody}, cached : Identities \cup {Nobody},
            inflight : [at : {"none", "sent", "kept", "rejected"}, as : Identities \cup {Nobody}],
            returned : BOOLEAN]

\* A tab shows what it has cached.
ShowsCache(r) == r.me \in {Nobody, r.cached}

\* Whom a tab knows, or asks about, is tok, if somebody is signed in at all.
Agrees(r, tok) == r.cached \in {Nobody, tok} /\ (r.inflight.at = "sent" => r.inflight.as \in {Nobody, tok})

\* Until the history leads back to a sign-in page the same holds when nobody is, and a tab
\* that shows the login page, or has found no token, knows nobody.
Follows(r, tok) ==
  /\ tok # Nobody => Agrees(r, tok)
  /\ ~r.returned =>
       /\ Agrees(r, tok)
       /\ r.view = "login" \/ (r.view \in InShell /\ ~r.ready) => Agrees(r, Nobody)

TabsFollow ==
  \A t \in Tabs : ShowsCache(tab[t]) /\ (t \notin disturbed => Follows(tab[t], token))

WebInv == WebTypeOK /\ TabsFollow

LEMMA FreshFollows ==
  ASSUME NEW view \in InShell \cup {"closed", "login"}
  PROVE  /\ Fresh(view) \in TabType /\ ShowsCache(Fresh(view))
         /\ Fresh(view).view = view /\ Fresh(view).cached = Nobody
         /\ \A tok : Follows(Fresh(view), tok)
BY DEF Fresh, TabType, ShowsCache, Follows, Agrees, NoPromise, MePromise

\* A tab that knows nobody and asks about nobody follows any token.
LEMMA IdleFollows ==
  ASSUME NEW r, r.cached = Nobody, r.inflight.at # "sent", NEW tok
  PROVE  Follows(r, tok)
BY DEF Follows, Agrees

\* A tab that shows the login page follows a token that is cleared, and that of whoever
\* signs in on it, unless the history led there and the tab holds somebody else.
LEMMA LoginFollows ==
  ASSUME NEW r, NEW tok, Follows(r, tok), r.view = "login"
  PROVE  Follows(r, Nobody)
BY DEF Follows

LEMMA SignInFollows ==
  ASSUME NEW r, NEW tok, NEW u
  PROVE  /\ Follows(r, tok) /\ r.view = "login" /\ ~r.returned => Follows(r, u)
         /\ r.returned /\ ~HoldsOther(r, u) => Follows(r, u)
BY DEF Follows, Agrees, HoldsOther

LEMMA MountFollows ==
  ASSUME NEW r \in TabType, ShowsCache(r), NEW tok \in Identities \cup {Nobody}, NEW view \in InShell
  PROVE  /\ Mount(r, view, tok) \in TabType /\ ShowsCache(Mount(r, view, tok))
         /\ Follows(r, tok) => Follows(Mount(r, view, tok), tok)
<1> DEFINE p == IF r.cached = Nobody /\ r.inflight.at = "none" THEN MePromise("sent", tok) ELSE r.inflight
           found == tok # Nobody
           waits == r.cached = Nobody /\ p.at = "sent"
           m == [r EXCEPT !.view = view, !.ready = found, !.me = r.cached,
                          !.inflight = p, !.loading = waits]
<1>1. p \in [at : {"none", "sent", "kept", "rejected"}, as : Identities \cup {Nobody}]
  BY DEF TabType, MePromise
<1>2. r.cached = Nobody /\ r.inflight.at = "none" => p.at = "sent" /\ p.as = tok
  BY DEF MePromise
<1>3. ~(r.cached = Nobody /\ r.inflight.at = "none") => p = r.inflight
  OBVIOUS
<1>4. Mount(r, view, tok) = m
  BY DEF Mount
<1> HIDE DEF p
<1>5. found \in BOOLEAN /\ waits \in BOOLEAN /\ (~found => tok = Nobody)
  OBVIOUS
<1> HIDE DEF found, waits
<1>6. /\ m \in TabType /\ m.view = view /\ m.me = r.cached /\ m.cached = r.cached /\ m.inflight = p
      /\ m.ready = found /\ m.returned = r.returned
  BY <1>1, <1>5 DEF TabType
<1> HIDE DEF m
<1>8. Follows(r, tok) => Follows(m, tok)
  BY <1>2, <1>3, <1>5, <1>6 DEF Follows, Agrees, InShell
<1> QED BY <1>4, <1>6, <1>8 DEF ShowsCache

LEMMA WebInvInit == WebInit => WebInv
<1> SUFFICES ASSUME WebInit PROVE WebInv
  OBVIOUS
<1>1. /\ Fresh("closed") \in TabType /\ ShowsCache(Fresh("closed"))
      /\ Follows(Fresh("closed"), Nobody)
  BY FreshFollows
<1>2. WebTypeOK
  BY <1>1 DEF WebInit, WebTypeOK, TabType
<1> QED BY <1>1, <1>2 DEF WebInit, WebInv, TabsFollow

\* A tab whose record an action replaces, and a token that it stores.
LEMMA TabMoves ==
  ASSUME WebInv, NEW t \in Tabs, NEW r \in TabType, ShowsCache(r), tab' = [tab EXCEPT ![t] = r],
         token' \in Identities \cup {Nobody}, expired' \subseteq Identities,
         pending' \in [Tabs -> SUBSET Identities], disturbed' \subseteq Tabs,
         \A u \in Tabs \ {t} : u \in disturbed => u \in disturbed',
         token' # token => Witnesses(t) \subseteq disturbed',
         t \notin disturbed' => Follows(r, token')
  PROVE  WebInv'
<1>1. /\ tab \in [Tabs -> TabType]
      /\ \A u \in Tabs : ShowsCache(tab[u])
      /\ \A u \in Tabs : u \notin disturbed => Follows(tab[u], token)
  BY DEF WebInv, WebTypeOK, TabsFollow, TabType
<1>2. tab' \in [Tabs -> TabType] /\ tab'[t] = r /\ \A u \in Tabs \ {t} : tab'[u] = tab[u]
  BY <1>1
<1>3. WebTypeOK'
  BY <1>2 DEF WebTypeOK, TabType
<1>4. ASSUME NEW u \in Tabs PROVE ShowsCache(tab'[u])
  BY <1>1, <1>2
<1>5. ASSUME NEW u \in Tabs, u \notin disturbed' PROVE Follows(tab'[u], token')
  <2>1. CASE u = t
    BY <1>2, <1>5, <2>1
  <2>2. CASE u # t /\ token' = token
    BY <1>1, <1>2, <1>5, <2>2
  <2>3. CASE u # t /\ token' # token
    <3>1. u \notin Witnesses(t)
      BY <1>5, <2>3
    <3>2. tab[u].cached = Nobody /\ tab[u].inflight.at # "sent"
      BY <2>3, <3>1 DEF Witnesses
    <3>3. Follows(tab[u], token')
      BY <3>2, IdleFollows
    <3> QED BY <1>2, <2>3, <3>3
  <2> QED BY <2>1, <2>2, <2>3
<1>6. TabsFollow'
  BY <1>4, <1>5 DEF TabsFollow, ShowsCache, Follows, Agrees
<1> QED BY <1>3, <1>6 DEF WebInv

\* The same of a tab that keeps its record.
LEMMA TabStays ==
  ASSUME WebInv, NEW t \in Tabs, tab' = tab,
         token' \in Identities \cup {Nobody}, expired' \subseteq Identities,
         pending' \in [Tabs -> SUBSET Identities], disturbed' \subseteq Tabs,
         \A u \in Tabs : u \in disturbed => u \in disturbed',
         token' # token => token' = Nobody /\ tab[t].view = "login" /\ Witnesses(t) \subseteq disturbed'
  PROVE  WebInv'
<1>1. /\ tab \in [Tabs -> TabType]
      /\ \A u \in Tabs : ShowsCache(tab[u])
      /\ \A u \in Tabs : u \notin disturbed => Follows(tab[u], token)
  BY DEF WebInv, WebTypeOK, TabsFollow, TabType
<1>2. tab' = [tab EXCEPT ![t] = tab[t]] /\ tab[t] \in TabType
  BY <1>1
<1>3. t \notin disturbed' => Follows(tab[t], token')
  BY <1>1, LoginFollows
<1> QED BY <1>1, <1>2, <1>3, TabMoves

LEMMA UnauthorizedFollows ==
  ASSUME WebInv, NEW t \in Tabs, NEW r \in TabType, ShowsCache(r), Unauthorized(t, r),
         r.view = tab[t].view, tab[t].view = "login" /\ t \notin disturbed => Follows(r, Nobody)
  PROVE  WebInv'
<1>1. /\ token' = Nobody /\ disturbed' = disturbed \cup Witnesses(t) /\ expired' = expired
      /\ disturbed' \subseteq Tabs /\ t \notin Witnesses(t) /\ expired' \subseteq Identities
  BY DEF Unauthorized, SetToken, WebInv, WebTypeOK, Witnesses
<1>2. CASE tab[t].view = "login"
  <2>1. tab' = [tab EXCEPT ![t] = r] /\ pending' = pending /\ pending \in [Tabs -> SUBSET Identities]
    BY <1>2 DEF Unauthorized, WebInv, WebTypeOK
  <2> QED BY <1>1, <1>2, <2>1, TabMoves
<1>3. CASE tab[t].view # "login"
  <2>1. tab' = [tab EXCEPT ![t] = Fresh("login")] /\ pending' = [pending EXCEPT ![t] = {}]
    BY <1>3 DEF Unauthorized
  <2>2. pending' \in [Tabs -> SUBSET Identities]
    BY <2>1 DEF WebInv, WebTypeOK
  <2>3. Fresh("login") \in TabType /\ ShowsCache(Fresh("login")) /\ Follows(Fresh("login"), Nobody)
    BY FreshFollows
  <2> QED BY <1>1, <2>1, <2>2, <2>3, TabMoves
<1> QED BY <1>2, <1>3

LEMMA EnterFollows ==
  ASSUME WebInv, NEW t \in Tabs, NEW u \in Identities, NEW r \in TabType, ShowsCache(r), Enter(t, r, u),
         t \notin disturbed => r.returned \/ (r.view = "login" /\ Follows(r, token))
  PROVE  WebInv'
<1> DEFINE m == Mount(r, "app", u)
<1>1. /\ token \in Identities \cup {Nobody} /\ expired \subseteq Identities
      /\ pending \in [Tabs -> SUBSET Identities] /\ disturbed \subseteq Tabs /\ Witnesses(t) \subseteq Tabs
  BY DEF WebInv, WebTypeOK, Witnesses
<1>2. /\ token' = u /\ expired' = expired \ {u} /\ pending' = pending /\ tab' = [tab EXCEPT ![t] = m]
      /\ disturbed' = disturbed \cup Witnesses(t) \cup {v \in {t} : r.returned /\ HoldsOther(r, u)}
  BY DEF Enter
<1>3. ASSUME t \notin disturbed' PROVE Follows(r, u)
  <2>1. t \notin disturbed /\ (r.returned => ~HoldsOther(r, u))
    BY <1>2, <1>3
  <2>2. CASE r.returned
    BY <2>1, <2>2, SignInFollows
  <2>3. CASE ~r.returned
    BY <2>1, <2>3, SignInFollows
  <2> QED BY <2>2, <2>3
<1>4. m \in TabType /\ ShowsCache(m) /\ (t \notin disturbed' => Follows(m, u))
  BY <1>3, MountFollows DEF InShell
<1> HIDE DEF m
<1>5. disturbed' \subseteq Tabs /\ Witnesses(t) \subseteq disturbed' /\ \A v \in Tabs : v \in disturbed => v \in disturbed'
  BY <1>1, <1>2
<1> QED BY <1>1, <1>2, <1>4, <1>5, TabMoves

LEMMA RejectedFollows ==
  ASSUME WebInv, NEW t \in Tabs
  PROVE  /\ Rejected(t) \in TabType /\ ShowsCache(Rejected(t)) /\ Rejected(t).view = tab[t].view
         /\ \A tok : Follows(tab[t], tok) => Follows(Rejected(t), tok)
<1>1. tab[t] \in TabType /\ ShowsCache(tab[t])
  BY DEF WebInv, WebTypeOK, TabsFollow, TabType
<1>2. /\ Rejected(t) \in TabType /\ Rejected(t).inflight.at = "rejected"
      /\ Rejected(t).view = tab[t].view /\ Rejected(t).ready = tab[t].ready
      /\ Rejected(t).me = tab[t].me /\ Rejected(t).cached = tab[t].cached
      /\ Rejected(t).returned = tab[t].returned
  BY <1>1 DEF Rejected, TabType
<1> QED BY <1>1, <1>2 DEF ShowsCache, Follows, Agrees

LEMMA WebInvStep == WebInv /\ [WebNext]_webVars => WebInv'
<1> SUFFICES ASSUME WebInv, [WebNext]_webVars PROVE WebInv'
  OBVIOUS
<1>1. /\ token \in Identities \cup {Nobody} /\ expired \subseteq Identities
      /\ pending \in [Tabs -> SUBSET Identities] /\ disturbed \subseteq Tabs
      /\ tab \in [Tabs -> TabType]
      /\ \A t \in Tabs : ShowsCache(tab[t])
      /\ \A t \in Tabs : t \notin disturbed => Follows(tab[t], token)
  BY DEF WebInv, WebTypeOK, TabsFollow, TabType
<1>2. \A t \in Tabs : Witnesses(t) \subseteq Tabs /\ t \notin Witnesses(t)
  BY DEF Witnesses
<1>3. \A u \in Identities : u # Nobody
  BY WebAssumption DEF Identities
<1>4. ASSUME NEW u \in Identities, TokenExpires(u) PROVE WebInv'
  BY <1>1, <1>4 DEF TokenExpires, WebInv, WebTypeOK, TabsFollow
<1>5. ASSUME NEW t \in Tabs, NEW view \in InShell \cup {"login"}, OpenTab(t, view) PROVE WebInv'
  <2>1. /\ Fresh(view) \in TabType /\ ShowsCache(Fresh(view)) /\ Follows(Fresh(view), token)
    BY FreshFollows
  <2> DEFINE r == IF view = "login" THEN Fresh(view) ELSE Mount(Fresh(view), view, token)
  <2>2. view # "login" => Mount(Fresh(view), view, token) \in TabType
          /\ ShowsCache(Mount(Fresh(view), view, token)) /\ Follows(Mount(Fresh(view), view, token), token)
    BY <1>1, <2>1, MountFollows
  <2>3. r \in TabType /\ ShowsCache(r) /\ Follows(r, token)
    BY <2>1, <2>2
  <2>4. /\ tab' = [tab EXCEPT ![t] = r] /\ token' = token /\ expired' = expired
        /\ pending' \in [Tabs -> SUBSET Identities] /\ disturbed' = disturbed \ {t}
    BY <1>1, <1>5 DEF OpenTab
  <2> HIDE DEF r
  <2> QED BY <1>1, <2>3, <2>4, TabMoves
<1>6. ASSUME NEW t \in Tabs, RedirectToLogin(t) PROVE WebInv'
  <2> DEFINE r == ShowLogin(tab[t])
  <2>1. /\ tab' = [tab EXCEPT ![t] = r] /\ UNCHANGED <<token, expired, pending, disturbed>>
        /\ tab[t].view \in InShell /\ ~tab[t].ready
    BY <1>1, <1>6 DEF RedirectToLogin
  <2>2. /\ r \in TabType /\ r.view = "login" /\ r.me = Nobody /\ r.cached = tab[t].cached
        /\ r.inflight = tab[t].inflight /\ r.returned = tab[t].returned
    BY <1>1 DEF TabType, ShowLogin
  <2> HIDE DEF r
  <2>3. ShowsCache(r) /\ (t \notin disturbed => Follows(r, token))
    BY <1>1, <2>1, <2>2 DEF ShowsCache, Follows, Agrees
  <2> QED BY <1>1, <2>1, <2>2, <2>3, TabMoves
<1>7. ASSUME NEW t \in Tabs, NEW u \in Identities, Login(t, u) PROVE WebInv'
  BY <1>1, <1>7, EnterFollows DEF Login
<1>8. ASSUME NEW t \in Tabs, WrongPassword(t) PROVE WebInv'
  BY <1>1, <1>2, <1>8, TabStays DEF WrongPassword, SetToken
<1>9. ASSUME NEW t \in Tabs, NEW u \in Identities, MagicLink(t, u) PROVE WebInv'
  <2>1. Fresh("app") \in TabType /\ ShowsCache(Fresh("app")) /\ Follows(Fresh("app"), u) /\ "app" \in InShell
    BY FreshFollows DEF InShell
  <2> DEFINE r == Mount(Fresh("app"), "app", u)
  <2>2. r \in TabType /\ ShowsCache(r) /\ Follows(r, u)
    BY <2>1, MountFollows
  <2>3. /\ tab' = [tab EXCEPT ![t] = r] /\ token' = u /\ expired' = expired \ {u}
        /\ pending' \in [Tabs -> SUBSET Identities]
        /\ disturbed' = (disturbed \ {t}) \cup Witnesses(t)
    BY <1>1, <1>9 DEF MagicLink
  <2> HIDE DEF r
  <2> QED BY <1>1, <1>2, <2>2, <2>3, TabMoves
<1>10. ASSUME NEW t \in Tabs, MeArrives(t) PROVE WebInv'
  <2> DEFINE as == tab[t].inflight.as
             me == IF tab[t].view \in InShell THEN as ELSE Nobody
             r == [tab[t] EXCEPT !.cached = as, !.inflight.at = "kept", !.loading = FALSE, !.me = me]
  <2>1. tab[t].inflight.at = "sent" /\ as \in Identities
    BY <1>10 DEF MeArrives, Accepted
  <2>2. tab[t] \in TabType /\ me \in {Nobody, as} /\ me \in Identities \cup {Nobody}
    BY <1>1, <2>1
  <2>3. tab' = [tab EXCEPT ![t] = r] /\ UNCHANGED <<token, expired, pending, disturbed>>
    BY <1>10 DEF MeArrives
  <2> HIDE DEF me
  <2>4. /\ r \in TabType /\ r.cached = as /\ r.me = me /\ r.inflight.at = "kept"
        /\ r.view = tab[t].view /\ r.ready = tab[t].ready /\ r.returned = tab[t].returned
    BY <2>1, <2>2 DEF TabType
  <2> HIDE DEF r
  <2>5. ASSUME t \notin disturbed PROVE Follows(r, token)
    BY <1>1, <1>3, <2>1, <2>4, <2>5 DEF Follows, Agrees
  <2> QED BY <1>1, <2>2, <2>3, <2>4, <2>5, TabMoves DEF ShowsCache
<1>11. ASSUME NEW t \in Tabs, MeRefused(t) PROVE WebInv'
  <2>1. Unauthorized(t, Rejected(t))
    BY <1>11 DEF MeRefused
  <2>2. tab[t].view = "login" /\ t \notin disturbed => Follows(Rejected(t), Nobody)
    BY <1>1, LoginFollows, RejectedFollows
  <2> QED BY <2>1, <2>2, RejectedFollows, UnauthorizedFollows
<1>12. ASSUME NEW t \in Tabs, MeFails(t) PROVE WebInv'
  <2>1. t \notin disturbed => Follows(Rejected(t), token)
    BY <1>1, RejectedFollows
  <2>2. tab' = [tab EXCEPT ![t] = Rejected(t)] /\ UNCHANGED <<token, expired, pending, disturbed>>
    BY <1>12 DEF MeFails
  <2> QED BY <1>1, <2>1, <2>2, RejectedFollows, TabMoves
<1>13. ASSUME NEW t \in Tabs, CallApi(t) PROVE WebInv'
  <2>1. /\ pending' = [pending EXCEPT ![t] = @ \cup {token}] /\ token \in Identities
        /\ UNCHANGED <<token, expired, tab, disturbed>>
    BY <1>1, <1>13 DEF CallApi
  <2>2. pending' \in [Tabs -> SUBSET Identities]
    BY <1>1, <2>1
  <2> QED BY <1>1, <2>1, <2>2, TabStays
<1>14. ASSUME NEW t \in Tabs, NEW u \in Identities, CallReturns(t, u) PROVE WebInv'
  <2>1. pending' \in [Tabs -> SUBSET Identities] /\ UNCHANGED <<token, expired, tab, disturbed>>
    BY <1>1, <1>14 DEF CallReturns
  <2> QED BY <1>1, <2>1, TabStays
<1>15. ASSUME NEW t \in Tabs, NEW u \in Identities, CallRefused(t, u) PROVE WebInv'
  <2>1. Unauthorized(t, tab[t])
    BY <1>15 DEF CallRefused
  <2>2. tab[t].view = "login" /\ t \notin disturbed => Follows(tab[t], Nobody)
    BY <1>1, LoginFollows
  <2> QED BY <1>1, <2>1, <2>2, UnauthorizedFollows
<1>16. ASSUME NEW t \in Tabs, NEW view \in InShell, Navigate(t, view) PROVE WebInv'
  <2> DEFINE r == Mount(tab[t], view, token)
  <2>1. r \in TabType /\ ShowsCache(r) /\ (t \notin disturbed => Follows(r, token))
    BY <1>1, MountFollows
  <2>2. tab' = [tab EXCEPT ![t] = r] /\ UNCHANGED <<token, expired, pending, disturbed>>
    BY <1>16 DEF Navigate
  <2> HIDE DEF r
  <2> QED BY <1>1, <2>1, <2>2, TabMoves
<1>17. ASSUME NEW t \in Tabs, Logout(t) PROVE WebInv'
  <2>1. Fresh("login") \in TabType /\ ShowsCache(Fresh("login")) /\ Follows(Fresh("login"), Nobody)
    BY FreshFollows
  <2> QED BY <1>1, <1>2, <1>17, <2>1, TabMoves DEF Logout
<1>18. ASSUME NEW t \in Tabs, NEW u \in Identities, FollowLinkAgain(t, u) PROVE WebInv'
  <2> DEFINE r == [tab[t] EXCEPT !.returned = TRUE]
  <2>1. r \in TabType /\ ShowsCache(r) /\ r.returned
    BY <1>1 DEF TabType, ShowsCache
  <2>2. Enter(t, r, u)
    BY <1>18 DEF FollowLinkAgain
  <2> HIDE DEF r
  <2> QED BY <2>1, <2>2, EnterFollows
<1>19. ASSUME NEW t \in Tabs, NEW view \in InShell \cup {"login"}, Traverse(t, view) PROVE WebInv'
  <2>1. CASE view = "login"
    <3> DEFINE r == [ShowLogin(tab[t]) EXCEPT !.returned = TRUE]
    <3>1. tab' = [tab EXCEPT ![t] = r] /\ UNCHANGED <<token, expired, pending, disturbed>>
      BY <1>1, <1>19, <2>1 DEF Traverse
    <3>2. /\ r \in TabType /\ r.me = Nobody /\ r.cached = tab[t].cached
          /\ r.inflight = tab[t].inflight /\ r.returned
      BY <1>1 DEF TabType, ShowLogin
    <3> HIDE DEF r
    <3>3. ShowsCache(r) /\ (t \notin disturbed => Follows(r, token))
      BY <1>1, <3>2 DEF ShowsCache, Follows, Agrees
    <3> QED BY <1>1, <3>1, <3>2, <3>3, TabMoves
  <2>2. CASE view # "login"
    <3> DEFINE r == Mount(tab[t], view, token)
    <3>1. r \in TabType /\ ShowsCache(r) /\ (t \notin disturbed => Follows(r, token))
      BY <1>1, <2>2, MountFollows
    <3>2. tab' = [tab EXCEPT ![t] = r] /\ UNCHANGED <<token, expired, pending, disturbed>>
      BY <1>1, <1>19, <2>2 DEF Traverse
    <3> HIDE DEF r
    <3> QED BY <1>1, <3>1, <3>2, TabMoves
  <2> QED BY <2>1, <2>2
<1>20. CASE UNCHANGED webVars
  BY <1>20 DEF webVars, WebInv, WebTypeOK, TabsFollow
<1> QED
  BY <1>4, <1>5, <1>6, <1>7, <1>8, <1>9, <1>10, <1>11, <1>12, <1>13, <1>14, <1>15, <1>16, <1>17, <1>18,
     <1>19, <1>20
  DEF WebNext

LEMMA WebInvAlways == WebSpec => []WebInv
BY WebInvInit, WebInvStep, PTL DEF WebSpec

\* The token, the tabs and their requests keep their shape.
THEOREM WebTypeCorrect == WebSpec => []WebTypeOK
<1>1. WebInv => WebTypeOK
  BY DEF WebInv
<1> QED BY <1>1, WebInvAlways, PTL

\* In any number of tabs, back and forward included: a tab shows the account its requests are
\* sent as (useMe.ts, api.ts), unless another tab replaced the token, or somebody else signed
\* in on a page that the history led back to.
THEOREM ShownIsSignedIn == WebSpec => []ShownIsSignedInUnlessDisturbed
<1>1. WebInv => ShownIsSignedInUnlessDisturbed
  BY DEF WebInv, TabsFollow, ShowsCache, Follows, Agrees, ShownIsSignedInUnlessDisturbed
<1> QED BY <1>1, WebInvAlways, PTL

---------------------------------------------------------------------------
(***************************************************************************)
(* CalendarPage.                                                           *)
(***************************************************************************)

PanelType == [open : BOOLEAN, loaded : BOOLEAN, view : Connections, listed : BOOLEAN,
              list : SUBSET Calendars, selected : Calendars \cup {Unset}, busy : BOOLEAN]
PageCall == [op : Changes \cup {"load", "list"}, at : {"sent", "ok", "late"},
             calendar : Calendars \cup {Unset}, read : Connections]

\* What holds of the row and of the page whatever is meddled with.
RowAndPanelOK ==
  /\ conn.account = NoAccount => conn = NoConnection
  /\ ~panel.loaded => panel.view = NoConnection

\* One change runs at a time, beside a list only a test; a page that loads does nothing else.
Orderly ==
  /\ \A c, d \in calls : c.op \in Changes /\ d.op \in Changes => c = d
  /\ \A c, d \in calls : c.op = "list" => d.op \in {"list", "test", "reload"}
  /\ \A c \in calls : c.op = "load" => calls = {c} /\ ~panel.loaded
  /\ \A c \in calls : c.at # "late"
  /\ ~panel.open => calls = {}

\* What a request has read, or sends, is of the row as it is.
CallFollows(c) ==
  /\ c.op \in {"load", "reload", "list"} /\ c.at = "ok" => c.read = conn
  /\ c.op = "list" => c.calendar = conn.calendar
  /\ c.op = "save" =>
       /\ c.calendar = panel.selected \/ picked
       /\ conn # NoConnection =>
            c.calendar \in {Unset, "primary", conn.account} /\ (c.at = "ok" => c.calendar = conn.calendar)
CallsFollow == \A c \in calls : CallFollows(c)

SelectionFollows ==
  /\ conn # NoConnection =>
       /\ panel.list \subseteq {"primary", conn.account}
       /\ panel.selected \in {Unset, "primary", conn.account}
       /\ panel.selected # Unset /\ ~picked => panel.selected = conn.calendar
  /\ panel.open /\ picked => panel.selected # Unset

ViewFollows ==
  panel.loaded /\ ~Running({"disconnect", "reload"}) =>
    /\ panel.view.account = conn.account
    /\ panel.selected = Unset \/ conn = NoConnection => panel.view = conn

PageFollowsRow == TargetIsOwn /\ Orderly /\ CallsFollow /\ SelectionFollows /\ ViewFollows

PageInv == PageTypeOK /\ RowAndPanelOK /\ (~meddled => PageFollowsRow)

LEMMA PageTypes ==
  ASSUME PageTypeOK
  PROVE  /\ conn \in Connections /\ panel \in PanelType /\ calls \subseteq PageCall
         /\ consent \in BOOLEAN /\ picked \in BOOLEAN /\ meddled \in BOOLEAN
BY DEF PageTypeOK, PanelType, PageCall

LEMMA CalendarTypes ==
  /\ Unset \notin Calendars /\ "primary" \in Calendars /\ CalendarAccounts \subseteq Calendars
  /\ NoConnection \in Connections /\ NoConnection.calendar = "primary" /\ NoConnection.account = NoAccount
BY CalendarPageAssumption DEF Unset, Calendars, NoConnection, Connections

LEMMA NewPanelIs ==
  /\ NewPanel \in PanelType /\ NewPanel.open /\ ~NewPanel.loaded /\ NewPanel.view = NoConnection
  /\ NewPanel.list = {} /\ NewPanel.selected = Unset
BY CalendarTypes DEF NewPanel, PanelType

LEMMA RequestIs ==
  ASSUME NEW op \in Changes \cup {"load", "list"}, NEW calendar \in Calendars \cup {Unset}
  PROVE  /\ Request(op, calendar) \in PageCall /\ Request(op, calendar).op = op
         /\ Request(op, calendar).at = "sent" /\ Request(op, calendar).calendar = calendar
BY CalendarTypes DEF Request, PageCall

LEMMA LoadIs ==
  /\ Load \in PageCall /\ Load.op = "load" /\ Load.at = "sent"
  /\ Again \in PageCall /\ Again.op = "reload" /\ Again.at = "sent"
  /\ "load" \notin Changes /\ "list" \notin Changes
<1>1. "load" \in Changes \cup {"load", "list"} /\ "reload" \in Changes \cup {"load", "list"}
      /\ Unset \in Calendars \cup {Unset}
  BY DEF Changes
<1>2. Load \in PageCall /\ Load.op = "load" /\ Load.at = "sent"
  BY <1>1, RequestIs DEF Load
<1>3. Again \in PageCall /\ Again.op = "reload" /\ Again.at = "sent"
  BY <1>1, RequestIs DEF Again
<1> QED BY <1>2, <1>3 DEF Changes

LEMMA LateIs ==
  ASSUME calls \subseteq PageCall
  PROVE  /\ Late \subseteq PageCall
         /\ \A d \in Late : d.at = "late" /\ d.op \in {"save", "disconnect"} /\ \E c \in calls : c.op = d.op
<1> SUFFICES ASSUME NEW d \in Late
             PROVE  d \in PageCall /\ d.at = "late" /\ d.op \in {"save", "disconnect"}
                    /\ \E c \in calls : c.op = d.op
  OBVIOUS
<1>1. PICK c \in calls : c.op \in {"save", "disconnect"} /\ d = [c EXCEPT !.at = "late"]
  BY DEF Late
<1>2. c \in PageCall
  OBVIOUS
<1> QED BY <1>1, <1>2 DEF PageCall

LEMMA ListCallsIs ==
  ASSUME NEW view \in Connections
  PROVE  \A d \in ListCalls(view) :
           d \in PageCall /\ d.op = "list" /\ d.at = "sent" /\ d.calendar = view.calendar
<1>1. view.calendar \in Calendars \cup {Unset}
  BY DEF Connections
<1> QED BY <1>1, RequestIs DEF ListCalls

\* A request that is served waits for its answer to be read, unless nobody does.
LEMMA ServedIs ==
  ASSUME PageTypeOK, NEW c \in calls, NEW read \in Connections, Served(c, read)
  PROVE  /\ calls' \subseteq PageCall /\ c.at # "ok"
         /\ c.at = "sent" =>
              \E d \in PageCall : /\ d.op = c.op /\ d.at = "ok" /\ d.calendar = c.calendar /\ d.read = read
                                  /\ calls' = (calls \ {c}) \cup {d}
<1>1. c \in PageCall /\ calls \subseteq PageCall
  BY PageTypes
<1> DEFINE d == [c EXCEPT !.at = "ok", !.read = read]
<1>2. d \in PageCall /\ d.op = c.op /\ d.at = "ok" /\ d.calendar = c.calendar /\ d.read = read
  BY <1>1 DEF PageCall
<1>3. calls' = (calls \ {c}) \cup {[e EXCEPT !.at = "ok", !.read = read] : e \in {c} \ Late} /\ c.at # "ok"
  BY DEF Served
<1>4. calls' \subseteq (calls \ {c}) \cup {d}
  BY <1>3
<1>5. ASSUME c.at = "sent" PROVE calls' = (calls \ {c}) \cup {d}
  <2>1. c \notin Late
    BY <1>1, <1>5, LateIs
  <2> QED BY <1>3, <2>1
<1> HIDE DEF d
<1> QED BY <1>1, <1>2, <1>3, <1>4, <1>5

LEMMA PageInvInit == PageInit => PageInv
<1> SUFFICES ASSUME PageInit PROVE PageInv
  OBVIOUS
<1>1. PageTypeOK
  BY CalendarTypes, NewPanelIs, LoadIs DEF PageInit, PageTypeOK, PanelType, PageCall
<1>2. RowAndPanelOK
  BY NewPanelIs DEF PageInit, RowAndPanelOK
<1>3. PageFollowsRow
  <2>1. calls = {Load} /\ panel = NewPanel /\ conn = NoConnection
    BY DEF PageInit
  <2>2. Orderly
    BY <2>1, NewPanelIs, LoadIs DEF Orderly
  <2>3. CallsFollow
    BY <2>1, LoadIs DEF CallsFollow, CallFollows, Load
  <2>4. SelectionFollows /\ ViewFollows
    BY <2>1, NewPanelIs DEF SelectionFollows, ViewFollows, PageInit
  <2> QED BY <2>1, <2>2, <2>3, <2>4, CalendarTypes DEF PageFollowsRow, TargetIsOwn
<1> QED BY <1>1, <1>2, <1>3 DEF PageInv

LEMMA PageInvIs ==
  ASSUME PageInv
  PROVE  /\ PageTypeOK /\ RowAndPanelOK
         /\ conn \in Connections /\ panel \in PanelType /\ calls \subseteq PageCall
         /\ consent \in BOOLEAN /\ picked \in BOOLEAN /\ meddled \in BOOLEAN
         /\ ~meddled => PageFollowsRow
BY PageTypes DEF PageInv

\* The three parts of the next state.
LEMMA PageInvNext ==
  ASSUME conn' \in Connections, panel' \in PanelType, calls' \subseteq PageCall,
         consent' \in BOOLEAN, picked' \in BOOLEAN, meddled' \in BOOLEAN, RowAndPanelOK',
         ~meddled' => PageFollowsRow'
  PROVE  PageInv'
BY DEF PageInv, PageTypeOK, PanelType, PageCall

\* A page load: in the new page nothing has been read yet.
LEMMA ReloadStep ==
  ASSUME PageInv, Reload, conn' \in Connections, consent' \in BOOLEAN, meddled' \in BOOLEAN,
         conn'.account = NoAccount => conn' = NoConnection,
         ~meddled' => ~Running(Changes) /\ TargetIsOwn'
  PROVE  PageInv'
<1>1. /\ panel' = NewPanel /\ calls' = Late \cup {Load} /\ picked' = FALSE
      /\ calls' \subseteq PageCall
  BY PageInvIs, LateIs, LoadIs DEF Reload
<1>2. panel' \in PanelType /\ RowAndPanelOK'
  BY <1>1, NewPanelIs DEF RowAndPanelOK
<1>3. ASSUME ~meddled' PROVE PageFollowsRow'
  <2>1. calls' = {Load}
    BY <1>1, <1>3, PageInvIs, LateIs DEF Running, Changes
  <2>2. Orderly'
    BY <1>1, <2>1, NewPanelIs, LoadIs DEF Orderly
  <2>3. CallsFollow'
    BY <2>1, LoadIs DEF CallsFollow, CallFollows
  <2>4. SelectionFollows' /\ ViewFollows'
    BY <1>1, NewPanelIs DEF SelectionFollows, ViewFollows
  <2> QED BY <1>3, <2>2, <2>3, <2>4 DEF PageFollowsRow
<1> QED BY <1>1, <1>2, <1>3, PageInvNext

LEMMA OpenPageStep == ASSUME PageInv, OpenPage PROVE PageInv'
<1>1. /\ Reload /\ conn' = conn /\ consent' = consent /\ meddled' = (meddled \/ Running(Changes))
  BY DEF OpenPage, Meddle
<1>2. ~meddled' => ~Running(Changes) /\ TargetIsOwn'
  BY <1>1, PageInvIs DEF PageFollowsRow, TargetIsOwn
<1>3. meddled' \in BOOLEAN
  BY <1>1
<1> QED BY <1>1, <1>2, <1>3, PageInvIs, ReloadStep DEF RowAndPanelOK

LEMMA OAuthFailsStep == ASSUME PageInv, OAuthFails PROVE PageInv'
<1>1. /\ Reload /\ conn' = conn /\ consent' = consent /\ meddled' = (meddled \/ Running(Changes))
  BY DEF OAuthFails, Meddle
<1>2. ~meddled' => ~Running(Changes) /\ TargetIsOwn'
  BY <1>1, PageInvIs DEF PageFollowsRow, TargetIsOwn
<1>3. meddled' \in BOOLEAN
  BY <1>1
<1> QED BY <1>1, <1>2, <1>3, PageInvIs, ReloadStep DEF RowAndPanelOK

LEMMA CompleteOAuthStep ==
  ASSUME PageInv, NEW account \in CalendarAccounts, CompleteOAuth(account) PROVE PageInv'
<1>1. /\ Reload /\ conn' = [conn EXCEPT !.account = account] /\ consent' = consent
      /\ meddled' = (meddled \/ (conn # NoConnection \/ Running(Changes)))
  BY DEF CompleteOAuth, Meddle, UpsertConnection
<1>2. conn' \in Connections /\ conn'.account = account /\ conn'.calendar = conn.calendar
  BY <1>1, PageInvIs DEF Connections
<1>3. account # NoAccount
  BY CalendarPageAssumption
<1>4. ~meddled' => ~Running(Changes) /\ TargetIsOwn'
  BY <1>1, <1>2, CalendarTypes DEF TargetIsOwn
<1>5. meddled' \in BOOLEAN
  BY <1>1
<1> QED BY <1>1, <1>2, <1>3, <1>4, <1>5, PageInvIs, ReloadStep

LEMMA StateExpiresStep == ASSUME PageInv, StateExpires PROVE PageInv'
BY DEF StateExpires, Choices, PageInv, PageTypeOK, RowAndPanelOK, PageFollowsRow, TargetIsOwn, Orderly,
   CallsFollow, CallFollows, SelectionFollows, ViewFollows, Running

LEMMA OtherProviderStep == ASSUME PageInv, OtherProvider PROVE PageInv'
<1>1. /\ panel' \in PanelType /\ panel'.open = panel.open /\ panel'.loaded = panel.loaded
      /\ panel'.view = panel.view /\ panel'.list = panel.list /\ panel'.selected = panel.selected
  BY PageInvIs DEF OtherProvider, PanelType
<1>2. UNCHANGED <<conn, calls, consent, picked, meddled>>
  BY DEF OtherProvider, Choices
<1>3. RowAndPanelOK'
  BY <1>1, <1>2, PageInvIs DEF RowAndPanelOK
<1>4. ASSUME ~meddled' PROVE PageFollowsRow'
  <2>1. PageFollowsRow
    BY <1>2, <1>4, PageInvIs
  <2> QED BY <1>1, <1>2, <2>1 DEF PageFollowsRow, TargetIsOwn, Orderly, CallsFollow, CallFollows,
             SelectionFollows, ViewFollows, Running
<1> QED BY <1>2, <1>1, <1>3, <1>4, PageInvIs, PageInvNext

\* A button: while nothing is meddled with, no change runs, and no list but beside a test.
LEMMA ClickStep ==
  ASSUME PageInv, NEW op \in {"connect", "disconnect", "save", "test"},
         NEW calendar \in Calendars \cup {Unset}, Click(op, calendar), panel.loaded,
         op = "save" => calendar = panel.selected
  PROVE  PageInv'
<1> DEFINE c == Request(op, calendar)
<1>1. c \in PageCall /\ c.op = op /\ c.at = "sent" /\ c.calendar = calendar /\ op \in Changes
  BY RequestIs DEF Changes
<1>2. /\ panel.open /\ calls' = calls \cup {c} /\ UNCHANGED <<conn, consent, picked>>
      /\ meddled' = (meddled \/ (Running(Changes) \/ (op # "test" /\ Running({"list"}))))
  BY DEF Click, Meddle
<1> HIDE DEF c
<1>3. /\ panel' \in PanelType /\ panel'.open = panel.open /\ panel'.loaded = panel.loaded
      /\ panel'.view = panel.view /\ panel'.list = panel.list /\ panel'.selected = panel.selected
  BY PageInvIs DEF Click, PanelType
<1>4. RowAndPanelOK' /\ calls' \subseteq PageCall /\ meddled' \in BOOLEAN
  BY <1>1, <1>2, <1>3, PageInvIs DEF RowAndPanelOK
<1>5. ASSUME ~meddled' PROVE PageFollowsRow'
  <2>1. /\ PageFollowsRow /\ \A d \in calls : d.op \notin Changes
        /\ op # "test" => \A d \in calls : d.op # "list"
    BY <1>2, <1>5, PageInvIs DEF Running
  <2>2. \A d \in calls : d.op = "list"
    <3> SUFFICES ASSUME NEW d \in calls PROVE d.op = "list"
      OBVIOUS
    <3>1. d.op \in Changes \cup {"load", "list"} /\ d.op # "load"
      BY <2>1, PageInvIs DEF PageCall, PageFollowsRow, Orderly
    <3> QED BY <2>1, <3>1
  <2>3. op # "test" => calls = {}
    BY <2>1, <2>2
  <2>4. Orderly'
    <3>1. \A d, e \in calls' : d.op \in Changes /\ e.op \in Changes => d = e
      BY <1>2, <2>1
    <3>2. \A d, e \in calls' : d.op = "list" => e.op \in {"list", "test", "reload"}
      BY <1>1, <1>2, <2>2, <2>3
    <3>3. \A d \in calls' : d.op # "load" /\ d.at # "late"
      BY <1>1, <1>2, <2>1, <2>2 DEF PageFollowsRow, Orderly
    <3> QED BY <1>2, <1>3, <3>1, <3>2, <3>3 DEF Orderly
  <2>5. CallFollows(c)'
    BY <1>1, <1>2, <1>3, <2>1 DEF CallFollows, PageFollowsRow, SelectionFollows
  <2>6. \A d \in calls : CallFollows(d)'
    BY <1>2, <1>3, <2>1 DEF CallFollows, PageFollowsRow, CallsFollow
  <2>7. CallsFollow'
    BY <1>2, <2>5, <2>6 DEF CallsFollow
  <2>8. SelectionFollows' /\ TargetIsOwn'
    BY <1>2, <1>3, <2>1 DEF PageFollowsRow, SelectionFollows, TargetIsOwn
  <2>9. ViewFollows'
    BY <1>2, <1>3, <2>1, <2>2 DEF PageFollowsRow, ViewFollows, Running
  <2> QED BY <2>4, <2>7, <2>8, <2>9 DEF PageFollowsRow
<1> QED BY <1>2, <1>3, <1>4, <1>5, PageInvIs, PageInvNext

LEMMA SelectStep == ASSUME PageInv, NEW calendar \in Calendars, Select(calendar) PROVE PageInv'
<1>1. /\ panel.open /\ calendar \in panel.list /\ UNCHANGED <<conn, calls, consent>>
      /\ picked' = TRUE /\ meddled' = (meddled \/ Running({"list"}))
  BY DEF Select, Meddle, Connected
<1>2. /\ panel' \in PanelType /\ panel'.open = panel.open /\ panel'.loaded = panel.loaded
      /\ panel'.view = panel.view /\ panel'.list = panel.list /\ panel'.selected = calendar
  BY PageInvIs DEF Select, PanelType
<1>3. RowAndPanelOK' /\ meddled' \in BOOLEAN
  BY <1>1, <1>2, PageInvIs DEF RowAndPanelOK
<1>4. ASSUME ~meddled' PROVE PageFollowsRow'
  <2>1. PageFollowsRow /\ calendar # Unset
    BY <1>1, <1>4, PageInvIs, CalendarTypes
  <2>2. Orderly' /\ TargetIsOwn'
    BY <1>1, <1>2, <2>1 DEF PageFollowsRow, Orderly, TargetIsOwn
  <2>3. CallsFollow'
    BY <1>1, <1>2, <2>1 DEF PageFollowsRow, CallsFollow, CallFollows
  <2>4. SelectionFollows'
    BY <1>1, <1>2, <2>1 DEF PageFollowsRow, SelectionFollows
  <2>5. ViewFollows'
    BY <1>1, <1>2, <2>1 DEF PageFollowsRow, ViewFollows, Running
  <2> QED BY <2>2, <2>3, <2>4, <2>5 DEF PageFollowsRow
<1> QED BY <1>1, <1>2, <1>3, <1>4, PageInvIs, PageInvNext

LEMMA ServedOrderly ==
  ASSUME Orderly, NEW c \in calls, NEW d, d.op = c.op, d.at = "ok", calls' = (calls \ {c}) \cup {d},
         panel' = panel
  PROVE  /\ Orderly' /\ c.at # "late"
         /\ \A ops : Running(ops) => \E e \in calls' : e.op \in ops
<1>1. \A e, f \in calls' : e.op \in Changes /\ f.op \in Changes => e = f
  BY DEF Orderly
<1>2. \A e, f \in calls' : e.op = "list" => f.op \in {"list", "test", "reload"}
  BY DEF Orderly
<1>3. \A e \in calls' : e.op = "load" => calls' = {e} /\ ~panel'.loaded
  BY DEF Orderly
<1>4. \A e \in calls' : e.at # "late"
  BY DEF Orderly
<1>5. ~panel'.open => calls' = {}
  BY DEF Orderly
<1> QED BY <1>1, <1>2, <1>3, <1>4, <1>5 DEF Orderly, Running

\* A change other than a test, and the load of the page, are alone.
LEMMA AloneCall ==
  ASSUME Orderly, calls \subseteq PageCall, NEW c \in calls,
         c.op \in {"connect", "disconnect", "save", "load"}
  PROVE  calls = {c}
<1> SUFFICES ASSUME NEW d \in calls PROVE d = c
  OBVIOUS
<1>1. d.op \in Changes \cup {"load", "list"}
  BY DEF PageCall
<1>2. CASE d.op = "load" \/ c.op = "load"
  BY <1>2 DEF Orderly
<1>3. CASE d.op = "list"
  BY <1>3 DEF Orderly
<1>4. CASE d.op \in Changes /\ c.op # "load"
  <2>1. c.op \in Changes
    BY <1>4 DEF Changes
  <2> QED BY <1>4, <2>1 DEF Orderly
<1> QED BY <1>1, <1>2, <1>3, <1>4

\* The others of a test, or of the load after a change, are lists.
LEMMA ListsBeside ==
  ASSUME Orderly, calls \subseteq PageCall, NEW c \in calls, c.op \in {"test", "reload"}
  PROVE  \A d \in calls \ {c} : d.op = "list"
<1> SUFFICES ASSUME NEW d \in calls, d # c PROVE d.op = "list"
  OBVIOUS
<1>1. d.op \in Changes \cup {"load", "list"} /\ c.op \in Changes
  BY DEF PageCall, Changes
<1> QED BY <1>1 DEF Orderly

LEMMA ServeReadStep == ASSUME PageInv, NEW c \in calls, ServeRead(c) PROVE PageInv'
<1>1. /\ c.op \in {"load", "reload", "list"} /\ Served(c, conn)
      /\ UNCHANGED <<conn, panel, consent, picked, meddled>>
  BY DEF ServeRead, Choices
<1>2. calls' \subseteq PageCall
  BY <1>1, PageInvIs, ServedIs
<1>3. ASSUME ~meddled' PROVE PageFollowsRow'
  <2>1. PageFollowsRow /\ c.at # "late" /\ c \in PageCall
    BY <1>1, <1>3, PageInvIs DEF PageFollowsRow, Orderly
  <2>2. PICK d \in PageCall : /\ d.op = c.op /\ d.at = "ok" /\ d.calendar = c.calendar /\ d.read = conn
                              /\ calls' = (calls \ {c}) \cup {d}
    <3>1. c.at = "sent"
      BY <1>1, <2>1, PageInvIs, ServedIs DEF PageCall
    <3> QED BY <1>1, <3>1, PageInvIs, ServedIs
  <2>3. Orderly' /\ \A ops : Running(ops) => \E e \in calls' : e.op \in ops
    BY <1>1, <2>1, <2>2, ServedOrderly DEF PageFollowsRow
  <2>4. CallFollows(d)' /\ \A e \in calls : CallFollows(e)'
    BY <1>1, <2>1, <2>2 DEF PageFollowsRow, CallsFollow, CallFollows
  <2>5. SelectionFollows' /\ TargetIsOwn'
    BY <1>1, <2>1 DEF PageFollowsRow, SelectionFollows, TargetIsOwn
  <2>6. ViewFollows'
    BY <1>1, <2>1, <2>3 DEF PageFollowsRow, ViewFollows, Running
  <2> QED BY <2>2, <2>3, <2>4, <2>5, <2>6 DEF PageFollowsRow, CallsFollow
<1> QED BY <1>1, <1>2, <1>3, PageInvIs, PageInvNext DEF RowAndPanelOK

LEMMA ServeOtherStep == ASSUME PageInv, NEW c \in calls, ServeOther(c) PROVE PageInv'
<1>1. /\ c.op \in {"connect", "test"} /\ Served(c, NoConnection)
      /\ UNCHANGED <<conn, panel, consent, picked, meddled>>
  BY DEF ServeOther, Choices
<1>2. calls' \subseteq PageCall
  BY <1>1, PageInvIs, ServedIs, CalendarTypes
<1>3. ASSUME ~meddled' PROVE PageFollowsRow'
  <2>1. PageFollowsRow /\ c.at # "late" /\ c \in PageCall
    BY <1>1, <1>3, PageInvIs DEF PageFollowsRow, Orderly
  <2>2. PICK d \in PageCall : /\ d.op = c.op /\ d.at = "ok" /\ d.calendar = c.calendar
                              /\ calls' = (calls \ {c}) \cup {d}
    <3>1. c.at = "sent"
      BY <1>1, <2>1, PageInvIs, ServedIs, CalendarTypes DEF PageCall
    <3> QED BY <1>1, <3>1, PageInvIs, ServedIs, CalendarTypes
  <2>3. Orderly' /\ \A ops : Running(ops) => \E e \in calls' : e.op \in ops
    BY <1>1, <2>1, <2>2, ServedOrderly DEF PageFollowsRow
  <2>4. CallFollows(d)' /\ \A e \in calls : CallFollows(e)'
    BY <1>1, <2>1, <2>2 DEF PageFollowsRow, CallsFollow, CallFollows
  <2>5. SelectionFollows' /\ TargetIsOwn'
    BY <1>1, <2>1 DEF PageFollowsRow, SelectionFollows, TargetIsOwn
  <2>6. ViewFollows'
    BY <1>1, <2>1, <2>3 DEF PageFollowsRow, ViewFollows, Running
  <2> QED BY <2>2, <2>3, <2>4, <2>5, <2>6 DEF PageFollowsRow, CallsFollow
<1> QED BY <1>1, <1>2, <1>3, PageInvIs, PageInvNext DEF RowAndPanelOK

LEMMA ServeDisconnectStep == ASSUME PageInv, NEW c \in calls, ServeDisconnect(c) PROVE PageInv'
<1>1. /\ c.op = "disconnect" /\ Served(c, NoConnection) /\ conn' = NoConnection
      /\ UNCHANGED <<panel, consent, picked, meddled>>
  BY DEF ServeDisconnect, Choices
<1>2. calls' \subseteq PageCall /\ conn' \in Connections
  BY <1>1, PageInvIs, ServedIs, CalendarTypes
<1>3. ASSUME ~meddled' PROVE PageFollowsRow'
  <2>1. PageFollowsRow /\ c.at # "late" /\ c \in PageCall
    BY <1>1, <1>3, PageInvIs DEF PageFollowsRow, Orderly
  <2>2. PICK d \in PageCall : d.op = c.op /\ d.at = "ok" /\ calls' = (calls \ {c}) \cup {d}
    <3>1. c.at = "sent"
      BY <1>1, <2>1, PageInvIs, ServedIs, CalendarTypes DEF PageCall
    <3> QED BY <1>1, <3>1, PageInvIs, ServedIs, CalendarTypes
  <2>3. Orderly' /\ calls' = {d}
    BY <1>1, <2>1, <2>2, PageInvIs, ServedOrderly, AloneCall DEF PageFollowsRow
  <2>4. CallsFollow'
    BY <1>1, <2>2, <2>3 DEF CallsFollow, CallFollows
  <2>5. SelectionFollows' /\ TargetIsOwn'
    BY <1>1, <2>1, CalendarTypes DEF PageFollowsRow, SelectionFollows, TargetIsOwn
  <2>6. ViewFollows'
    BY <1>1, <2>2, <2>3 DEF ViewFollows, Running
  <2> QED BY <2>3, <2>4, <2>5, <2>6 DEF PageFollowsRow
<1> QED BY <1>1, <1>2, <1>3, PageInvIs, PageInvNext DEF RowAndPanelOK

LEMMA SetDefaultStep == ASSUME PageInv, NEW c \in calls, SetDefaultCalendar(c) PROVE PageInv'
<1>1. /\ c.op = "save" /\ c.calendar # Unset /\ Served(c, NoConnection)
      /\ conn' = (IF conn.account = NoAccount THEN conn ELSE [conn EXCEPT !.calendar = c.calendar])
      /\ UNCHANGED <<panel, consent, picked, meddled>>
  BY DEF SetDefaultCalendar, Choices
<1>2. calls' \subseteq PageCall /\ c \in PageCall
  BY <1>1, PageInvIs, ServedIs, CalendarTypes
<1>3. /\ conn' \in Connections /\ conn'.account = conn.account
      /\ conn.account = NoAccount => conn' = conn
      /\ conn.account # NoAccount => conn'.calendar = c.calendar
  BY <1>1, <1>2, PageInvIs DEF Connections, PageCall
<1>4. RowAndPanelOK'
  BY <1>1, <1>3, PageInvIs DEF RowAndPanelOK
<1>5. ASSUME ~meddled' PROVE PageFollowsRow'
  <2>1. PageFollowsRow /\ c.at # "late" /\ CallFollows(c)
    BY <1>1, <1>5, PageInvIs DEF PageFollowsRow, Orderly, CallsFollow
  <2>2. PICK d \in PageCall : /\ d.op = c.op /\ d.at = "ok" /\ d.calendar = c.calendar
                              /\ calls' = (calls \ {c}) \cup {d}
    <3>1. c.at = "sent"
      BY <1>1, <1>2, <2>1, PageInvIs, ServedIs, CalendarTypes DEF PageCall
    <3> QED BY <1>1, <3>1, PageInvIs, ServedIs, CalendarTypes
  <2>3. Orderly' /\ calls' = {d} /\ calls = {c}
    BY <1>1, <2>1, <2>2, PageInvIs, ServedOrderly, AloneCall DEF PageFollowsRow
  <2>4. panel.open /\ (panel.selected = c.calendar \/ picked) /\ panel.selected # Unset
    BY <1>1, <2>1, <2>3 DEF PageFollowsRow, Orderly, CallFollows, SelectionFollows
  <2>5. CASE conn.account = NoAccount
    <3>1. conn' = conn /\ conn = NoConnection
      BY <1>3, <2>5, PageInvIs DEF RowAndPanelOK
    <3>2. CallsFollow'
      BY <1>1, <2>1, <2>2, <2>3, <3>1 DEF CallsFollow, CallFollows
    <3>3. SelectionFollows' /\ TargetIsOwn'
      BY <1>1, <2>1, <3>1 DEF PageFollowsRow, SelectionFollows, TargetIsOwn
    <3>4. ViewFollows'
      BY <1>1, <2>1, <2>2, <2>3, <2>4, <3>1 DEF PageFollowsRow, ViewFollows, Running
    <3> QED BY <2>3, <3>2, <3>3, <3>4 DEF PageFollowsRow
  <2>6. CASE conn.account # NoAccount
    <3>1. conn # NoConnection /\ conn'.calendar = c.calendar
      BY <1>3, <2>6, CalendarTypes
    <3>2. c.calendar \in {"primary", conn.account}
      BY <1>1, <2>1, <3>1 DEF CallFollows
    <3>3. CallsFollow'
      BY <1>1, <1>3, <2>2, <2>3, <2>4, <3>1, <3>2 DEF CallsFollow, CallFollows
    <3>4. SelectionFollows'
      BY <1>1, <1>3, <2>1, <2>4, <3>1 DEF PageFollowsRow, SelectionFollows
    <3>5. TargetIsOwn'
      BY <1>3, <3>1, <3>2 DEF TargetIsOwn
    <3>6. ViewFollows'
      BY <1>1, <1>3, <2>1, <2>2, <2>3, <2>4, <2>6, CalendarTypes DEF PageFollowsRow, ViewFollows, Running
    <3> QED BY <2>3, <3>3, <3>4, <3>5, <3>6 DEF PageFollowsRow
  <2> QED BY <2>5, <2>6
<1> QED BY <1>1, <1>2, <1>3, <1>4, <1>5, PageInvIs, PageInvNext

LEMMA LoadReturnsStep == ASSUME PageInv, NEW c \in calls, LoadReturns(c) PROVE PageInv'
<1> DEFINE busy == panel.busy /\ c.op = "load"
<1>1. /\ c.op \in {"load", "reload"} /\ c.at = "ok" /\ panel.open
      /\ panel' = [panel EXCEPT !.loaded = TRUE, !.view = c.read, !.busy = busy]
      /\ calls' = (calls \ {c}) \cup ListCalls(c.read)
      /\ UNCHANGED <<conn, consent, picked, meddled>>
  BY DEF LoadReturns, Choices
<1>2. c \in PageCall /\ c.read \in Connections /\ busy \in BOOLEAN
  BY PageInvIs DEF PageCall
<1> HIDE DEF busy
<1>3. /\ panel' \in PanelType /\ panel'.open = panel.open /\ panel'.loaded /\ panel'.view = c.read
      /\ panel'.list = panel.list /\ panel'.selected = panel.selected
  BY <1>1, <1>2, PageInvIs DEF PanelType
<1>4. \A d \in ListCalls(c.read) :
        d \in PageCall /\ d.op = "list" /\ d.at = "sent" /\ d.calendar = c.read.calendar
  BY <1>2, ListCallsIs
<1>5. RowAndPanelOK' /\ calls' \subseteq PageCall
  BY <1>1, <1>3, <1>4, PageInvIs DEF RowAndPanelOK
<1>6. ASSUME ~meddled' PROVE PageFollowsRow'
  <2>1. PageFollowsRow /\ c.read = conn
    BY <1>1, <1>6, PageInvIs DEF PageFollowsRow, CallsFollow, CallFollows
  <2>2. \A d \in calls \ {c} : d.op = "list"
    BY <1>1, <2>1, PageInvIs, AloneCall, ListsBeside DEF PageFollowsRow
  <2>3. \A d \in calls' : d.op = "list" /\ d.at # "late"
    BY <1>1, <1>4, <2>1, <2>2 DEF PageFollowsRow, Orderly
  <2>4. Orderly'
    BY <1>1, <1>3, <2>3, LoadIs DEF Orderly
  <2>5. \A d \in calls' : CallFollows(d)'
    BY <1>1, <1>4, <2>1, <2>3 DEF PageFollowsRow, CallsFollow, CallFollows
  <2>6. SelectionFollows' /\ TargetIsOwn'
    BY <1>1, <1>3, <2>1 DEF PageFollowsRow, SelectionFollows, TargetIsOwn
  <2>7. ViewFollows'
    BY <1>1, <1>3, <2>1 DEF ViewFollows
  <2> QED BY <2>4, <2>5, <2>6, <2>7 DEF PageFollowsRow, CallsFollow
<1> QED BY <1>1, <1>3, <1>5, <1>6, PageInvIs, PageInvNext

LEMMA ListReturnsStep == ASSUME PageInv, NEW c \in calls, ListReturns(c) PROVE PageInv'
<1>1. /\ c.op = "list" /\ c.at = "ok" /\ calls' = calls \ {c} /\ picked' = FALSE
      /\ panel' = [panel EXCEPT !.listed = TRUE, !.list = ListCalendars(c.read), !.selected = c.calendar]
      /\ UNCHANGED <<conn, consent, meddled>>
  BY DEF ListReturns
<1>2. c \in PageCall /\ c.read \in Connections /\ c.calendar \in Calendars \cup {Unset}
  BY PageInvIs DEF PageCall
<1>3. ListCalendars(c.read) \subseteq {"primary", c.read.account}
      /\ ListCalendars(c.read) \subseteq Calendars
  BY <1>2, CalendarTypes DEF ListCalendars, Connections
<1> DEFINE list == ListCalendars(c.read)
<1> HIDE DEF list
<1>4. /\ panel' \in PanelType /\ panel'.open = panel.open /\ panel'.loaded = panel.loaded
      /\ panel'.view = panel.view /\ panel'.list = list /\ panel'.selected = c.calendar
  <2>1. panel' = [panel EXCEPT !.listed = TRUE, !.list = list, !.selected = c.calendar]
        /\ list \subseteq Calendars
    BY <1>1, <1>3 DEF list
  <2> QED BY <1>2, <2>1, PageInvIs DEF PanelType
<1>5. RowAndPanelOK' /\ calls' \subseteq PageCall
  BY <1>1, <1>4, PageInvIs DEF RowAndPanelOK
<1>6. ASSUME ~meddled' PROVE PageFollowsRow'
  <2>1. PageFollowsRow /\ c.read = conn /\ c.calendar = conn.calendar
    BY <1>1, <1>6, PageInvIs DEF PageFollowsRow, CallsFollow, CallFollows
  <2>2. conn.calendar \in Calendars /\ list \subseteq {"primary", conn.account}
    BY <1>3, <2>1, PageInvIs DEF Connections, list
  <2>3. \A d \in calls : d.op \in {"list", "test", "reload"}
    BY <1>1, <2>1 DEF PageFollowsRow, Orderly
  <2>4. Orderly'
    BY <1>1, <1>4, <2>1, <2>3 DEF PageFollowsRow, Orderly
  <2>5. CallsFollow'
    BY <1>1, <2>1, <2>3 DEF PageFollowsRow, CallsFollow, CallFollows
  <2>6. SelectionFollows' /\ TargetIsOwn'
    BY <1>1, <1>4, <2>1, <2>2 DEF PageFollowsRow, SelectionFollows, TargetIsOwn
  <2>7. ViewFollows'
    BY <1>1, <1>4, <2>1, <2>2, CalendarTypes DEF PageFollowsRow, ViewFollows, Running
  <2> QED BY <2>4, <2>5, <2>6, <2>7 DEF PageFollowsRow
<1> QED BY <1>1, <1>4, <1>5, <1>6, PageInvIs, PageInvNext

LEMMA ConnectReturnsStep == ASSUME PageInv, NEW c \in calls, ConnectReturns(c) PROVE PageInv'
<1>1. /\ c.op = "connect" /\ consent' = TRUE /\ calls' = Late /\ UNCHANGED <<conn, picked>>
      /\ panel' = [NewPanel EXCEPT !.open = FALSE]
      /\ meddled' = (meddled \/ Running(Changes \ {"connect"}))
  BY DEF ConnectReturns, Meddle
<1>2. /\ panel' \in PanelType /\ ~panel'.open /\ ~panel'.loaded /\ panel'.view = NoConnection
      /\ panel'.list = {} /\ panel'.selected = Unset
  BY <1>1, NewPanelIs DEF PanelType
<1>3. RowAndPanelOK' /\ calls' \subseteq PageCall /\ meddled' \in BOOLEAN
  BY <1>1, <1>2, PageInvIs, LateIs DEF RowAndPanelOK
<1>4. ASSUME ~meddled' PROVE PageFollowsRow'
  <2>1. PageFollowsRow /\ calls' = {}
    BY <1>1, <1>4, PageInvIs, LateIs DEF Running, Changes
  <2>2. Orderly' /\ CallsFollow'
    BY <2>1 DEF Orderly, CallsFollow
  <2>3. SelectionFollows' /\ TargetIsOwn' /\ ViewFollows'
    BY <1>1, <1>2, <2>1 DEF PageFollowsRow, SelectionFollows, TargetIsOwn, ViewFollows
  <2> QED BY <2>2, <2>3 DEF PageFollowsRow
<1> QED BY <1>1, <1>2, <1>3, <1>4, PageInvIs, PageInvNext

LEMMA DisconnectReturnsStep == ASSUME PageInv, NEW c \in calls, DisconnectReturns(c) PROVE PageInv'
<1>1. /\ c.op = "disconnect" /\ calls' = (calls \ {c}) \cup {Again}
      /\ panel' = [panel EXCEPT !.listed = TRUE, !.list = {}]
      /\ UNCHANGED <<conn, consent, picked, meddled>>
  BY DEF DisconnectReturns, Choices
<1>2. /\ panel' \in PanelType /\ panel'.open = panel.open /\ panel'.loaded = panel.loaded
      /\ panel'.view = panel.view /\ panel'.list = {} /\ panel'.selected = panel.selected
  BY <1>1, PageInvIs DEF PanelType
<1>3. RowAndPanelOK' /\ calls' \subseteq PageCall
  BY <1>1, <1>2, PageInvIs, LoadIs DEF RowAndPanelOK
<1>4. ASSUME ~meddled' PROVE PageFollowsRow'
  <2>1. PageFollowsRow /\ calls' = {Again} /\ panel.open
    BY <1>1, <1>4, PageInvIs, AloneCall DEF PageFollowsRow, Orderly
  <2>2. Orderly' /\ CallsFollow'
    BY <1>2, <2>1, LoadIs DEF Orderly, CallsFollow, CallFollows
  <2>3. SelectionFollows' /\ TargetIsOwn'
    BY <1>1, <1>2, <2>1 DEF PageFollowsRow, SelectionFollows, TargetIsOwn
  <2>4. ViewFollows'
    BY <2>1, LoadIs DEF ViewFollows, Running
  <2> QED BY <2>2, <2>3, <2>4 DEF PageFollowsRow
<1> QED BY <1>1, <1>2, <1>3, <1>4, PageInvIs, PageInvNext

LEMMA SaveReturnsStep == ASSUME PageInv, NEW c \in calls, SaveReturns(c) PROVE PageInv'
<1>1. /\ c.op = "save" /\ c.at = "ok" /\ calls' = calls \ {c}
      /\ panel' = [panel EXCEPT !.busy = FALSE]
      /\ picked' = (picked /\ panel.selected # c.calendar)
      /\ UNCHANGED <<conn, consent, meddled>>
  BY DEF SaveReturns
<1>2. /\ panel' \in PanelType /\ panel'.open = panel.open /\ panel'.loaded = panel.loaded
      /\ panel'.view = panel.view /\ panel'.list = panel.list /\ panel'.selected = panel.selected
  BY <1>1, PageInvIs DEF PanelType
<1>3. RowAndPanelOK' /\ calls' \subseteq PageCall /\ picked' \in BOOLEAN
  BY <1>1, <1>2, PageInvIs DEF RowAndPanelOK
<1>4. ASSUME ~meddled' PROVE PageFollowsRow'
  <2>1. PageFollowsRow /\ calls = {c} /\ calls' = {}
    BY <1>1, <1>4, PageInvIs, AloneCall DEF PageFollowsRow
  <2>2. Orderly' /\ CallsFollow'
    BY <2>1 DEF Orderly, CallsFollow
  <2>3. CallFollows(c)
    BY <2>1 DEF PageFollowsRow, CallsFollow
  <2>4. SelectionFollows'
    BY <1>1, <1>2, <2>1, <2>3 DEF PageFollowsRow, SelectionFollows, CallFollows
  <2>5. TargetIsOwn'
    BY <1>1, <2>1 DEF PageFollowsRow, TargetIsOwn
  <2>6. ViewFollows'
    BY <1>1, <1>2, <2>1 DEF PageFollowsRow, ViewFollows, Running
  <2> QED BY <2>2, <2>4, <2>5, <2>6 DEF PageFollowsRow
<1> QED BY <1>1, <1>2, <1>3, <1>4, PageInvIs, PageInvNext

LEMMA TestReturnsStep == ASSUME PageInv, NEW c \in calls, TestReturns(c) PROVE PageInv'
<1>1. /\ c.op = "test" /\ calls' = (calls \ {c}) \cup {Again}
      /\ UNCHANGED <<conn, panel, consent, picked, meddled>>
  BY DEF TestReturns, Choices
<1>2. RowAndPanelOK' /\ calls' \subseteq PageCall
  BY <1>1, PageInvIs, LoadIs DEF RowAndPanelOK
<1>3. ASSUME ~meddled' PROVE PageFollowsRow'
  <2>1. PageFollowsRow /\ panel.open /\ \A d \in calls \ {c} : d.op = "list" /\ d.at # "late"
    BY <1>1, <1>3, PageInvIs, ListsBeside DEF PageFollowsRow, Orderly
  <2>2. \A d \in calls' : d = Again \/ (d \in calls /\ d.op = "list" /\ d.at # "late")
    BY <1>1, <2>1
  <2>3. Orderly'
    BY <1>1, <2>1, <2>2, LoadIs DEF Orderly
  <2>4. CallsFollow'
    BY <1>1, <2>1, <2>2, LoadIs DEF PageFollowsRow, CallsFollow, CallFollows
  <2>5. SelectionFollows' /\ TargetIsOwn'
    BY <1>1, <2>1 DEF PageFollowsRow, SelectionFollows, TargetIsOwn
  <2>6. ViewFollows'
    BY <1>1, LoadIs DEF ViewFollows, Running
  <2> QED BY <2>3, <2>4, <2>5, <2>6 DEF PageFollowsRow
<1> QED BY <1>1, <1>2, <1>3, PageInvIs, PageInvNext

LEMMA AnswerFailsStep == ASSUME PageInv, NEW c \in calls, AnswerFails(c) PROVE PageInv'
<1>1. /\ \/ calls' = calls \ {c}
         \/ calls' = (calls \ {c}) \cup {d \in Late : d = [c EXCEPT !.at = "late"]}
      /\ panel' = (IF c.op \in {"load", "list"} THEN panel ELSE [panel EXCEPT !.busy = FALSE])
      /\ meddled' = (meddled \/ c.op \in {"reload", "save", "disconnect"})
      /\ UNCHANGED <<conn, consent, picked>>
  BY DEF AnswerFails, Meddle
<1>2. /\ panel' \in PanelType /\ panel'.open = panel.open /\ panel'.loaded = panel.loaded
      /\ panel'.view = panel.view /\ panel'.list = panel.list /\ panel'.selected = panel.selected
  BY <1>1, PageInvIs DEF PanelType
<1>3. RowAndPanelOK' /\ calls' \subseteq PageCall /\ meddled' \in BOOLEAN
  BY <1>1, <1>2, PageInvIs, LateIs DEF RowAndPanelOK
<1>4. ASSUME ~meddled' PROVE PageFollowsRow'
  <2>1. PageFollowsRow /\ c \in PageCall /\ c.op \notin {"reload", "save", "disconnect"}
    BY <1>1, <1>4, PageInvIs
  <2>2. calls' = calls \ {c}
    <3>1. ASSUME NEW d \in Late, d = [c EXCEPT !.at = "late"] PROVE FALSE
      <4>1. d.op = c.op
        BY <2>1, <3>1 DEF PageCall
      <4> QED BY <2>1, <4>1, PageInvIs, LateIs
    <3> QED BY <1>1, <3>1
  <2>3. Orderly'
    BY <1>2, <2>1, <2>2 DEF PageFollowsRow, Orderly
  <2>4. CallsFollow'
    BY <1>1, <1>2, <2>1, <2>2 DEF PageFollowsRow, CallsFollow, CallFollows
  <2>5. SelectionFollows' /\ TargetIsOwn'
    BY <1>1, <1>2, <2>1 DEF PageFollowsRow, SelectionFollows, TargetIsOwn
  <2>6. ViewFollows'
    BY <1>1, <1>2, <2>1, <2>2 DEF PageFollowsRow, ViewFollows, Running
  <2> QED BY <2>3, <2>4, <2>5, <2>6 DEF PageFollowsRow
<1> QED BY <1>1, <1>2, <1>3, <1>4, PageInvIs, PageInvNext

LEMMA PageInvStep == PageInv /\ [PageNext]_pageVars => PageInv'
<1> SUFFICES ASSUME PageInv, [PageNext]_pageVars PROVE PageInv'
  OBVIOUS
<1>1. CASE OpenPage \/ OAuthFails \/ StateExpires \/ OtherProvider
  BY <1>1, OpenPageStep, OAuthFailsStep, StateExpiresStep, OtherProviderStep
<1>2. CASE Connect \/ Disconnect \/ SaveDefault \/ Test
  <2>1. panel.view # NoConnection => panel.loaded
    BY PageInvIs DEF RowAndPanelOK
  <2>2. panel.selected \in Calendars \cup {Unset}
    BY PageInvIs DEF PanelType
  <2>3. CASE Connect
    BY <2>3, ClickStep DEF Connect
  <2>4. CASE Disconnect
    BY <2>1, <2>4, ClickStep DEF Disconnect, Connected
  <2>5. CASE SaveDefault
    BY <2>1, <2>2, <2>5, ClickStep DEF SaveDefault, Connected
  <2>6. CASE Test
    BY <2>1, <2>6, ClickStep DEF Test, Connected
  <2> QED BY <1>2, <2>3, <2>4, <2>5, <2>6
<1>3. ASSUME NEW calendar \in Calendars, Select(calendar) PROVE PageInv'
  BY <1>3, SelectStep
<1>4. ASSUME NEW account \in CalendarAccounts, CompleteOAuth(account) PROVE PageInv'
  BY <1>4, CompleteOAuthStep
<1>5. ASSUME NEW c \in calls, ServeRead(c) \/ ServeOther(c) \/ ServeDisconnect(c) \/ SetDefaultCalendar(c)
      PROVE PageInv'
  BY <1>5, ServeReadStep, ServeOtherStep, ServeDisconnectStep, SetDefaultStep
<1>6. ASSUME NEW c \in calls,
             LoadReturns(c) \/ ListReturns(c) \/ ConnectReturns(c) \/ DisconnectReturns(c)
      PROVE PageInv'
  BY <1>6, LoadReturnsStep, ListReturnsStep, ConnectReturnsStep, DisconnectReturnsStep
<1>7. ASSUME NEW c \in calls, SaveReturns(c) \/ TestReturns(c) \/ AnswerFails(c) PROVE PageInv'
  BY <1>7, SaveReturnsStep, TestReturnsStep, AnswerFailsStep
<1>8. CASE UNCHANGED pageVars
  BY <1>8 DEF pageVars, PageInv, PageTypeOK, RowAndPanelOK, PageFollowsRow, TargetIsOwn, Orderly,
     CallsFollow, CallFollows, SelectionFollows, ViewFollows, Running
<1> QED BY <1>1, <1>2, <1>3, <1>4, <1>5, <1>6, <1>7, <1>8 DEF PageNext

LEMMA PageInvAlways == PageSpec => []PageInv
BY PageInvInit, PageInvStep, PTL DEF PageSpec

\* The row, the page and its requests keep their shape.
THEOREM PageTypeCorrect == PageSpec => []PageTypeOK
<1>1. PageInv => PageTypeOK
  BY DEF PageInv
<1> QED BY <1>1, PageInvAlways, PTL

\* Through any number of connections and disconnections, in whatever accounts: appointments
\* go into a calendar of the connected account, and the page at rest selects the one they
\* go into, unless requests overlap, a consent is given twice or an answer is lost
\* (integrations.ts, company/integrations/page.tsx).
THEOREM DefaultHolds == PageSpec => []DefaultHoldsUnlessMeddled
<1>1. PageInv => DefaultHoldsUnlessMeddled
  <2> SUFFICES ASSUME PageInv, ~meddled
               PROVE  /\ TargetIsOwn
                      /\ Connected /\ calls = {} /\ ~picked =>
                           conn.account = panel.view.account /\ conn.calendar = Shows
    BY DEF DefaultHoldsUnlessMeddled
  <2>1. PageFollowsRow
    BY PageInvIs
  <2>2. ASSUME Connected, calls = {}, ~picked
        PROVE  conn.account = panel.view.account /\ conn.calendar = Shows
    <3>1. panel.loaded
      BY <2>2, PageInvIs DEF Connected, RowAndPanelOK
    <3>2. /\ panel.view.account = conn.account
          /\ panel.selected = Unset \/ conn = NoConnection => panel.view = conn
      BY <2>1, <2>2, <3>1 DEF PageFollowsRow, ViewFollows, Running
    <3>3. conn # NoConnection
      BY <2>2, <3>2 DEF Connected
    <3> QED BY <2>1, <2>2, <3>2, <3>3 DEF PageFollowsRow, SelectionFollows, Shows
  <2> QED BY <2>1, <2>2 DEF PageFollowsRow
<1> QED BY <1>1, PageInvAlways, PTL

---------------------------------------------------------------------------
(***************************************************************************)
(* NumberWizard.                                                           *)
(***************************************************************************)

WizardType == [mode : Modes \cup {"unopened", "closed"}, own : BOOLEAN, assistant : BOOLEAN,
               busy : BOOLEAN, results : SUBSET DidsToBuy, routing : SUBSET {PoolNumber}]
CallType == [kind : {"none", "keep", "search", "buy"}, at : {"idle", "sent", "ok", "error"},
             number : DidsToBuy \cup {PoolNumber}]

\* The request of w has brought a number, and its answer is on the way.
Delivers(w) == call[w].kind # "search" /\ call[w].at = "ok"

\* A request belongs to an opening that was begun, and occupies it while it is on the page.
OpeningOK(w) ==
  /\ current # w => wizard[w].mode \in {"unopened", "closed"}
  /\ current = w => wizard[w].mode \in Modes
  /\ wizard[w].mode = "unopened" => call[w] = NoCall
  /\ call[w].kind = "keep" => call[w].number = PoolNumber
  /\ current = w /\ call[w] # NoCall => wizard[w].busy /\ wizard[w].mode # "forward-done"
  /\ ~leftEarly /\ call[w] # NoCall => current = w

\* An opening asks for a number only as long as it has none.
NumberOK(w) ==
  /\ call[w] # NoCall /\ ~Delivers(w) => CreatedBy(w) = {}
  /\ CreatedBy(w) # {} =>
       Delivers(w) \/ wizard[w].mode = "closed" \/ (current = w /\ wizard[w].mode = "forward-done")
  /\ \A c, d \in CreatedBy(w) : c = d
  /\ call[w] = NoCall /\ ~leftEarly => CreatedBy(w) \subseteq listed \/ Announces(w)

WizardInv ==
  /\ WizardTypeOK
  /\ \A w \in Wizards : OpeningOK(w) /\ (w \notin lost => NumberOK(w))

LEMMA WizardTypes ==
  ASSUME WizardInv
  PROVE  /\ assistantCount \in 0 .. 2 /\ provisioning \in BOOLEAN /\ current \in Wizards \cup {NoWizard}
         /\ wizard \in [Wizards -> WizardType] /\ call \in [Wizards -> CallType]
         /\ created \subseteq Wizards \X (DidsToBuy \cup {PoolNumber}) /\ listed \subseteq created
         /\ lost \subseteq Wizards /\ leftEarly \in BOOLEAN
         /\ \A w \in Wizards : OpeningOK(w) /\ (w \notin lost => NumberOK(w))
BY DEF WizardInv, WizardTypeOK, WizardType, CallType

LEMMA WizardInvNext ==
  ASSUME UNCHANGED <<assistantCount, provisioning>>, WizardInv, current' \in Wizards \cup {NoWizard},
         wizard' \in [Wizards -> WizardType], call' \in [Wizards -> CallType],
         created' \subseteq Wizards \X (DidsToBuy \cup {PoolNumber}), listed' \subseteq created',
         lost' \subseteq Wizards, leftEarly' \in BOOLEAN,
         \A w \in Wizards : OpeningOK(w)' /\ (w \notin lost' => NumberOK(w)')
  PROVE  WizardInv'
BY DEF WizardInv, WizardTypeOK, WizardType, CallType

LEMMA NewWizardIs ==
  ASSUME assistantCount \in 0 .. 2
  PROVE  /\ NewWizard \in WizardType /\ NewWizard.mode = "choose"
         /\ \A mode \in {"unopened", "closed"} :
              Unmounted(mode) \in WizardType /\ Unmounted(mode).mode = mode
         /\ NoCall \in CallType /\ NoCall.at = "idle" /\ NoCall.kind = "none"
         /\ "choose" \in Modes /\ "forward-done" \in Modes
         /\ "unopened" \notin Modes /\ "closed" \notin Modes
<1>1. (assistantCount = 1) \in BOOLEAN
  OBVIOUS
<1>2. NewWizard \in WizardType /\ NewWizard.mode = "choose"
  BY <1>1 DEF NewWizard, WizardType, Modes
<1>3. \A mode \in {"unopened", "closed"} : Unmounted(mode) \in WizardType /\ Unmounted(mode).mode = mode
  BY DEF Unmounted, WizardType
<1>4. NoCall \in CallType /\ NoCall.at = "idle" /\ NoCall.kind = "none"
  BY DEF NoCall, CallType
<1> QED BY <1>2, <1>3, <1>4 DEF Modes

LEMMA WizardInvInit == WizardInit => WizardInv
<1> SUFFICES ASSUME WizardInit PROVE WizardInv
  OBVIOUS
<1>1. assistantCount \in 0 .. 2
  BY DEF WizardInit
<1>2. /\ wizard \in [Wizards -> WizardType] /\ call \in [Wizards -> CallType]
      /\ \A w \in Wizards : wizard[w].mode = "unopened" /\ call[w] = NoCall
  BY <1>1, NewWizardIs DEF WizardInit
<1>3. \A w \in Wizards : OpeningOK(w) /\ NumberOK(w)
  BY <1>1, <1>2, NewWizardIs, WizardAssumption DEF WizardInit, OpeningOK, NumberOK, CreatedBy, Delivers
<1>4. WizardTypeOK
  BY <1>2 DEF WizardInit, WizardTypeOK, WizardType, CallType
<1> QED BY <1>3, <1>4 DEF WizardInv

\* An opening that a step leaves alone.
Untouched(v) ==
  /\ wizard'[v] = wizard[v] /\ call'[v] = call[v] /\ (v \notin lost' => v \notin lost)
  /\ CreatedBy(v)' = CreatedBy(v) /\ (current' = v <=> current = v)

LEMMA UntouchedStays ==
  ASSUME WizardInv, NEW v \in Wizards, Untouched(v), leftEarly => leftEarly', listed \subseteq listed'
  PROVE  OpeningOK(v)' /\ (v \notin lost' => NumberOK(v)')
<1>1. OpeningOK(v) /\ (v \notin lost => NumberOK(v))
  BY DEF WizardInv
<1>2. OpeningOK(v)'
  BY <1>1 DEF Untouched, OpeningOK
<1>3. ASSUME v \notin lost' PROVE NumberOK(v)'
  BY <1>1, <1>3 DEF Untouched, NumberOK, Delivers, Announces
<1> QED BY <1>2, <1>3

LEMMA CreatedStays == created' = created => \A v \in Wizards : CreatedBy(v)' = CreatedBy(v)
BY DEF CreatedBy

\* A step of the user in the wizard on the page, w, that stays there and sends nothing.
LEMMA InWizardStep ==
  ASSUME WizardInv, NEW w \in Wizards, current = w, NEW r \in WizardType,
         wizard' = [wizard EXCEPT ![w] = r], r.mode \in Modes, r.busy = wizard[w].busy,
         r.mode = "forward-done" => call[w] = NoCall,
         wizard[w].mode = "forward-done" => r = wizard[w],
         UNCHANGED <<assistantCount, provisioning, current, call, created, listed, lost, leftEarly>>
  PROVE  WizardInv'
<1>1. wizard' \in [Wizards -> WizardType] /\ wizard'[w] = r
      /\ \A v \in Wizards \ {w} : wizard'[v] = wizard[v]
  BY WizardTypes
<1>2. ASSUME NEW v \in Wizards, v # w PROVE OpeningOK(v)' /\ (v \notin lost' => NumberOK(v)')
  <2>1. Untouched(v)
    BY <1>1, <1>2, CreatedStays DEF Untouched
  <2> QED BY <2>1, UntouchedStays
<1>3. OpeningOK(w)'
  BY <1>1, WizardTypes, NewWizardIs DEF OpeningOK
<1>4. ASSUME w \notin lost PROVE NumberOK(w)'
  <2>1. NumberOK(w) /\ CreatedBy(w)' = CreatedBy(w) /\ OpeningOK(w) /\ (Delivers(w)' <=> Delivers(w))
    BY <1>4, WizardTypes, CreatedStays DEF Delivers
  <2>2. wizard[w].mode # "closed"
    BY <2>1, WizardTypes, NewWizardIs DEF OpeningOK
  <2>3. Announces(w) => Announces(w)'
    BY <1>1 DEF Announces
  <2> QED BY <1>1, <2>1, <2>2, <2>3 DEF NumberOK
<1> QED BY <1>1, <1>2, <1>3, <1>4, WizardTypes, WizardInvNext

LEMMA OpenWizardStep == ASSUME WizardInv, NEW w \in Wizards, OpenWizard(w) PROVE WizardInv'
<1>1. /\ current = NoWizard /\ wizard[w].mode = "unopened" /\ current' = w
      /\ wizard' = [wizard EXCEPT ![w] = NewWizard]
      /\ UNCHANGED <<assistantCount, provisioning, call, created, listed, lost, leftEarly>>
  BY DEF OpenWizard, Config, Server
<1>2. /\ wizard' \in [Wizards -> WizardType] /\ wizard'[w].mode = "choose" /\ call'[w] = NoCall
      /\ \A v \in Wizards \ {w} : wizard'[v] = wizard[v]
  BY <1>1, WizardTypes, NewWizardIs DEF OpeningOK
<1>3. ASSUME NEW v \in Wizards, v # w PROVE OpeningOK(v)' /\ (v \notin lost' => NumberOK(v)')
  <2>1. Untouched(v)
    BY <1>1, <1>2, <1>3, CreatedStays, WizardAssumption DEF Untouched
  <2> QED BY <1>1, <2>1, UntouchedStays
<1>4. OpeningOK(w)'
  BY <1>1, <1>2, WizardTypes, NewWizardIs DEF OpeningOK
<1>5. ASSUME w \notin lost PROVE NumberOK(w)'
  <2>1. ~Delivers(w) /\ call[w] = NoCall
    BY <1>1, <1>2, WizardTypes, NewWizardIs DEF Delivers
  <2>2. CreatedBy(w)' = {}
    BY <1>1, <1>5, <2>1, WizardTypes, WizardAssumption, CreatedStays DEF NumberOK
  <2> QED BY <1>1, <2>1, <2>2 DEF NumberOK
<1> QED BY <1>1, <1>2, <1>3, <1>4, <1>5, WizardTypes, WizardInvNext

\* The page has no wizard any more: what a wizard had to say that was closed early does not
\* count, the others had said it.
LEMMA UnmountStep ==
  ASSUME WizardInv, Unmount, call' \in [Wizards -> CallType], \A w \in Wizards : call'[w] \in {call[w], NoCall},
         listed \subseteq listed', listed' \subseteq created, leftEarly' \in BOOLEAN, leftEarly => leftEarly',
         UNCHANGED <<assistantCount, provisioning, created, lost>>,
         \A w \in Wizards : ~leftEarly' => call'[w] = NoCall,
         \A w \in Wizards : ~leftEarly' => listed' = created \/ (~Announces(w) /\ call[w] = NoCall)
  PROVE  WizardInv'
<1>1. current' = NoWizard /\ \A w \in Wizards : current' # w
  BY WizardAssumption DEF Unmount
<1>2. /\ wizard' \in [Wizards -> WizardType]
      /\ \A w \in Wizards : wizard'[w] = IF w = current THEN Unmounted("closed") ELSE wizard[w]
  BY WizardTypes, NewWizardIs DEF Unmount
<1>3. \A w \in Wizards : w = current => wizard'[w].mode = "closed"
  BY <1>2, WizardTypes, NewWizardIs
<1>4. ASSUME NEW w \in Wizards PROVE OpeningOK(w)' /\ (w \notin lost' => NumberOK(w)')
  <2>1. OpeningOK(w) /\ (w \notin lost => NumberOK(w)) /\ CreatedBy(w)' = CreatedBy(w)
    BY WizardTypes, CreatedStays
  <2>2. wizard'[w].mode \in {"unopened", "closed"}
    BY <1>2, <1>3, <2>1 DEF OpeningOK
  <2>3. wizard'[w].mode = "unopened" => call'[w] = NoCall
    BY <1>2, <1>3, <2>1 DEF OpeningOK
  <2>4. OpeningOK(w)'
    <3>1. call'[w].kind = "keep" => call'[w].number = PoolNumber
      BY <2>1, WizardTypes, NewWizardIs DEF OpeningOK
    <3> QED BY <1>1, <2>2, <2>3, <3>1, NewWizardIs, WizardTypes DEF OpeningOK
  <2>5. ASSUME w \notin lost PROVE NumberOK(w)'
    <3>1. NumberOK(w)
      BY <2>1, <2>5
    <3>2. call'[w] # NoCall => call'[w] = call[w]
      OBVIOUS
    <3>3. CreatedBy(w)' # {} => wizard'[w].mode = "closed"
      <4>1. CASE wizard[w].mode = "unopened"
        <5>1. call[w] = NoCall /\ ~Delivers(w)
          BY <2>1, <4>1, WizardTypes, NewWizardIs DEF OpeningOK, Delivers
        <5>2. CreatedBy(w) = {}
          BY <3>1, <4>1, <5>1 DEF NumberOK
        <5> QED BY <2>1, <5>2
      <4>2. CASE wizard[w].mode # "unopened"
        BY <1>2, <1>3, <2>2, <4>2
      <4> QED BY <4>1, <4>2
    <3>4. CreatedBy(w)' \subseteq listed' \/ leftEarly'
      <4>1. CreatedBy(w) \subseteq created
        BY DEF CreatedBy
      <4> QED BY <2>1, <3>1, <4>1 DEF NumberOK
    <3>5. call'[w] # NoCall /\ ~Delivers(w)' => CreatedBy(w)' = {}
      BY <2>1, <3>1, <3>2 DEF NumberOK, Delivers
    <3> QED BY <2>1, <3>1, <3>3, <3>4, <3>5 DEF NumberOK
  <2> QED BY <2>4, <2>5
<1> QED BY <1>1, <1>2, <1>4, WizardTypes, WizardInvNext

LEMMA SendStep ==
  ASSUME WizardInv, NEW w \in Wizards, NEW kind \in {"keep", "search", "buy"},
         NEW number \in DidsToBuy \cup {PoolNumber}, current = w, ~wizard[w].busy,
         wizard[w].mode # "forward-done", kind = "keep" => number = PoolNumber, Send(w, kind, number)
  PROVE  WizardInv'
<1> DEFINE r == [kind |-> kind, at |-> "sent", number |-> number]
<1>1. /\ wizard' = [wizard EXCEPT ![w].busy = TRUE] /\ call' = [call EXCEPT ![w] = r]
      /\ UNCHANGED <<assistantCount, provisioning, current, created, listed, lost, leftEarly>>
  BY DEF Send, Config
<1>2. r \in CallType /\ r.at = "sent" /\ r.kind = kind /\ r.number = number
  BY DEF CallType
<1> HIDE DEF r
<1>3. /\ wizard' \in [Wizards -> WizardType] /\ wizard'[w].busy /\ wizard'[w].mode = wizard[w].mode
      /\ \A v \in Wizards \ {w} : wizard'[v] = wizard[v] /\ call'[v] = call[v]
      /\ call' \in [Wizards -> CallType] /\ call'[w] = r
  BY <1>1, <1>2, WizardTypes DEF WizardType
<1>4. ASSUME NEW v \in Wizards, v # w PROVE OpeningOK(v)' /\ (v \notin lost' => NumberOK(v)')
  <2>1. Untouched(v)
    BY <1>1, <1>3, <1>4, CreatedStays DEF Untouched
  <2> QED BY <1>1, <2>1, UntouchedStays
<1>5. OpeningOK(w) /\ (w \notin lost => NumberOK(w)) /\ CreatedBy(w)' = CreatedBy(w)
  BY <1>1, WizardTypes, CreatedStays
<1>6. call[w] = NoCall /\ wizard[w].mode \in Modes /\ ~Delivers(w) /\ call'[w] # NoCall
  BY <1>2, <1>3, <1>5, WizardTypes, NewWizardIs DEF OpeningOK, Delivers
<1>7. OpeningOK(w)'
  BY <1>1, <1>2, <1>3, <1>6, WizardTypes, NewWizardIs DEF OpeningOK
<1>8. ASSUME w \notin lost PROVE NumberOK(w)'
  <2>1. CreatedBy(w) = {}
    BY <1>5, <1>6, <1>8, WizardTypes, NewWizardIs DEF NumberOK
  <2> QED BY <1>5, <1>6, <2>1 DEF NumberOK
<1> QED BY <1>1, <1>3, <1>4, <1>7, <1>8, WizardTypes, WizardInvNext

LEMMA ServeStep == ASSUME WizardInv, NEW w \in Wizards, Serve(w) PROVE WizardInv'
<1>1. /\ call[w].at = "sent"
      /\ UNCHANGED <<assistantCount, provisioning, current, wizard, listed, lost, leftEarly>>
  BY DEF Serve, Config
<1>2. PICK at \in {"ok", "error"} :
        /\ call' = [call EXCEPT ![w].at = at]
        /\ \/ at = "ok" /\ call[w].kind # "search" /\ created' = created \cup {<<w, call[w].number>>}
           \/ (at = "error" \/ call[w].kind = "search") /\ created' = created
  BY DEF Serve
<1>3. /\ call' \in [Wizards -> CallType] /\ call'[w].at = at /\ call'[w].kind = call[w].kind
      /\ call'[w].number = call[w].number
      /\ \A v \in Wizards \ {w} : call'[v] = call[v]
  BY <1>2, WizardTypes DEF CallType
<1>4. created' \subseteq Wizards \X (DidsToBuy \cup {PoolNumber}) /\ listed' \subseteq created'
  BY <1>1, <1>2, WizardTypes DEF CallType
<1>5. OpeningOK(w) /\ (w \notin lost => NumberOK(w)) /\ call[w] # NoCall /\ call'[w] # NoCall /\ ~Delivers(w)
  BY <1>1, <1>3, WizardTypes, NewWizardIs DEF Delivers
<1>6. ASSUME NEW v \in Wizards, v # w PROVE OpeningOK(v)' /\ (v \notin lost' => NumberOK(v)')
  <2>1. CreatedBy(v)' = CreatedBy(v)
    BY <1>2, <1>6 DEF CreatedBy
  <2>2. Untouched(v)
    BY <1>1, <1>3, <1>6, <2>1 DEF Untouched
  <2> QED BY <1>1, <2>2, UntouchedStays
<1>7. OpeningOK(w)'
  BY <1>1, <1>3, <1>5 DEF OpeningOK
<1>8. ASSUME w \notin lost PROVE NumberOK(w)'
  <2>1. CreatedBy(w) = {}
    BY <1>5, <1>8 DEF NumberOK
  <2>2. CASE at = "ok" /\ call[w].kind # "search" /\ created' = created \cup {<<w, call[w].number>>}
    <3>1. CreatedBy(w)' \subseteq {<<w, call[w].number>>}
      BY <2>1, <2>2 DEF CreatedBy
    <3>2. Delivers(w)'
      BY <1>3, <2>2 DEF Delivers
    <3> QED BY <1>5, <3>1, <3>2 DEF NumberOK
  <2>3. CASE created' = created
    <3>1. CreatedBy(w)' = {}
      BY <2>1, <2>3, CreatedStays
    <3> QED BY <3>1, <1>5 DEF NumberOK
  <2> QED BY <1>2, <2>2, <2>3
<1> QED BY <1>1, <1>3, <1>4, <1>6, <1>7, <1>8, WizardTypes, WizardInvNext

\* The answer of a request, and what becomes of the opening w that asked, if it is still there.
LEMMA AnsweredStep ==
  ASSUME WizardInv, NEW w \in Wizards, NEW r \in WizardType, Answered(w), SetState(w, r),
         r.mode \in Modes \/ current # w, lost' \subseteq Wizards, lost \subseteq lost',
         UNCHANGED <<current, listed, leftEarly>>, w \notin lost' /\ Delivers(w) => r.mode = "forward-done" /\ r.routing # {},
         wizard[w].mode = "forward-done" /\ current = w => r.mode = "forward-done" /\ r.routing = wizard[w].routing,
         (r.mode = "forward-done" /\ r.routing # {}) \/ r.mode = wizard[w].mode,
         \A v \in Wizards \ {w} : v \in lost' => v \in lost,
         call[w] # NoCall
  PROVE  WizardInv'
<1>1. /\ call' = [call EXCEPT ![w] = NoCall] /\ UNCHANGED <<assistantCount, provisioning, created>>
      /\ wizard' = IF current = w THEN [wizard EXCEPT ![w] = r] ELSE wizard
  BY DEF Answered, SetState, Config
<1>2. /\ wizard' \in [Wizards -> WizardType] /\ call' \in [Wizards -> CallType] /\ call'[w] = NoCall
      /\ \A v \in Wizards \ {w} : wizard'[v] = wizard[v] /\ call'[v] = call[v]
      /\ current = w => wizard'[w] = r
      /\ current # w => wizard'[w] = wizard[w]
  BY <1>1, WizardTypes, NewWizardIs
<1>3. ASSUME NEW v \in Wizards, v # w PROVE OpeningOK(v)' /\ (v \notin lost' => NumberOK(v)')
  <2>1. Untouched(v)
    BY <1>1, <1>2, <1>3, CreatedStays DEF Untouched
  <2> QED BY <2>1, UntouchedStays
<1>4. OpeningOK(w) /\ (w \notin lost => NumberOK(w)) /\ CreatedBy(w)' = CreatedBy(w)
  BY <1>1, WizardTypes, CreatedStays
<1>5. OpeningOK(w)'
  BY <1>2, <1>4, NewWizardIs, WizardTypes DEF OpeningOK
<1>6. ASSUME w \notin lost' PROVE NumberOK(w)'
  <2>1. NumberOK(w)
    BY <1>4, <1>6
  <2>2. CASE current = w
    <3>1. CreatedBy(w) = {} \/ (r.mode = "forward-done" /\ r.routing # {})
      BY <1>6, <2>1 DEF NumberOK
    <3> QED BY <1>2, <1>4, <2>1, <2>2, <3>1 DEF NumberOK, Announces
  <2>3. CASE current # w
    <3>1. leftEarly /\ wizard[w].mode = "closed"
      BY <1>4, <2>3, WizardTypes DEF OpeningOK
    <3> QED BY <1>2, <1>4, <2>1, <2>3, <3>1 DEF NumberOK
  <2> QED BY <2>2, <2>3
<1> QED BY <1>1, <1>2, <1>3, <1>5, <1>6, WizardTypes, WizardInvNext

LEMMA BuyReturnsStep == ASSUME WizardInv, NEW w \in Wizards, BuyReturns(w) PROVE WizardInv'
<1>1. /\ Unmount /\ call' = [call EXCEPT ![w] = NoCall] /\ listed' = created
      /\ leftEarly' = (leftEarly \/ current \notin {w, NoWizard})
      /\ UNCHANGED <<assistantCount, provisioning, created, lost>>
  BY DEF BuyReturns, Answered, Config
<1>2. call' \in [Wizards -> CallType] /\ \A v \in Wizards : call'[v] \in {call[v], NoCall}
  BY <1>1, WizardTypes, NewWizardIs
<1>3. ASSUME NEW v \in Wizards, ~leftEarly' PROVE call'[v] = NoCall
  <2>1. call[v] # NoCall => current = v
    BY <1>1, <1>3, WizardTypes DEF OpeningOK
  <2> QED BY <1>1, <1>3, <2>1, WizardTypes, WizardAssumption
<1>4. leftEarly' \in BOOLEAN /\ (leftEarly => leftEarly')
  BY <1>1
<1> QED BY <1>1, <1>2, <1>3, <1>4, WizardTypes, UnmountStep

LEMMA CloseWizardStep == ASSUME WizardInv, NEW w \in Wizards, CloseWizard(w) PROVE WizardInv'
<1>1. /\ Unmount /\ current = w /\ call' = call /\ listed' = listed
      /\ leftEarly' = (leftEarly \/ call[w] # NoCall \/ wizard[w].mode = "forward-done")
      /\ UNCHANGED <<assistantCount, provisioning, created, lost>>
  BY DEF CloseWizard, Config
<1>2. ASSUME NEW v \in Wizards, ~leftEarly' PROVE call[v] = NoCall /\ ~Announces(v)
  <2>1. call[v] # NoCall => current = v
    BY <1>1, <1>2, WizardTypes DEF OpeningOK
  <2> QED BY <1>1, <1>2, <2>1 DEF Announces
<1>3. leftEarly' \in BOOLEAN /\ (leftEarly => leftEarly')
  BY <1>1
<1> QED BY <1>1, <1>2, <1>3, WizardTypes, UnmountStep

LEMMA FinishStep == ASSUME WizardInv, NEW w \in Wizards, Finish(w) PROVE WizardInv'
<1>1. /\ Unmount /\ current = w /\ wizard[w].mode = "forward-done" /\ call' = call /\ listed' = created
      /\ leftEarly' = leftEarly /\ UNCHANGED <<assistantCount, provisioning, created, lost>>
  BY DEF Finish, Config
<1>2. ASSUME NEW v \in Wizards, ~leftEarly' PROVE call[v] = NoCall
  BY <1>1, <1>2, WizardTypes DEF OpeningOK
<1> QED BY <1>1, <1>2, WizardTypes, UnmountStep

LEMMA ReloadListStep == ASSUME WizardInv, ReloadList PROVE WizardInv'
<1>1. /\ listed' = created
      /\ UNCHANGED <<assistantCount, provisioning, current, wizard, call, created, lost, leftEarly>>
  BY DEF ReloadList, Config
<1>2. ASSUME NEW v \in Wizards PROVE OpeningOK(v)' /\ (v \notin lost' => NumberOK(v)')
  <2>1. Untouched(v)
    BY <1>1, CreatedStays DEF Untouched
  <2> QED BY <1>1, <2>1, WizardTypes, UntouchedStays
<1> QED BY <1>1, <1>2, WizardTypes, WizardInvNext

LEMMA WizardUserStep ==
  ASSUME WizardInv, NEW w \in Wizards,
         EnterNumber(w) \/ SelectAssistant(w) \/ \E mode \in Modes : ChooseMode(w, mode)
  PROVE  WizardInv'
<1>1. wizard[w] \in WizardType /\ OpeningOK(w)
  BY WizardTypes
<1>2. CASE EnterNumber(w)
  <2> DEFINE r == [wizard[w] EXCEPT !.own = TRUE]
  <2>1. wizard' = [wizard EXCEPT ![w] = r] /\ current = w /\ wizard[w].mode = "forward-setup"
        /\ UNCHANGED <<assistantCount, provisioning, current, call, created, listed, lost, leftEarly>>
    BY <1>2 DEF EnterNumber, Config, Server
  <2>2. r \in WizardType /\ r.mode = wizard[w].mode /\ r.busy = wizard[w].busy
    BY <1>1 DEF WizardType
  <2> HIDE DEF r
  <2> QED BY <1>1, <2>1, <2>2, InWizardStep DEF OpeningOK
<1>3. CASE SelectAssistant(w)
  <2> DEFINE r == [wizard[w] EXCEPT !.assistant = TRUE]
  <2>1. wizard' = [wizard EXCEPT ![w] = r] /\ current = w /\ wizard[w].mode \in {"forward-setup", "purchase"}
        /\ UNCHANGED <<assistantCount, provisioning, current, call, created, listed, lost, leftEarly>>
    BY <1>3 DEF SelectAssistant, Config, Server
  <2>2. r \in WizardType /\ r.mode = wizard[w].mode /\ r.busy = wizard[w].busy
    BY <1>1 DEF WizardType
  <2> HIDE DEF r
  <2> QED BY <1>1, <2>1, <2>2, InWizardStep DEF OpeningOK
<1>4. ASSUME NEW mode \in Modes, ChooseMode(w, mode) PROVE WizardInv'
  <2> DEFINE r == [wizard[w] EXCEPT !.mode = mode]
  <2>1. wizard' = [wizard EXCEPT ![w] = r] /\ current = w /\ <<wizard[w].mode, mode>> \in Steps
        /\ UNCHANGED <<assistantCount, provisioning, current, call, created, listed, lost, leftEarly>>
    BY <1>4 DEF ChooseMode, Config, Server
  <2>2. wizard[w].mode # "forward-done" /\ mode # "forward-done"
    BY <2>1 DEF Steps
  <2>3. r \in WizardType /\ r.mode = mode /\ r.busy = wizard[w].busy
    BY <1>1 DEF WizardType
  <2> HIDE DEF r
  <2> QED BY <1>1, <2>1, <2>2, <2>3, InWizardStep
<1> QED BY <1>2, <1>3, <1>4

LEMMA WizardSendsStep ==
  ASSUME WizardInv, NEW w \in Wizards,
         SaveForward(w) \/ SearchNumbers(w) \/ \E n \in DidsToBuy : BuyNumber(w, n)
  PROVE  WizardInv'
<1>1. CASE SaveForward(w)
  BY <1>1, SendStep DEF SaveForward
<1>2. CASE SearchNumbers(w)
  BY <1>2, SendStep DEF SearchNumbers
<1>3. ASSUME NEW n \in DidsToBuy, BuyNumber(w, n) PROVE WizardInv'
  BY <1>3, SendStep DEF BuyNumber
<1> QED BY <1>1, <1>2, <1>3

LEMMA KeepReturnsStep == ASSUME WizardInv, NEW w \in Wizards, KeepReturns(w) PROVE WizardInv'
<1> DEFINE r == [wizard[w] EXCEPT !.routing = {call[w].number}, !.mode = "forward-done", !.busy = FALSE]
<1>1. /\ call[w].kind = "keep" /\ call[w].at = "ok" /\ Answered(w) /\ SetState(w, r)
      /\ UNCHANGED <<current, listed, lost, leftEarly>>
  BY DEF KeepReturns
<1>2. wizard[w] \in WizardType /\ call[w].number = PoolNumber
  BY <1>1, WizardTypes DEF OpeningOK
<1>3. r \in WizardType /\ r.mode = "forward-done" /\ r.routing = {call[w].number}
  BY <1>2 DEF WizardType, Modes
<1> HIDE DEF r
<1>4. call[w] # NoCall /\ ~(wizard[w].mode = "forward-done" /\ current = w)
  BY <1>1, WizardTypes, NewWizardIs DEF OpeningOK
<1> QED BY <1>1, <1>3, <1>4, WizardTypes, NewWizardIs, AnsweredStep

LEMMA SearchReturnsStep == ASSUME WizardInv, NEW w \in Wizards, SearchReturns(w) PROVE WizardInv'
<1>1. PICK found \in SUBSET DidsToBuy : SetState(w, [wizard[w] EXCEPT !.results = found, !.busy = FALSE])
  BY DEF SearchReturns
<1> DEFINE r == [wizard[w] EXCEPT !.results = found, !.busy = FALSE]
<1>2. /\ call[w].kind = "search" /\ call[w].at = "ok" /\ Answered(w)
      /\ UNCHANGED <<current, listed, lost, leftEarly>>
  BY DEF SearchReturns
<1>3. r \in WizardType /\ r.mode = wizard[w].mode /\ r.routing = wizard[w].routing
  BY WizardTypes DEF WizardType
<1> HIDE DEF r
<1>4. call[w] # NoCall /\ ~Delivers(w) /\ (current = w => wizard[w].mode \in Modes)
  BY <1>2, WizardTypes, NewWizardIs DEF OpeningOK, Delivers
<1> QED BY <1>1, <1>2, <1>3, <1>4, WizardTypes, AnsweredStep DEF r

LEMMA CallFailsStep == ASSUME WizardInv, NEW w \in Wizards, CallFails(w) PROVE WizardInv'
<1> DEFINE r == [wizard[w] EXCEPT !.busy = FALSE]
<1>1. /\ call[w] # NoCall /\ Answered(w) /\ SetState(w, r) /\ UNCHANGED <<current, listed, leftEarly>>
      /\ lost' = IF call[w].at = "error" THEN lost ELSE lost \cup {w}
  BY DEF CallFails
<1>2. r \in WizardType /\ r.mode = wizard[w].mode /\ r.routing = wizard[w].routing
  BY WizardTypes DEF WizardType
<1> HIDE DEF r
<1>3. lost' \subseteq Wizards /\ lost \subseteq lost' /\ (\A v \in Wizards \ {w} : v \in lost' => v \in lost)
  BY <1>1, WizardTypes
<1>4. (w \notin lost' => ~Delivers(w)) /\ (current = w => wizard[w].mode \in Modes)
  BY <1>1, WizardTypes DEF OpeningOK, Delivers
<1> QED BY <1>1, <1>2, <1>3, <1>4, WizardTypes, AnsweredStep

LEMMA WizardInvStep == WizardInv /\ [WizardNext]_wizardVars => WizardInv'
<1> SUFFICES ASSUME WizardInv, [WizardNext]_wizardVars PROVE WizardInv'
  OBVIOUS
<1>1. ASSUME NEW w \in Wizards,
             OpenWizard(w) \/ CloseWizard(w) \/ EnterNumber(w) \/ SelectAssistant(w)
             \/ \E mode \in Modes : ChooseMode(w, mode)
      PROVE WizardInv'
  BY <1>1, OpenWizardStep, CloseWizardStep, WizardUserStep
<1>2. ASSUME NEW w \in Wizards,
             SaveForward(w) \/ SearchNumbers(w) \/ (\E n \in DidsToBuy : BuyNumber(w, n)) \/ Finish(w)
      PROVE WizardInv'
  BY <1>2, WizardSendsStep, FinishStep
<1>3. ASSUME NEW w \in Wizards,
             Serve(w) \/ KeepReturns(w) \/ SearchReturns(w) \/ BuyReturns(w) \/ CallFails(w)
      PROVE WizardInv'
  BY <1>3, ServeStep, KeepReturnsStep, SearchReturnsStep, BuyReturnsStep, CallFailsStep
<1>4. CASE UNCHANGED wizardVars
  BY <1>4 DEF wizardVars, WizardInv, WizardTypeOK, OpeningOK, NumberOK, Delivers, CreatedBy, Announces
<1> QED BY <1>1, <1>2, <1>3, <1>4, ReloadListStep DEF WizardNext

LEMMA WizardInvAlways == WizardSpec => []WizardInv
BY WizardInvInit, WizardInvStep, PTL DEF WizardSpec

\* The page, the openings and their requests keep their shape, and the page lists no number
\* that the tenant has not got.
THEOREM WizardTypeCorrect == WizardSpec => []WizardTypeOK
<1>1. WizardInv => WizardTypeOK
  BY DEF WizardInv
<1> QED BY <1>1, WizardInvAlways, PTL

\* Of any number of openings, whatever is clicked while a request runs: each brings the
\* tenant at most one number, which is shown - unless a reply is lost or it is closed early
\* (NumberWizard.tsx).
THEOREM WizardDelivers == WizardSpec => []WizardDeliversUnlessDisturbed
<1>1. WizardInv => WizardDeliversUnlessDisturbed
  <2> SUFFICES ASSUME WizardInv, NEW w \in Wizards, w \notin lost
               PROVE  /\ Cardinality(CreatedBy(w)) <= 1
                      /\ call[w] = NoCall /\ ~leftEarly => CreatedBy(w) \subseteq listed \/ Announces(w)
    BY DEF WizardDeliversUnlessDisturbed
  <2>1. NumberOK(w)
    BY WizardTypes
  <2>2. CASE CreatedBy(w) = {}
    BY <2>1, <2>2, FS_EmptySet DEF NumberOK
  <2>3. ASSUME NEW c \in CreatedBy(w) PROVE CreatedBy(w) = {c}
    BY <2>1 DEF NumberOK
  <2>4. CASE CreatedBy(w) # {}
    <3>1. PICK c : CreatedBy(w) = {c}
      BY <2>3, <2>4
    <3>2. Cardinality(CreatedBy(w)) = 1
      BY <3>1, FS_Singleton
    <3> QED BY <2>1, <3>2 DEF NumberOK
  <2> QED BY <2>2, <2>4
<1> QED BY <1>1, WizardInvAlways, PTL

---------------------------------------------------------------------------
(***************************************************************************)
(* QuestionnaireEditor.                                                    *)
(***************************************************************************)

QuestionRow == [by : Saves \cup {"starter"}, order : Nat \ {0}, question : EditedQuestion]
PageState == [view : {"loading", "ready"}, visit : 0 .. MaxVisits, id : Nat,
              questions : Seq(EditedQuestion), saved : BOOLEAN]
Writing == {"deleting", "deleted"}
UnderWay == {"create", "replace"} \cup Writing
SaveState == [at : {"idle", "sent", "ok", "error", "refused", "done"} \cup UnderWay,
              page : Pages \cup {NoSave.page}, visit : 0 .. MaxVisits, id : Nat,
              sent : Seq(EditedQuestion), rows : SUBSET QuestionRow]

StoredOK == stored \in Seq(SUBSET QuestionRow) /\ \A i \in DOMAIN stored : IsFiniteSet(stored[i])

\* What a save sends was accepted before it writes, and names a questionnaire that is stored.
SaveOK(r) ==
  /\ r.id \in 0 .. Len(stored)
  /\ (r.at = "idle" => r.sent = <<>>) /\ (r.at # "idle" => r.page \in Pages)
  /\ (r.at \in UnderWay => r.sent # <<>>) /\ (r.at \in {"replace"} \cup Writing => r.id # 0)

EditorStateOK ==
  /\ page \in [Pages -> PageState] /\ save \in [Saves -> SaveState]
  /\ edits \in 0 .. MaxEdits /\ putsOverlapped \in BOOLEAN
  /\ \A p \in Pages : page[p].id \in 0 .. Len(stored)
  /\ \A s \in Saves : SaveOK(save[s])

\* A PUT that overlaps no other has every row of its questionnaire in its snapshot.
SnapshotOK(s) ==
  save[s].at \in Writing => save[s].rows = stored[save[s].id] /\ Rivals(s, Writing) = {}

WasSent(i) ==
  stored[i] = Starter \/ \E s \in Saves : stored[i] = RowsOf(s, save[s].sent) /\ stored[i] # {}

EditorAlone == (\A s \in Saves : SnapshotOK(s)) /\ \A i \in DOMAIN stored : WasSent(i)

EditorInv == StoredOK /\ EditorStateOK /\ (~putsOverlapped => EditorAlone)

\* The rows of a list of questions.
LEMMA RowsOfIs ==
  ASSUME NEW s \in Saves, NEW qs \in Seq(EditedQuestion)
  PROVE  /\ RowsOf(s, qs) \subseteq QuestionRow /\ IsFiniteSet(RowsOf(s, qs))
         /\ (qs = <<>> <=> RowsOf(s, qs) = {})
<1> DEFINE column(f) == IF f = "given" THEN "given" ELSE "null"
           row(i) == [by |-> s, order |-> i,
                      question |-> [qs[i] EXCEPT !.options = column(@), !.bounds = column(@)]]
           f == [i \in 1 .. Len(qs) |-> row(i)]
<1>1. Len(qs) \in Nat /\ DOMAIN qs = 1 .. Len(qs)
  OBVIOUS
<1>2. RowsOf(s, qs) = {row(i) : i \in 1 .. Len(qs)}
  BY <1>1 DEF RowsOf
<1>3. ASSUME NEW i \in 1 .. Len(qs) PROVE row(i) \in QuestionRow
  <2>1. qs[i] \in EditedQuestion /\ i \in Nat \ {0}
    BY <1>1
  <2>2. \A x \in Field : column(x) \in Field
    BY DEF Field
  <2>3. [qs[i] EXCEPT !.options = column(@), !.bounds = column(@)] \in EditedQuestion
    <3> HIDE DEF column
    <3> QED BY <2>1, <2>2 DEF EditedQuestion
  <2> QED BY <2>1, <2>3 DEF QuestionRow
<1> HIDE DEF row
<1>4. RowsOf(s, qs) \subseteq QuestionRow
  BY <1>2, <1>3
<1>5. f \in Surjection(1 .. Len(qs), RowsOf(s, qs))
  BY <1>2 DEF Surjection
<1>6. IsFiniteSet(1 .. Len(qs))
  BY <1>1, FS_Interval
<1>7. IsFiniteSet(RowsOf(s, qs))
  BY <1>5, <1>6, FS_Surjection
<1>8. qs = <<>> <=> RowsOf(s, qs) = {}
  BY <1>1, <1>2, EmptySeq
<1> QED BY <1>4, <1>7, <1>8

\* What a page may be given is a list of questions.
LEMMA AsLoadedIs ==
  ASSUME NEW rows \in SUBSET QuestionRow, IsFiniteSet(rows), NEW qs \in AsLoaded(rows)
  PROVE  qs \in Seq(EditedQuestion)
<1>1. Cardinality(rows) \in Nat
  BY FS_CardinalityType
<1>2. qs \in [1 .. Cardinality(rows) -> {r.question : r \in rows}]
  BY DEF AsLoaded
<1>3. {r.question : r \in rows} \subseteq EditedQuestion
  BY DEF QuestionRow
<1> QED BY <1>1, <1>2, <1>3

LEMMA StarterIs == Starter \subseteq QuestionRow /\ IsFiniteSet(Starter)
<1>1. NewQuestion(1) \in EditedQuestion
  BY DEF NewQuestion, EditedQuestion, Field
<1>2. [NewQuestion(1) EXCEPT !.filled = TRUE, !.options = "null", !.bounds = "null"] \in EditedQuestion
  BY <1>1 DEF EditedQuestion, Field
<1> DEFINE row == [by |-> "starter", order |-> 1,
                   question |-> [NewQuestion(1) EXCEPT !.filled = TRUE, !.options = "null", !.bounds = "null"]]
<1>3. row \in QuestionRow /\ Starter = {row}
  BY <1>2 DEF Starter, QuestionRow
<1> HIDE DEF row
<1> QED BY <1>3, FS_Singleton

LEMMA NoPageIs == NoPage \in PageState /\ NoPage.id = 0
BY EditorAssumption DEF NoPage, PageState, NewId

LEMMA NoSaveIs ==
  /\ NoSave \in SaveState /\ NoSave.at = "idle" /\ NoSave.sent = <<>> /\ NoSave.id = 0
<1>1. NoSave.page = (CHOOSE p \in Pages : TRUE)
  BY DEF NoSave
<1>2. NoSave = [at |-> "idle", page |-> NoSave.page, visit |-> 0, id |-> 0, sent |-> <<>>, rows |-> {}]
  BY <1>1 DEF NoSave, NewId
<1> DEFINE q == NoSave.page
<1>3. NoSave = [at |-> "idle", page |-> q, visit |-> 0, id |-> 0, sent |-> <<>>, rows |-> {}]
  BY <1>2
<1>4. SaveState = [at : {"idle", "sent", "ok", "error", "refused", "done"} \cup UnderWay,
                   page : Pages \cup {q}, visit : 0 .. MaxVisits, id : Nat,
                   sent : Seq(EditedQuestion), rows : SUBSET QuestionRow]
  BY DEF SaveState
<1> HIDE DEF q
<1> QED BY <1>3, <1>4, EditorAssumption

LEMMA EditorInvInit == EditorInit => EditorInv
<1> SUFFICES ASSUME EditorInit PROVE EditorInv
  OBVIOUS
<1>1. StoredOK
  <2>1. CASE stored = <<>>
    BY <2>1 DEF StoredOK
  <2>2. CASE stored = <<Starter>>
    <3>1. Starter \in SUBSET QuestionRow /\ IsFiniteSet(Starter)
      BY StarterIs
    <3>2. stored \in Seq(SUBSET QuestionRow) /\ \A i \in DOMAIN stored : stored[i] = Starter
      BY <2>2, <3>1
    <3> QED BY <3>1, <3>2 DEF StoredOK
  <2> QED BY <2>1, <2>2 DEF EditorInit
<1>2. (\A s \in Saves : save[s] = NoSave) /\ (\A p \in Pages : page[p] = NoPage)
  BY DEF EditorInit
<1>3. Len(stored) \in Nat
  BY <1>1 DEF StoredOK
<1>4. EditorStateOK
  <2>1. page \in [Pages -> PageState] /\ save \in [Saves -> SaveState]
    BY NoPageIs, NoSaveIs DEF EditorInit
  <2>2. \A p \in Pages : page[p].id \in 0 .. Len(stored)
    BY <1>2, <1>3, NoPageIs
  <2>3. \A s \in Saves : SaveOK(save[s])
    BY <1>2, <1>3, NoSaveIs DEF SaveOK, UnderWay, Writing
  <2>4. edits \in 0 .. MaxEdits
    BY EditorAssumption DEF EditorInit
  <2>5. putsOverlapped \in BOOLEAN
    BY DEF EditorInit
  <2> QED BY <2>1, <2>2, <2>3, <2>4, <2>5 DEF EditorStateOK
<1>5. EditorAlone
  BY <1>2, NoSaveIs DEF EditorInit, EditorAlone, SnapshotOK, WasSent, Writing
<1> QED BY <1>1, <1>4, <1>5 DEF EditorInv

\* A step of a page alone.
LEMMA PageMoves ==
  ASSUME EditorInv, NEW p \in Pages, NEW r \in PageState, r.id \in 0 .. Len(stored),
         page' = [page EXCEPT ![p] = r], edits' \in 0 .. MaxEdits,
         UNCHANGED <<stored, save, putsOverlapped>>
  PROVE  EditorInv'
<1>1. StoredOK'
  BY DEF EditorInv, StoredOK
<1>2. EditorStateOK'
  BY DEF EditorInv, EditorStateOK, SaveOK
<1>3. EditorAlone => EditorAlone'
  BY DEF EditorAlone, SnapshotOK, WasSent, Rivals
<1> QED BY <1>1, <1>2, <1>3 DEF EditorInv

LEMMA LoadPageStep == ASSUME EditorInv, NEW p \in Pages, LoadPage(p) PROVE EditorInv'
<1>1. stored \in Seq(SUBSET QuestionRow) /\ (\A i \in DOMAIN stored : IsFiniteSet(stored[i]))
      /\ page \in [Pages -> PageState] /\ edits \in 0 .. MaxEdits
  BY DEF EditorInv, StoredOK, EditorStateOK
<1>2. PICK qs \in IF stored = <<>> THEN {<<>>} ELSE AsLoaded(stored[Len(stored)]) :
        page' = [page EXCEPT ![p] = [@ EXCEPT !.view = "ready", !.id = Len(stored), !.questions = qs]]
  BY DEF LoadPage
<1>3. qs \in Seq(EditedQuestion)
  <2>1. CASE stored = <<>>
    BY <1>2, <2>1
  <2>2. CASE stored # <<>>
    <3>1. Len(stored) \in DOMAIN stored /\ qs \in AsLoaded(stored[Len(stored)])
      BY <1>1, <1>2, <2>2, EmptySeq
    <3>2. stored[Len(stored)] \in SUBSET QuestionRow /\ IsFiniteSet(stored[Len(stored)])
      BY <1>1, <3>1
    <3> QED BY <3>1, <3>2, AsLoadedIs
  <2> QED BY <2>1, <2>2
<1> DEFINE r == [page[p] EXCEPT !.view = "ready", !.id = Len(stored), !.questions = qs]
<1>4. page' = [page EXCEPT ![p] = r] /\ Len(stored) \in Nat
  BY <1>1, <1>2
<1>5. r \in PageState /\ r.id = Len(stored)
  BY <1>1, <1>3, <1>4 DEF PageState
<1>6. UNCHANGED <<stored, save, putsOverlapped>> /\ edits' \in 0 .. MaxEdits
  BY <1>1 DEF LoadPage
<1> HIDE DEF r
<1>7. r.id \in 0 .. Len(stored)
  BY <1>4, <1>5
<1> QED BY <1>4, <1>5, <1>6, <1>7, PageMoves

LEMMA VisitAgainStep == ASSUME EditorInv, NEW p \in Pages, VisitAgain(p) PROVE EditorInv'
<1> DEFINE r == [NoPage EXCEPT !.visit = page[p].visit + 1]
<1>1. page' = [page EXCEPT ![p] = r] /\ page[p].visit < MaxVisits
      /\ UNCHANGED <<stored, save, edits, putsOverlapped>>
  BY DEF VisitAgain
<1>2. page[p].visit \in 0 .. MaxVisits /\ edits' \in 0 .. MaxEdits /\ Len(stored) \in Nat
  BY <1>1 DEF EditorInv, EditorStateOK, PageState, StoredOK
<1>3. r \in PageState /\ r.id = 0
  BY <1>1, <1>2, NoPageIs, EditorAssumption DEF PageState
<1> HIDE DEF r
<1>4. r.id \in 0 .. Len(stored)
  BY <1>2, <1>3
<1> QED BY <1>1, <1>2, <1>3, <1>4, PageMoves

LEMMA EditStep ==
  ASSUME EditorInv, NEW p \in Pages, NEW qs \in Seq(EditedQuestion), NEW saved \in BOOLEAN, Edit(p, qs, saved)
  PROVE  EditorInv'
<1> DEFINE r == [page[p] EXCEPT !.questions = qs, !.saved = saved]
<1>1. page[p] \in PageState /\ page[p].id \in 0 .. Len(stored) /\ page \in [Pages -> PageState]
      /\ edits \in 0 .. MaxEdits
  BY DEF EditorInv, EditorStateOK
<1>2. page' = [page EXCEPT ![p].questions = qs, ![p].saved = saved] /\ edits < MaxEdits /\ edits' = edits + 1
      /\ UNCHANGED <<stored, save, putsOverlapped>>
  BY DEF Edit
<1>4. page' = [page EXCEPT ![p] = r]
  BY <1>1, <1>2 DEF PageState
<1>5. edits' \in 0 .. MaxEdits
  BY <1>1, <1>2, EditorAssumption
<1>3. r \in PageState /\ r.id = page[p].id
  BY <1>1 DEF PageState
<1> HIDE DEF r
<1> QED BY <1>1, <1>2, <1>3, <1>4, <1>5, PageMoves

LEMMA PageEditsStep ==
  ASSUME EditorInv, NEW p \in Pages,
         \/ AddQuestion(p)
         \/ \E idx \in DOMAIN page[p].questions :
              RemoveQuestion(p, idx) \/ MoveQuestion(p, idx) \/ UpdateQuestion(p, idx)
  PROVE  EditorInv'
<1> DEFINE qs == page[p].questions
<1>1. qs \in Seq(EditedQuestion) /\ page[p].saved \in BOOLEAN
  BY DEF EditorInv, EditorStateOK, PageState
<1>2. Len(qs) \in Nat /\ DOMAIN qs = 1 .. Len(qs) /\ \A i \in 1 .. Len(qs) : qs[i] \in EditedQuestion
  BY <1>1
<1>3. CASE AddQuestion(p)
  <2>1. Edit(p, Append(qs, NewQuestion(Len(qs) + 1)), page[p].saved)
    BY <1>3 DEF AddQuestion
  <2>2. NewQuestion(Len(qs) + 1) \in EditedQuestion
    BY <1>2 DEF NewQuestion, EditedQuestion, Field
  <2>3. Append(qs, NewQuestion(Len(qs) + 1)) \in Seq(EditedQuestion)
    BY <1>1, <2>2
  <2> QED BY <1>1, <2>1, <2>3, EditStep
<1>4. ASSUME NEW idx \in DOMAIN qs, RemoveQuestion(p, idx) PROVE EditorInv'
  <2>1. Edit(p, SubSeq(qs, 1, idx - 1) \o SubSeq(qs, idx + 1, Len(qs)), page[p].saved)
    BY <1>4 DEF RemoveQuestion
  <2>2. SubSeq(qs, 1, idx - 1) \in Seq(EditedQuestion) /\ SubSeq(qs, idx + 1, Len(qs)) \in Seq(EditedQuestion)
    <3> HIDE DEF qs
    <3>1. idx \in Int /\ 1 <= idx /\ idx <= Len(qs)
      BY <1>2, <1>4
    <3>2. (\A i \in 1 .. idx - 1 : qs[i] \in EditedQuestion)
          /\ \A i \in idx + 1 .. Len(qs) : qs[i] \in EditedQuestion
      BY <1>2, <3>1
    <3> QED BY <1>2, <3>1, <3>2, SubSeqProperties
  <2>3. SubSeq(qs, 1, idx - 1) \o SubSeq(qs, idx + 1, Len(qs)) \in Seq(EditedQuestion)
    BY <2>2, ConcatProperties
  <2> QED BY <1>1, <2>1, <2>3, EditStep
<1>5. ASSUME NEW idx \in DOMAIN qs, MoveQuestion(p, idx) PROVE EditorInv'
  <2>1. idx + 1 \in DOMAIN qs
        /\ Edit(p, [qs EXCEPT ![idx] = qs[idx + 1], ![idx + 1] = qs[idx]], page[p].saved)
    BY <1>5 DEF MoveQuestion
  <2>2. [qs EXCEPT ![idx] = qs[idx + 1], ![idx + 1] = qs[idx]] \in Seq(EditedQuestion)
    BY <1>1, <1>2, <2>1, ExceptSeq
  <2> QED BY <1>1, <2>1, <2>2, EditStep
<1>6. ASSUME NEW idx \in DOMAIN qs, UpdateQuestion(p, idx) PROVE EditorInv'
  <2>1. PICK q \in Patched(qs[idx]) : Edit(p, [qs EXCEPT ![idx] = q], FALSE)
    BY <1>6 DEF UpdateQuestion
  <2>2. qs[idx] \in EditedQuestion
    BY <1>2, <1>6
  <2>3. q \in EditedQuestion
    <3> DEFINE old == qs[idx]
    <3>1. old \in EditedQuestion /\ q \in Patched(old)
      BY <2>1, <2>2
    <3> HIDE DEF old
    <3>2. \/ \E k \in QuestionKeys : q = [old EXCEPT !.key = k]
          \/ q = [old EXCEPT !.filled = TRUE]
          \/ \E t \in {"text", "choice", "scale"} : q = [old EXCEPT !.type = t]
          \/ q = [old EXCEPT !.options = IF old.type = "choice" THEN "given" ELSE old.options]
          \/ q = [old EXCEPT !.bounds = IF old.type = "scale" THEN "given" ELSE old.bounds]
      BY <3>1 DEF Patched
    <3> QED BY <3>1, <3>2, EditorAssumption DEF EditedQuestion, Field
  <2>4. [qs EXCEPT ![idx] = q] \in Seq(EditedQuestion)
    BY <1>1, <1>2, <1>6, <2>3, ExceptSeq
  <2> QED BY <2>1, <2>4, EditStep
<1> QED BY <1>3, <1>4, <1>5, <1>6

\* A step of a save that leaves what is stored alone.
LEMMA SaveMoves ==
  ASSUME EditorInv, NEW s \in Saves, NEW r \in SaveState, SaveOK(r),
         save' = [save EXCEPT ![s] = r],
         r.sent = save[s].sent \/ save[s].at = "idle",
         page' \in [Pages -> PageState], \A p \in Pages : page'[p].id \in 0 .. Len(stored),
         putsOverlapped' \in BOOLEAN, putsOverlapped => putsOverlapped',
         ~putsOverlapped' /\ r.at \in Writing =>
           /\ r.rows = stored[r.id]
           /\ (save[s].at \in Writing /\ r.id = save[s].id)
              \/ \A t \in Saves \ {s} : save[t].id = r.id => save[t].at \notin Writing,
         UNCHANGED <<stored, edits>>
  PROVE  EditorInv'
<1>1. StoredOK'
  BY DEF EditorInv, StoredOK
<1>2. save' \in [Saves -> SaveState] /\ save'[s] = r /\ \A t \in Saves \ {s} : save'[t] = save[t]
  BY DEF EditorInv, EditorStateOK
<1>5. ASSUME NEW t \in Saves PROVE SaveOK(save[t])'
  <2>1. SaveOK(save[t])
    BY DEF EditorInv, EditorStateOK
  <2>2. save'[t] = r \/ save'[t] = save[t]
    BY <1>2
  <2> QED BY <2>1, <2>2 DEF SaveOK
<1>3. EditorStateOK'
  BY <1>2, <1>5 DEF EditorInv, EditorStateOK
<1>4. ASSUME ~putsOverlapped' PROVE EditorAlone'
  <2>1. EditorAlone
    BY <1>4 DEF EditorInv
  <2>2. ASSUME NEW t \in Saves PROVE SnapshotOK(t)'
    <3>1. \A u \in Saves : save[u].at \in Writing =>
            /\ save[u].rows = stored[save[u].id]
            /\ \A v \in Saves \ {u} : save[v].id = save[u].id => save[v].at \notin Writing
      BY <2>1 DEF EditorAlone, SnapshotOK, Rivals
    <3>2. r.at \in Writing => \A u \in Saves \ {s} : save[u].id = r.id => save[u].at \notin Writing
      BY <1>4, <3>1
    <3>3. save'[t].at \in Writing =>
            /\ save'[t].rows = stored[save'[t].id]
            /\ \A v \in Saves \ {t} : save'[v].id = save'[t].id => save'[v].at \notin Writing
      BY <1>2, <1>4, <3>1, <3>2
    <3> QED BY <3>3 DEF SnapshotOK, Rivals
  <2>3. ASSUME NEW i \in DOMAIN stored PROVE WasSent(i)'
    <3>1. CASE stored[i] = Starter
      BY <3>1 DEF WasSent
    <3>2. ASSUME NEW t \in Saves, stored[i] = RowsOf(t, save[t].sent), stored[i] # {} PROVE WasSent(i)'
      <4>1. save'[t].sent = save[t].sent
        <5>1. save[t].at = "idle" => stored[i] = {}
          BY <3>2, RowsOfIs DEF EditorInv, EditorStateOK, SaveOK, SaveState
        <5> QED BY <1>2, <3>2, <5>1
      <4> QED BY <3>2, <4>1 DEF WasSent
    <3> QED BY <2>1, <3>1, <3>2 DEF EditorAlone, WasSent
  <2> QED BY <2>2, <2>3 DEF EditorAlone
<1> QED BY <1>1, <1>3, <1>4 DEF EditorInv

\* The facts about a save that its steps start from.
LEMMA SaveIs ==
  ASSUME EditorInv, NEW s \in Saves
  PROVE  /\ save[s] \in SaveState /\ SaveOK(save[s]) /\ save \in [Saves -> SaveState]
         /\ page \in [Pages -> PageState] /\ (\A p \in Pages : page[p].id \in 0 .. Len(stored))
         /\ putsOverlapped \in BOOLEAN /\ StoredOK /\ Len(stored) \in Nat /\ DOMAIN stored = 1 .. Len(stored)
         /\ (~putsOverlapped /\ save[s].at \in Writing =>
               save[s].rows = stored[save[s].id] /\ Rivals(s, Writing) = {})
BY DEF EditorInv, EditorStateOK, StoredOK, EditorAlone, SnapshotOK

LEMMA ClickSaveStep == ASSUME EditorInv, NEW p \in Pages, NEW s \in Saves, ClickSave(p, s) PROVE EditorInv'
<1> DEFINE r == [save[s] EXCEPT !.at = "sent", !.page = p, !.visit = page[p].visit,
                                !.id = page[p].id, !.sent = page[p].questions]
           q == [page[p] EXCEPT !.saved = FALSE]
<1>1. page[p] \in PageState /\ page[p].id \in 0 .. Len(stored)
  BY SaveIs
<1>2. /\ save[s].at = "idle" /\ save' = [save EXCEPT ![s] = r] /\ page' = [page EXCEPT ![p] = q]
      /\ UNCHANGED <<stored, edits, putsOverlapped>>
  BY SaveIs DEF ClickSave, PageState
<1>3. r \in SaveState /\ r.at = "sent" /\ r.page = p /\ r.id = page[p].id
  BY <1>1, SaveIs DEF SaveState, PageState
<1>4. q \in PageState /\ q.id = page[p].id
  BY <1>1 DEF PageState
<1> HIDE DEF r, q
<1>5. SaveOK(r) /\ r.at \notin Writing
  BY <1>1, <1>3 DEF SaveOK, UnderWay, Writing
<1>6. page' \in [Pages -> PageState] /\ \A o \in Pages : page'[o].id \in 0 .. Len(stored)
  BY <1>1, <1>2, <1>4, SaveIs
<1> QED BY <1>2, <1>3, <1>5, <1>6, SaveIs, SaveMoves

LEMMA ShowReplyStep == ASSUME EditorInv, NEW s \in Saves, ShowReply(s) PROVE EditorInv'
<1> DEFINE r == [save[s] EXCEPT !.at = "done"]
           p == save[s].page
           q == [page[p] EXCEPT !.saved = TRUE, !.id = save[s].id]
<1>1. /\ save[s].at \in {"ok", "error", "refused"} /\ save' = [save EXCEPT ![s] = r]
      /\ UNCHANGED <<stored, edits, putsOverlapped>>
  BY SaveIs DEF ShowReply, SaveState
<1>2. r \in SaveState /\ r.at = "done" /\ r.id = save[s].id /\ r.page = p /\ r.sent = save[s].sent
  BY SaveIs DEF SaveState
<1>3. p \in Pages /\ save[s].id \in 0 .. Len(stored)
  BY <1>1, SaveIs DEF SaveOK
<1>4. page' = page \/ page' = [page EXCEPT ![p] = q]
  BY <1>3, SaveIs DEF ShowReply, PageState
<1>8. page[p] \in PageState /\ save[s].id \in Nat
  BY <1>3, SaveIs DEF SaveState
<1>5. q \in PageState /\ q.id = save[s].id
  BY <1>8 DEF PageState
<1> HIDE DEF r, q
<1>6. SaveOK(r) /\ r.at \notin Writing
  BY <1>2, <1>3 DEF SaveOK, UnderWay, Writing
<1>7. page' \in [Pages -> PageState] /\ \A o \in Pages : page'[o].id \in 0 .. Len(stored)
  BY <1>3, <1>4, <1>5, SaveIs
<1> QED BY <1>1, <1>2, <1>6, <1>7, SaveIs, SaveMoves

LEMMA ParseStep == ASSUME EditorInv, NEW s \in Saves, Parse(s) PROVE EditorInv'
<1> DEFINE at == IF ~Acceptable(save[s].sent) THEN "refused" ELSE IF save[s].id = NewId THEN "create" ELSE "replace"
           r == [save[s] EXCEPT !.at = at]
<1>1. /\ save[s].at = "sent" /\ save' = [save EXCEPT ![s] = r]
      /\ UNCHANGED <<stored, page, edits, putsOverlapped>>
  BY SaveIs DEF Parse
<1>2. at \in {"refused", "create", "replace"} /\ (at # "refused" => save[s].sent # <<>>)
      /\ (at = "replace" => save[s].id # 0)
  BY DEF Acceptable, NewId
<1> HIDE DEF at
<1>3. r \in SaveState /\ r.at = at /\ r.id = save[s].id /\ r.page = save[s].page /\ r.sent = save[s].sent
  BY <1>2, SaveIs DEF SaveState, UnderWay
<1> HIDE DEF r
<1>4. SaveOK(r) /\ r.at \notin Writing
  BY <1>1, <1>2, <1>3, SaveIs DEF SaveOK, UnderWay, Writing
<1> QED BY <1>1, <1>3, <1>4, SaveIs, SaveMoves

LEMMA StartDeleteStep == ASSUME EditorInv, NEW s \in Saves, StartDelete(s) PROVE EditorInv'
<1> DEFINE r == [save[s] EXCEPT !.at = "deleting", !.rows = stored[save[s].id]]
           overlap == Rivals(s, {"deleting", "deleted"}) # {}
<1>1. /\ save[s].at = "replace" /\ save' = [save EXCEPT ![s] = r]
      /\ putsOverlapped' = (putsOverlapped \/ overlap)
      /\ UNCHANGED <<stored, page, edits>>
  BY SaveIs DEF StartDelete, SaveState
<1>2. save[s].id \in 1 .. Len(stored) /\ stored[save[s].id] \in SUBSET QuestionRow
  BY <1>1, SaveIs DEF SaveOK, StoredOK
<1>3. /\ r \in SaveState /\ r.at = "deleting" /\ r.id = save[s].id /\ r.page = save[s].page
      /\ r.sent = save[s].sent /\ r.rows = stored[r.id]
  BY <1>2, SaveIs DEF SaveState, UnderWay, Writing
<1> HIDE DEF r
<1>4. SaveOK(r)
  BY <1>1, <1>2, <1>3, SaveIs DEF SaveOK, UnderWay, Writing
<1>5. ~overlap => \A t \in Saves \ {s} : save[t].id = r.id => save[t].at \notin Writing
  BY <1>3 DEF Rivals, Writing
<1> HIDE DEF overlap
<1> QED BY <1>1, <1>3, <1>4, <1>5, SaveIs, SaveMoves

LEMMA DeleteRowsStep == ASSUME EditorInv, NEW s \in Saves, DeleteRows(s) PROVE EditorInv'
<1> DEFINE r == [save[s] EXCEPT !.at = "deleted", !.rows = save[s].rows \cap stored[save[s].id]]
<1>1. /\ save[s].at = "deleting" /\ save' = [save EXCEPT ![s] = r]
      /\ UNCHANGED <<stored, page, edits, putsOverlapped>>
  BY SaveIs DEF DeleteRows, SaveState
<1>2. save[s].rows \subseteq QuestionRow
  BY SaveIs DEF SaveState
<1>3. /\ r \in SaveState /\ r.at = "deleted" /\ r.id = save[s].id /\ r.page = save[s].page
      /\ r.sent = save[s].sent /\ r.rows = save[s].rows \cap stored[save[s].id]
  BY <1>2, SaveIs DEF SaveState, UnderWay, Writing
<1> HIDE DEF r
<1>4. SaveOK(r) /\ save[s].at \in Writing
  BY <1>1, <1>3, SaveIs DEF SaveOK, UnderWay, Writing
<1>5. ~putsOverlapped' => r.rows = stored[r.id]
  BY <1>1, <1>3, <1>4, SaveIs
<1> QED BY <1>1, <1>3, <1>4, <1>5, SaveIs, SaveMoves

LEMMA SaveFailsStep == ASSUME EditorInv, NEW s \in Saves, SaveFails(s) PROVE EditorInv'
<1> DEFINE r == [save[s] EXCEPT !.at = "error", !.rows = {}]
<1>1. /\ save[s].at \in UnderWay /\ save' = [save EXCEPT ![s] = r]
      /\ UNCHANGED <<stored, page, edits, putsOverlapped>>
  BY SaveIs DEF SaveFails, SaveState, UnderWay, Writing
<1>2. r \in SaveState /\ r.at = "error" /\ r.id = save[s].id /\ r.page = save[s].page /\ r.sent = save[s].sent
  BY SaveIs DEF SaveState
<1> HIDE DEF r
<1>3. SaveOK(r) /\ r.at \notin Writing
  BY <1>1, <1>2, SaveIs DEF SaveOK, UnderWay, Writing
<1> QED BY <1>1, <1>2, <1>3, SaveIs, SaveMoves

\* A save that ends with the rows it sent stored as questionnaire i, the last one or a new one.
LEMMA StoreStep ==
  ASSUME EditorInv, NEW s \in Saves, NEW i \in Nat \ {0}, NEW rows \in SUBSET QuestionRow, IsFiniteSet(rows),
         stored' \in Seq(SUBSET QuestionRow), Len(stored') \in Nat, Len(stored) <= Len(stored'),
         i <= Len(stored'), stored'[i] = rows,
         \A j \in 1 .. Len(stored') : j # i => j \in 1 .. Len(stored) /\ stored'[j] = stored[j],
         save[s].at \in UnderWay,
         ~putsOverlapped => /\ rows = RowsOf(s, save[s].sent)
                            /\ \A t \in Saves \ {s} : save[t].at \in Writing => save[t].id # i,
         NEW r \in SaveState, r.at = "ok", r.id \in 0 .. Len(stored'),
         r.page = save[s].page, r.sent = save[s].sent, save' = [save EXCEPT ![s] = r],
         UNCHANGED <<page, edits, putsOverlapped>>
  PROVE  EditorInv'
<1>1. DOMAIN stored' = 1 .. Len(stored') /\ DOMAIN stored = 1 .. Len(stored) /\ Len(stored) \in Nat
  BY SaveIs
<1>2. StoredOK'
  BY <1>1, SaveIs DEF StoredOK
<1>3. (\A t \in Saves : save[t] \in SaveState /\ SaveOK(save[t])) /\ save' \in [Saves -> SaveState]
      /\ save'[s] = r /\ \A t \in Saves \ {s} : save'[t] = save[t]
  BY SaveIs
<1>5. ASSUME NEW t \in Saves PROVE SaveOK(save[t])'
  <2>1. CASE t = s
    <3>1. save[s].at # "idle" /\ r.page \in Pages
      BY <1>3 DEF SaveOK, UnderWay, Writing
    <3> QED BY <1>3, <2>1, <3>1 DEF SaveOK, UnderWay, Writing
  <2>2. CASE t # s
    <3>1. SaveOK(save[t]) /\ save'[t] = save[t] /\ \A id \in 0 .. Len(stored) : id \in 0 .. Len(stored')
      BY <1>1, <1>3, <2>2
    <3> QED BY <3>1 DEF SaveOK
  <2> QED BY <2>1, <2>2
<1>6. EditorStateOK'
  <2>1. \A p \in Pages : page'[p].id \in 0 .. Len(stored')
    <3>1. \A id \in 0 .. Len(stored) : id \in 0 .. Len(stored')
      BY <1>1
    <3> QED BY <3>1, SaveIs
  <2> QED BY <1>3, <1>5, <2>1 DEF EditorInv, EditorStateOK
<1>7. ASSUME ~putsOverlapped PROVE EditorAlone'
  <2>1. EditorAlone
    BY <1>7 DEF EditorInv
  <2>2. ASSUME NEW t \in Saves, save'[t].at \in Writing
        PROVE  save'[t].rows = stored'[save'[t].id] /\ Rivals(t, Writing)' = {}
    <3>1. t # s /\ save'[t] = save[t]
      BY <1>3, <2>2 DEF Writing
    <3>2. save[t].rows = stored[save[t].id] /\ Rivals(t, Writing) = {} /\ save[t].id # i
      BY <1>7, <2>1, <2>2, <3>1 DEF EditorAlone, SnapshotOK
    <3>3. save[t].id \in 1 .. Len(stored)
      BY <1>1, <1>3, <2>2, <3>1 DEF SaveOK
    <3>4. stored'[save[t].id] = stored[save[t].id]
      BY <1>1, <3>2, <3>3
    <3>5. \A v \in Saves \ {t} : save'[v].at \in Writing => v # s /\ save'[v] = save[v]
      BY <1>3 DEF Writing
    <3> QED BY <3>1, <3>2, <3>4, <3>5 DEF Rivals
  <2>3. rows # {}
    BY <1>3, <1>7, RowsOfIs DEF SaveOK, SaveState
  <2>4. \A t \in Saves : save'[t].sent = save[t].sent
    BY <1>3
  <2>5. ASSUME NEW j \in DOMAIN stored' PROVE WasSent(j)'
    <3>1. CASE j = i
      BY <1>7, <2>3, <2>4, <3>1 DEF WasSent
    <3>2. CASE j # i
      <4>1. WasSent(j) /\ stored'[j] = stored[j]
        BY <1>1, <2>1, <3>2 DEF EditorAlone
      <4> QED BY <2>4, <4>1 DEF WasSent
    <3> QED BY <3>1, <3>2
  <2> QED BY <2>2, <2>5 DEF EditorAlone, SnapshotOK
<1> QED BY <1>2, <1>6, <1>7 DEF EditorInv

LEMMA CreateQuestionnaireStep ==
  ASSUME EditorInv, NEW s \in Saves, CreateQuestionnaire(s) PROVE EditorInv'
<1> DEFINE rows == RowsOf(s, save[s].sent)
           r == [save[s] EXCEPT !.at = "ok", !.id = Len(stored')]
<1>1. /\ save[s].at = "create" /\ stored' = Append(stored, rows) /\ save' = [save EXCEPT ![s] = r]
      /\ UNCHANGED <<page, edits, putsOverlapped>>
  BY SaveIs DEF CreateQuestionnaire, SaveState
<1>2. rows \in SUBSET QuestionRow /\ IsFiniteSet(rows)
  BY SaveIs, RowsOfIs DEF SaveState
<1> HIDE DEF rows
<1>3. /\ stored' \in Seq(SUBSET QuestionRow) /\ Len(stored') = Len(stored) + 1 /\ stored'[Len(stored) + 1] = rows
      /\ \A j \in 1 .. Len(stored) : stored'[j] = stored[j]
  BY <1>1, <1>2, SaveIs DEF StoredOK
<1>4. r \in SaveState /\ r.at = "ok" /\ r.id = Len(stored) + 1 /\ r.page = save[s].page /\ r.sent = save[s].sent
  <2> DEFINE n == Len(stored')
  <2>1. n = Len(stored) + 1 /\ n \in Nat /\ save[s] \in SaveState
    BY <1>3, SaveIs
  <2> HIDE DEF n
  <2>2. r = [save[s] EXCEPT !.at = "ok", !.id = n]
    BY DEF n
  <2> QED BY <2>1, <2>2 DEF SaveState
<1> HIDE DEF r
<1>5. \A t \in Saves : save[t].id <= Len(stored) /\ save[t].id \in Nat
  BY SaveIs DEF SaveOK
<1>6. \A t \in Saves \ {s} : save[t].at \in Writing => save[t].id # Len(stored) + 1
  BY <1>5, SaveIs
<1>7. save[s].at \in UnderWay /\ rows = RowsOf(s, save[s].sent)
  BY <1>1 DEF UnderWay, rows
<1>8. \A j \in 1 .. Len(stored') : j # Len(stored) + 1 => j \in 1 .. Len(stored) /\ stored'[j] = stored[j]
  BY <1>3, SaveIs
<1>9. Len(stored) + 1 \in Nat \ {0} /\ r.id \in 0 .. Len(stored') /\ Len(stored) <= Len(stored')
      /\ Len(stored) + 1 <= Len(stored') /\ Len(stored') \in Nat
  BY <1>3, <1>4, SaveIs
<1> QED BY <1>1, <1>2, <1>3, <1>4, <1>6, <1>7, <1>8, <1>9, StoreStep

LEMMA InsertRowsStep == ASSUME EditorInv, NEW s \in Saves, InsertRows(s) PROVE EditorInv'
<1> DEFINE left == stored[save[s].id] \ save[s].rows
           inserted == RowsOf(s, save[s].sent)
           clash == \E x \in left, n \in inserted : x.question.key = n.question.key
<1>1. /\ save[s].at = "deleted"
      /\ IF clash
         THEN stored' = stored /\ save' = [save EXCEPT ![s].at = "error", ![s].rows = {}]
         ELSE /\ stored' = [stored EXCEPT ![save[s].id] = left \cup inserted]
              /\ save' = [save EXCEPT ![s].at = "ok", ![s].rows = {}]
      /\ UNCHANGED <<page, edits, putsOverlapped>>
  BY DEF InsertRows
<1> HIDE DEF clash
<1>2. CASE clash
  <2> DEFINE r == [save[s] EXCEPT !.at = "error", !.rows = {}]
  <2>1. save' = [save EXCEPT ![s] = r] /\ stored' = stored
    BY <1>1, <1>2, SaveIs DEF SaveState
  <2>2. r \in SaveState /\ r.at = "error" /\ r.id = save[s].id /\ r.page = save[s].page /\ r.sent = save[s].sent
    BY SaveIs DEF SaveState
  <2> HIDE DEF r
  <2>3. SaveOK(r) /\ r.at \notin Writing
    BY <1>1, <2>2, SaveIs DEF SaveOK, UnderWay, Writing
  <2> QED BY <1>1, <2>1, <2>2, <2>3, SaveIs, SaveMoves
<1>3. CASE ~clash
  <2> DEFINE r == [save[s] EXCEPT !.at = "ok", !.rows = {}]
             i == save[s].id
  <2>1. save' = [save EXCEPT ![s] = r] /\ stored' = [stored EXCEPT ![i] = left \cup inserted]
    BY <1>1, <1>3, SaveIs DEF SaveState
  <2>2. r \in SaveState /\ r.at = "ok" /\ r.id = save[s].id /\ r.page = save[s].page /\ r.sent = save[s].sent
    BY SaveIs DEF SaveState
  <2>3. i \in 1 .. Len(stored) /\ i \in Nat \ {0} /\ save[s].at \in UnderWay /\ save[s].at \in Writing
    BY <1>1, SaveIs DEF SaveOK, UnderWay, Writing
  <2>4. inserted \in SUBSET QuestionRow /\ IsFiniteSet(inserted)
    BY SaveIs, RowsOfIs DEF SaveState
  <2>5. stored[i] \in SUBSET QuestionRow /\ IsFiniteSet(stored[i]) /\ stored \in Seq(SUBSET QuestionRow)
    BY <2>3, SaveIs DEF StoredOK
  <2>6. IsFiniteSet(left) /\ left \in SUBSET QuestionRow
    BY <2>5, FS_Difference
  <2> DEFINE rows == left \cup inserted
  <2>7. rows \in SUBSET QuestionRow /\ IsFiniteSet(rows)
    BY <2>4, <2>6, FS_Union
  <2>8. ~putsOverlapped =>
          /\ rows = inserted /\ \A t \in Saves \ {s} : save[t].at \in Writing => save[t].id # i
    BY <2>3, SaveIs DEF Rivals
  <2> HIDE DEF r, rows
  <2>9. /\ stored' \in Seq(SUBSET QuestionRow) /\ Len(stored') = Len(stored) /\ stored'[i] = rows
        /\ \A j \in 1 .. Len(stored) : j # i => stored'[j] = stored[j]
    BY <2>1, <2>3, <2>5, <2>7, ExceptSeq DEF rows
  <2>10. Len(stored') \in Nat /\ Len(stored) <= Len(stored') /\ i <= Len(stored') /\ r.id \in 0 .. Len(stored')
         /\ \A j \in 1 .. Len(stored') : j # i => j \in 1 .. Len(stored) /\ stored'[j] = stored[j]
    BY <2>2, <2>3, <2>9, SaveIs
  <2> HIDE DEF i
  <2>11. UNCHANGED <<page, edits, putsOverlapped>>
    BY <1>1
  <2> QED BY <2>1, <2>2, <2>3, <2>7, <2>8, <2>9, <2>10, <2>11, StoreStep
<1> QED BY <1>2, <1>3

LEMMA EditorInvStep == EditorInv /\ [EditorNext]_editorVars => EditorInv'
<1> SUFFICES ASSUME EditorInv, [EditorNext]_editorVars PROVE EditorInv'
  OBVIOUS
<1>1. ASSUME NEW p \in Pages,
             \/ LoadPage(p) \/ VisitAgain(p) \/ AddQuestion(p)
             \/ \E idx \in DOMAIN page[p].questions :
                  RemoveQuestion(p, idx) \/ MoveQuestion(p, idx) \/ UpdateQuestion(p, idx)
             \/ \E s \in Saves : ClickSave(p, s)
      PROVE  EditorInv'
  BY <1>1, LoadPageStep, VisitAgainStep, PageEditsStep, ClickSaveStep
<1>2. ASSUME NEW s \in Saves,
             \/ Parse(s) \/ CreateQuestionnaire(s) \/ StartDelete(s)
             \/ DeleteRows(s) \/ InsertRows(s) \/ SaveFails(s) \/ ShowReply(s)
      PROVE  EditorInv'
  BY <1>2, ParseStep, CreateQuestionnaireStep, StartDeleteStep, DeleteRowsStep, InsertRowsStep,
     SaveFailsStep, ShowReplyStep
<1>3. CASE UNCHANGED editorVars
  BY <1>3 DEF editorVars, EditorInv, StoredOK, EditorStateOK, SaveOK, EditorAlone, SnapshotOK, Rivals, WasSent
<1> QED BY <1>1, <1>2, <1>3 DEF EditorNext

LEMMA EditorInvAlways == EditorSpec => []EditorInv
BY EditorInvInit, EditorInvStep, PTL DEF EditorSpec

LEMMA EditorInvTypes == EditorInv => EditorTypeOK
<1> SUFFICES ASSUME EditorInv PROVE EditorTypeOK
  OBVIOUS
<1>1. ASSUME NEW i \in DOMAIN stored, NEW r \in stored[i]
      PROVE  r.by \in Saves \cup {"starter"} /\ r.question \in EditedQuestion /\ r.order \in Nat \ {0}
  <2>1. r \in QuestionRow
    BY <1>1 DEF EditorInv, StoredOK
  <2> QED BY <2>1 DEF QuestionRow
<1>2. ASSUME NEW p \in Pages
      PROVE  /\ page[p].view \in {"loading", "ready"}
             /\ page[p].id \in 0 .. Len(stored) /\ page[p].visit \in 0 .. MaxVisits
             /\ page[p].questions \in Seq(EditedQuestion) /\ page[p].saved \in BOOLEAN
  BY <1>2 DEF EditorInv, EditorStateOK, PageState
<1>3. ASSUME NEW s \in Saves
      PROVE  /\ save[s].at \in {"idle", "sent", "create", "replace", "deleting",
                                "deleted", "ok", "error", "refused", "done"}
             /\ save[s].id \in 0 .. Len(stored) /\ save[s].sent \in Seq(EditedQuestion)
  BY <1>3 DEF EditorInv, EditorStateOK, SaveState, SaveOK, UnderWay, Writing
<1> QED BY <1>1, <1>2, <1>3 DEF EditorTypeOK, EditorInv, EditorStateOK

\* The stored questionnaires, the pages and the saves have their types.
THEOREM EditorTypeCorrect == EditorSpec => []EditorTypeOK
<1>1. EditorInv => EditorTypeOK
  BY EditorInvTypes
<1> QED BY <1>1, EditorInvAlways, PTL

\* A call reads the questions of exactly one save: a PUT that overlaps no other deletes
\* every row that is there before it inserts its own, and what it sent was not empty
\* (the transaction in questionnaires.ts).
THEOREM StoredWasSent == EditorSpec => []StoredWasSentUnlessOverlapped
<1>1. EditorInv => StoredWasSentUnlessOverlapped
  BY DEF EditorInv, EditorAlone, WasSent, StoredWasSentUnlessOverlapped
<1> QED BY <1>1, EditorInvAlways, PTL

---------------------------------------------------------------------------
(***************************************************************************)
(* All the parts side by side.                                             *)
(***************************************************************************)

AdministrationInv ==
  /\ AccountsInv /\ RecordsInv /\ EditorInv /\ WebInv /\ WizardInv /\ PageInv /\ PromptsInv

\* Where one part moves, each part moves as it does alone or not at all.
LEMMA PartsMove ==
  ASSUME [MCNext]_<<focus, accountVars, recordVars, editorVars, webVars, wizardVars, pageVars, promptVars>>
  PROVE  /\ [AccountsNext]_accountVars /\ [RecordsNext]_recordVars /\ [EditorNext]_editorVars
         /\ [WebNext]_webVars /\ [WizardNext]_wizardVars /\ [PageNext]_pageVars /\ [PromptNext]_promptVars
         /\ UNCHANGED focus
<1>1. CASE Only("accounts", AccountsNext, <<recordVars, editorVars, webVars, wizardVars, pageVars, promptVars>>)
  BY <1>1 DEF Only
<1>2. CASE Only("records", RecordsNext /\ RecordsBound', <<accountVars, editorVars, webVars, wizardVars, pageVars, promptVars>>)
  BY <1>2 DEF Only
<1>3. CASE Only("editor", EditorNext, <<accountVars, recordVars, webVars, wizardVars, pageVars, promptVars>>)
  BY <1>3 DEF Only
<1>4. CASE Only("web", WebNext /\ WebBound', <<accountVars, recordVars, editorVars, wizardVars, pageVars, promptVars>>)
  BY <1>4 DEF Only
<1>5. CASE Only("wizard", WizardNext, <<accountVars, recordVars, editorVars, webVars, pageVars, promptVars>>)
  BY <1>5 DEF Only
<1>6. CASE Only("page", PageNext, <<accountVars, recordVars, editorVars, webVars, wizardVars, promptVars>>)
  BY <1>6 DEF Only
<1>7. CASE Only("prompts", PromptNext, <<accountVars, recordVars, editorVars, webVars, wizardVars, pageVars>>)
  BY <1>7 DEF Only
<1>8. CASE UNCHANGED <<focus, accountVars, recordVars, editorVars, webVars, wizardVars, pageVars, promptVars>>
  BY <1>8
<1> QED BY <1>1, <1>2, <1>3, <1>4, <1>5, <1>6, <1>7, <1>8 DEF MCNext

\* Every part keeps its inductive invariant, so the part that moves has its types: the
\* rows, the requests and the pages of every part, in any interleaving of one part.
THEOREM AdministrationTypeCorrect == MCSpec => []AdministrationTypeOK
<1>1. MCInit => AdministrationInv
  BY AccountsInvInit, RecordsInvInit, EditorInvInit, WebInvInit, WizardInvInit, PageInvInit, PromptsInvInit
     DEF MCInit, AdministrationInv
<1>2. AdministrationInv
      /\ [MCNext]_<<focus, accountVars, recordVars, editorVars, webVars, wizardVars, pageVars, promptVars>>
      => AdministrationInv'
  BY PartsMove, AccountsInvStep, RecordsInvStep, EditorInvStep, WebInvStep, WizardInvStep, PageInvStep,
     PromptsInvStep DEF AdministrationInv
<1>3. AdministrationInv => AdministrationTypeOK
  BY EditorInvTypes
     DEF AdministrationInv, AdministrationTypeOK, AccountsInv, RecordsInv, WebInv, PageInv, PromptsInv, WizardInv
<1> QED BY <1>1, <1>2, <1>3, PTL DEF MCSpec
=============================================================================
