--------------------------- MODULE CallLifecycle ---------------------------
(***************************************************************************)
(* The end of a call.  Three kinds of request write the row of a call:     *)
(* turns of the dialogue (Conversation), Twilio's status callbacks, and    *)
(* finalizeCall, which the last turn and the callback both run.  Nothing   *)
(* serialises them: each is a sequence of database statements, and works   *)
(* on what it read first.                                                  *)
(***************************************************************************)
EXTENDS Conversation

CONSTANTS
  Callbacks     \* status callback requests Twilio may send

ASSUME CallbacksAssumption == Callbacks \cap Turns = {}

VARIABLES
  reported,     \* CallDuration of the callbacks
  duration,     \* durationSeconds of the row: 0, this server's estimate, or Twilio's
  summary,      \* the answers the callSummary row was written from; {NoKey}: no row
  usage,        \* the usageEvent row: "none", "minutes" (no tokens) or "full"
  effects,      \* how often each effect of finalizeCall has happened
  finalizer,    \* finalizeCall as run by each request
  callback,     \* the status callback requests
  raced         \* some request began while another one was in flight

endVars == <<reported, duration, summary, usage, effects, finalizer, callback, raced>>
allVars == <<vars, endVars>>

Requests == Turns \cup Callbacks

Pipeline == INSTANCE CallPipeline WITH
  consent <- call.consentGiven,
  performed <- {e \in DOMAIN effects : effects[e] > 0}

Effects == {"llm", "summary", "completed", "billed", "tenant_mail", "caller_mail", "appointment"}

\* What parseCallDuration makes of Twilio's field: null, nothing to charge, or seconds.
CallDurations == {"absent", "zero", "reported"}

NoRow == {NoKey}
Durations == {"zero", "estimated", "reported"}
Usages == {"none", "minutes", "full"}

FinalizerPcs == {"off", "generate", "summarize", "complete", "bill", "mail",
                 "mailCaller", "book", "return"}

\* What finalizeCall read when it began: the answered questions, the consent to the
\* caller's e-mail, whether there is an address and a date, and the duration.
Finalizer == [pc : FinalizerPcs, answered : SUBSET Keys, mailCaller : BOOLEAN,
              book : BOOLEAN, duration : Durations]

NoFinalizer == [pc |-> "off", answered |-> {}, mailCaller |-> FALSE, book |-> FALSE,
                duration |-> "zero"]

CallbackPcs == {"new", "persistDuration", "finalize", "abandon", "abandonUsage",
                "backfill", "backfillUsage", "done"}

\* What a callback read when it began: the duration and whether a usage event exists.
Callback == [pc : CallbackPcs, duration : Durations, hasUsage : BOOLEAN, final : BOOLEAN]

NewCallback == [pc |-> "new", duration |-> "zero", hasUsage |-> FALSE, final |-> FALSE]

EndTypeOK ==
  /\ reported \in CallDurations
  /\ duration \in Durations
  /\ summary \in SUBSET (Keys \cup {NoKey})
  /\ usage \in Usages
  /\ effects \in [Effects -> Nat]
  /\ finalizer \in [Requests -> Finalizer]
  /\ callback \in [Callbacks -> Callback]
  /\ raced \in BOOLEAN

LifecycleTypeOK == TypeOK /\ EndTypeOK

InitLifecycle ==
  /\ Init
  /\ reported \in CallDurations
  /\ duration = "zero"
  /\ summary = NoRow
  /\ usage = "none"
  /\ effects = [e \in Effects |-> 0]
  /\ finalizer = [p \in Requests |-> NoFinalizer]
  /\ callback = [c \in Callbacks |-> NewCallback]
  /\ raced = FALSE

Answered == {k \in Keys : IsAnswered(answers, k)}

HasDate(known) ==
  \E k \in DOMAIN questionnaire : questionnaire[k].type = "datetime" /\ Truthy(known[k])

InFlight ==
  {t \in Turns : turn[t].pc # "idle"} \cup {c \in Callbacks : callback[c].pc \notin {"new", "done"}}

NoteRace == raced' = (raced \/ InFlight # {})

Happens(e) == effects' = [effects EXCEPT ![e] = @ + 1]

-----------------------------------------------------------------------------
(***************************************************************************)
(* Turns, as in Conversation, up to the call of finalizeCall.              *)
(***************************************************************************)

TurnBegins(t) ==
  /\ RequestStep(t)
  /\ NoteRace
  /\ UNCHANGED <<reported, duration, summary, usage, effects, finalizer, callback>>

TurnContinues(t) == DialogueStep(t) /\ UNCHANGED endVars

HangUp == CallerHangsUp /\ UNCHANGED endVars

-----------------------------------------------------------------------------
(***************************************************************************)
(* finalizeCall, run by a turn or a callback.                              *)
(***************************************************************************)

MayFinalize(p) ==
  IF p \in Turns THEN turn[p].pc = "finalize" ELSE callback[p].pc = "finalize"

FinalizerAt(p, pc) == MayFinalize(p) /\ finalizer[p].pc = pc
FinalizerGoto(p, pc) == finalizer' = [finalizer EXCEPT ![p].pc = pc]

\* The one query finalizeCall decides on; "completed" is its only guard against a
\* second run.
ReadCall(p) ==
  /\ FinalizerAt(p, "off")
  /\ finalizer' = [finalizer EXCEPT ![p] =
       IF call.status = "completed"
         THEN [NoFinalizer EXCEPT !.pc = "return"]
         ELSE [pc |-> "generate",
               answered |-> Answered,
               mailCaller |-> call.callerEmailConsent /\ HasEmail(answers),
               book |-> HasDate(answers),
               duration |-> duration]]
  /\ UNCHANGED <<vars, reported, duration, summary, usage, effects, callback, raced>>

\* The transcript and the answers go to the language model (or its local fallback).
GenerateSummary(p) ==
  /\ FinalizerAt(p, "generate")
  /\ FinalizerGoto(p, "summarize")
  /\ Happens("llm")
  /\ UNCHANGED <<vars, reported, duration, summary, usage, callback, raced>>

UpsertSummary(p) ==
  /\ FinalizerAt(p, "summarize")
  /\ FinalizerGoto(p, "complete")
  /\ summary' = finalizer[p].answered
  /\ Happens("summary")
  /\ UNCHANGED <<vars, reported, duration, usage, callback, raced>>

\* Mutation: the duration is always the time since the start.
CompleteCall_Estimates(p) ==
  /\ FinalizerAt(p, "complete")
  /\ FinalizerGoto(p, "bill")
  /\ call' = [call EXCEPT !.status = "completed"]
  /\ duration' = "estimated"
  /\ Happens("completed")
  /\ UNCHANGED <<questionnaire, channel, line, state, answers, turn, faults>>
  /\ UNCHANGED <<reported, summary, usage, callback, raced>>

\* Mutation: the mails are sent before the usage is recorded.
CompleteCall_MailsNext(p) ==
  /\ FinalizerAt(p, "complete")
  /\ FinalizerGoto(p, "mail")
  /\ call' = [call EXCEPT !.status = "completed"]
  /\ duration' = IF finalizer[p].duration = "zero" THEN "estimated" ELSE finalizer[p].duration
  /\ Happens("completed")
  /\ UNCHANGED <<questionnaire, channel, line, state, answers, turn, faults>>
  /\ UNCHANGED <<reported, summary, usage, callback, raced>>

\* A duration of zero when the call was read is replaced by the time since its start.
CompleteCall(p) ==
  /\ FinalizerAt(p, "complete")
  /\ FinalizerGoto(p, "bill")
  /\ call' = [call EXCEPT !.status = "completed"]
  /\ duration' = IF finalizer[p].duration = "zero" THEN "estimated" ELSE finalizer[p].duration
  /\ Happens("completed")
  /\ UNCHANGED <<questionnaire, channel, line, state, answers, turn, faults>>
  /\ UNCHANGED <<reported, summary, usage, callback, raced>>

\* recordUsage with the tokens of the dialogue and the summary.
BillCall(p) ==
  /\ FinalizerAt(p, "bill")
  /\ FinalizerGoto(p, "mail")
  /\ usage' = "full"
  /\ Happens("billed")
  /\ UNCHANGED <<vars, reported, duration, summary, callback, raced>>

\* The tenant's summary mail.  One recipient stands for the tenant's list.
MailTenant(p) ==
  /\ FinalizerAt(p, "mail")
  /\ FinalizerGoto(p, IF finalizer[p].mailCaller THEN "mailCaller" ELSE
                      IF finalizer[p].book THEN "book" ELSE "return")
  /\ Happens("tenant_mail")
  /\ UNCHANGED <<vars, reported, duration, summary, usage, callback, raced>>

MailCaller(p) ==
  /\ FinalizerAt(p, "mailCaller")
  /\ FinalizerGoto(p, IF finalizer[p].book THEN "book" ELSE "return")
  /\ Happens("caller_mail")
  /\ UNCHANGED <<vars, reported, duration, summary, usage, callback, raced>>

\* createAppointment; its errors are caught here.
BookAppointment(p) ==
  /\ FinalizerAt(p, "book")
  /\ FinalizerGoto(p, "return")
  /\ Happens("appointment")
  /\ UNCHANGED <<vars, reported, duration, summary, usage, callback, raced>>

\* finalizeCall returns to the turn, which says goodbye, or to the callback.
FinalizeReturns(p) ==
  /\ FinalizerAt(p, "return")
  /\ finalizer' = [finalizer EXCEPT ![p] = NoFinalizer]
  /\ IF p \in Turns
       THEN Say(p, "hangup") /\ UNCHANGED callback
       ELSE callback' = [callback EXCEPT ![p].pc = "done"] /\ UNCHANGED turn
  /\ UNCHANGED <<questionnaire, channel, line, call, state, answers, faults>>
  /\ UNCHANGED <<reported, duration, summary, usage, effects, raced>>

\* finalizeCall throws.  The turn then sets the status to "failed", unless the outage
\* takes that update with it; the callback logs the error and is done.
FinalizeThrows(p) ==
  /\ MayFinalize(p)
  /\ finalizer[p].pc \notin {"book", "return"}
  /\ faults < MaxFaults
  /\ faults' = faults + 1
  /\ finalizer' = [finalizer EXCEPT ![p] = NoFinalizer]
  /\ IF p \in Turns
       THEN /\ \E s \in {"failed", call.status} : call' = [call EXCEPT !.status = s]
            /\ Say(p, "hangup")
            /\ UNCHANGED callback
       ELSE /\ callback' = [callback EXCEPT ![p].pc = "done"]
            /\ UNCHANGED <<call, turn>>
  /\ UNCHANGED <<questionnaire, channel, line, state, answers>>
  /\ UNCHANGED <<reported, duration, summary, usage, effects, raced>>

-----------------------------------------------------------------------------
(***************************************************************************)
(* The status callback.                                                    *)
(***************************************************************************)

\* Mutation: every call that did not end is finalised.
ClassifyEndOfCall_FinalizesAll(isFinal, status, consentGiven, answerCount) ==
  CASE ~isFinal -> "ignore"
    [] isFinal /\ status \in {"completed", "declined", "failed"} -> "backfill"
    [] OTHER -> "finalize"

\* Mutation: a failed finalisation is retried.
ClassifyEndOfCall_RetriesFailed(isFinal, status, consentGiven, answerCount) ==
  CASE ~isFinal -> "ignore"
    [] isFinal /\ status \in {"completed", "declined"} -> "backfill"
    [] OTHER -> IF consentGiven /\ answerCount > 0 THEN "finalize" ELSE "abandon"

\* Mutation: a call without consent is left alone.
ClassifyEndOfCall_IgnoresPending(isFinal, status, consentGiven, answerCount) ==
  CASE ~isFinal \/ status = "consent_pending" -> "ignore"
    [] isFinal /\ status \in {"completed", "declined", "failed"} -> "backfill"
    [] OTHER -> IF consentGiven /\ answerCount > 0 THEN "finalize" ELSE "abandon"

ClassifyEndOfCall(isFinal, status, consentGiven, answerCount) ==
  CASE ~isFinal -> "ignore"
    [] isFinal /\ status \in {"completed", "declined", "failed"} -> "backfill"
    [] isFinal /\ status = "in_progress" ->
         IF consentGiven /\ answerCount > 0 THEN "finalize" ELSE "abandon"
    [] OTHER -> "abandon"

CallbackGoto(c, pc) == callback' = [callback EXCEPT ![c].pc = pc]

\* A simulated call has no callback: its provider id is the server's own.  A final
\* status is reported when the call is over; other statuses arrive at any time.
ReceiveCallback(c) ==
  /\ callback[c].pc = "new"
  /\ channel = "phone"
  /\ \E isFinal \in BOOLEAN :
       /\ isFinal => line = "closed"
       /\ LET action == ClassifyEndOfCall(isFinal, call.status, call.consentGiven,
                                          Cardinality(Answered)) IN
          callback' = [callback EXCEPT ![c] =
            [pc |-> CASE action = "finalize" -> IF reported = "absent" THEN "finalize"
                                                                       ELSE "persistDuration"
                      [] action = "abandon"  -> "abandon"
                      [] action = "backfill" -> "backfill"
                      [] OTHER               -> "done",
             duration |-> duration,
             hasUsage |-> usage # "none",
             final |-> isFinal]]
       /\ raced' = (raced \/ (isFinal /\ InFlight # {}))
  /\ UNCHANGED <<vars, reported, duration, summary, usage, effects, finalizer>>

\* Mutation: the callback's status goes into the row along with the duration.
PersistDuration_WithStatus(c) ==
  /\ callback[c].pc = "persistDuration"
  /\ CallbackGoto(c, "finalize")
  /\ duration' = reported
  /\ call' = [call EXCEPT !.status = "completed"]
  /\ UNCHANGED <<questionnaire, channel, line, state, answers, turn, faults>>
  /\ UNCHANGED <<reported, summary, usage, effects, finalizer, raced>>

PersistDuration(c) ==
  /\ callback[c].pc = "persistDuration"
  /\ CallbackGoto(c, "finalize")
  /\ duration' = reported
  /\ UNCHANGED <<vars, reported, summary, usage, effects, finalizer, raced>>

AbandonCall(c) ==
  /\ callback[c].pc = "abandon"
  /\ CallbackGoto(c, "abandonUsage")
  /\ call' = [call EXCEPT !.status = "failed"]
  /\ duration' = IF reported = "absent" THEN "estimated" ELSE reported
  /\ UNCHANGED <<questionnaire, channel, line, state, answers, turn, faults>>
  /\ UNCHANGED <<reported, summary, usage, effects, finalizer, raced>>

\* recordUsage without tokens overwrites whatever usage event there is.
RecordAbandonedUsage(c) ==
  /\ callback[c].pc = "abandonUsage"
  /\ CallbackGoto(c, "done")
  /\ usage' = "minutes"
  /\ UNCHANGED <<vars, reported, duration, summary, effects, finalizer, raced>>

\* Mutation: a missing CallDuration is stored like any other.
BackfillDuration_Unchecked(c) ==
  /\ callback[c].pc = "backfill"
  /\ CallbackGoto(c, "backfillUsage")
  /\ duration' = IF callback[c].duration = "zero" THEN reported ELSE duration
  /\ UNCHANGED <<vars, reported, summary, usage, effects, finalizer, raced>>

\* Both conditions are on what the callback read when it began.
BackfillDuration(c) ==
  /\ callback[c].pc = "backfill"
  /\ CallbackGoto(c, "backfillUsage")
  /\ duration' = IF reported # "absent" /\ callback[c].duration = "zero" THEN reported ELSE duration
  /\ UNCHANGED <<vars, reported, summary, usage, effects, finalizer, raced>>

\* Mutation: the usage is recorded although there is a usage event.
BackfillUsage_Unchecked(c) ==
  /\ callback[c].pc = "backfillUsage"
  /\ CallbackGoto(c, "done")
  /\ usage' = IF reported # "zero" THEN "minutes" ELSE usage
  /\ UNCHANGED <<vars, reported, duration, summary, effects, finalizer, raced>>

BackfillUsage(c) ==
  /\ callback[c].pc = "backfillUsage"
  /\ CallbackGoto(c, "done")
  /\ LET seconds == IF reported = "absent" THEN callback[c].duration ELSE reported IN
     usage' = IF ~callback[c].hasUsage /\ seconds # "zero" THEN "minutes" ELSE usage
  /\ UNCHANGED <<vars, reported, duration, summary, effects, finalizer, raced>>

\* Any error is logged and the callback answered with 200.
CallbackThrows(c) ==
  /\ callback[c].pc \in {"persistDuration", "abandon", "abandonUsage", "backfill", "backfillUsage"}
  /\ faults < MaxFaults
  /\ faults' = faults + 1
  /\ CallbackGoto(c, "done")
  /\ UNCHANGED <<questionnaire, channel, line, call, state, answers, turn>>
  /\ UNCHANGED <<reported, duration, summary, usage, effects, finalizer, raced>>

-----------------------------------------------------------------------------

FinalizerStep(p) ==
  \/ ReadCall(p) \/ GenerateSummary(p) \/ UpsertSummary(p) \/ CompleteCall(p) \/ BillCall(p)
  \/ MailTenant(p) \/ MailCaller(p) \/ BookAppointment(p) \/ FinalizeReturns(p)
  \/ FinalizeThrows(p)

CallbackStep(c) ==
  \/ PersistDuration(c) \/ AbandonCall(c) \/ RecordAbandonedUsage(c)
  \/ BackfillDuration(c) \/ BackfillUsage(c) \/ CallbackThrows(c)

NextLifecycle ==
  \/ \E t \in Turns : TurnBegins(t) \/ TurnContinues(t)
  \/ \E p \in Requests : FinalizerStep(p)
  \/ \E c \in Callbacks : ReceiveCallback(c) \/ CallbackStep(c)
  \/ HangUp

LifecycleSpec == InitLifecycle /\ [][NextLifecycle]_allVars

\* A request that is in flight runs on: Node schedules its continuations, and a statement
\* returns or throws.  Nothing makes a caller speak, hang up, or Twilio call back.
FairLifecycleSpec ==
  /\ LifecycleSpec
  /\ \A t \in Turns : WF_allVars(TurnContinues(t))
  /\ \A p \in Requests : WF_allVars(FinalizerStep(p))
  /\ \A c \in Callbacks : WF_allVars(CallbackStep(c))

-----------------------------------------------------------------------------
(***************************************************************************)
(* Properties.  "Unless raced": as long as every request ended before the  *)
(* next one began.  Statements may fail in between.                        *)
(***************************************************************************)

FinalStatuses == {"completed", "declined", "failed"}

\* "No consent means no LLM processing" (call-lifecycle.ts:12-13), for the dialogue and
\* the callback in any interleaving.
NoLlmWithoutConsent == effects["llm"] > 0 => call.consentGiven

\* The processing keeps the order of CallPipeline, however many requests run it.
ImplementsPipeline == Pipeline!Spec

\* One after the other, the requests of a call mail the tenant and the caller and book
\* the appointment at most once, whichever statements fail on the way, and mail the
\* caller only with the consent the row records.
MailsHoldUnlessRaced ==
  ~raced =>
    /\ \A e \in {"tenant_mail", "caller_mail", "appointment"} : effects[e] <= 1
    /\ effects["caller_mail"] > 0 => call.callerEmailConsent

\* Once a final callback has been handled and nothing failed, the row has a final
\* status: classifyEndOfCall has an answer for whatever the dialogue left behind.
SettledUnlessRaced ==
  ~raced /\ faults = 0 /\ (\E c \in Callbacks : callback[c].pc = "done" /\ callback[c].final)
    => call.status \in FinalStatuses

\* What is kept of a completed call is whole: every stored answer is in its summary, and
\* the token-less cost a callback records never replaces the full cost of the finaliser.
ResultsAreWholeUnlessRaced ==
  ~raced =>
    /\ call.status = "completed" => summary = Answered
    /\ effects["billed"] > 0 => usage = "full"

\* Twilio's duration, once stored, is not replaced by the server's estimate.
ReportedDurationKeptUnlessRaced ==
  [][~raced' /\ duration = "reported" => duration' = "reported"]_allVars

\* A callback that decided to finalise leaves the tenant mailed - by itself or by the
\* run that had already completed the call - unless a statement fails.
FinalizeCallbackDelivers ==
  \A c \in Callbacks :
    callback[c].pc = "finalize" ~> (effects["tenant_mail"] > 0 \/ faults > 0)

\* "Without this, abandoned calls stayed in consent_pending/in_progress forever"
\* (webhooks.ts:207-208): with it, once a final callback and every turn are done, the
\* status is final.
CallbackSettlesCall ==
  (\E c \in Callbacks : callback[c].pc = "done" /\ callback[c].final) /\ InFlight = {}
    => call.status \in FinalStatuses

\* "services/summary.service.ts runs once per call" (docs/ARCHITECTURE.md:46).
RunsOncePerCall == effects["tenant_mail"] <= 1
=============================================================================
