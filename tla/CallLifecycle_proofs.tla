------------------------ MODULE CallLifecycle_proofs ------------------------
(***************************************************************************)
(* Theorems about the end of a call: for every questionnaire, any set of   *)
(* overlapping turns and callbacks, and any number of outages.             *)
(***************************************************************************)
EXTENDS CallLifecycle, Conversation_proofs

(***************************************************************************)
(* Type correctness.                                                       *)
(***************************************************************************)

LEMMA NewTypes ==
  /\ NoFinalizer \in Finalizer
  /\ NewCallback \in Callback
BY DEF NoFinalizer, Finalizer, FinalizerPcs, Durations, NewCallback, Callback, CallbackPcs

LEMMA FinalizerGotoType ==
  ASSUME EndTypeOK, NEW p \in Requests, NEW pc \in FinalizerPcs, FinalizerGoto(p, pc)
  PROVE  finalizer' \in [Requests -> Finalizer]
BY DEF EndTypeOK, FinalizerGoto, Finalizer

LEMMA CallbackGotoType ==
  ASSUME EndTypeOK, NEW c \in Callbacks, NEW pc \in CallbackPcs, CallbackGoto(c, pc)
  PROVE  callback' \in [Callbacks -> Callback]
BY DEF EndTypeOK, CallbackGoto, Callback

LEMMA HappensType ==
  ASSUME EndTypeOK, NEW e \in Effects, Happens(e)
  PROVE  effects' \in [Effects -> Nat]
BY DEF EndTypeOK, Happens

LEMMA AnsweredType == Answered \in SUBSET Keys
BY DEF Answered

\* What each step of finalizeCall does to the rest of the system's state.
LEMMA FinalizerStepType ==
  ASSUME LifecycleTypeOK, NEW p \in Requests, FinalizerStep(p)
  PROVE  LifecycleTypeOK'
<1> USE DEF LifecycleTypeOK
<1>1. CASE ReadCall(p)
  <2>1. UNCHANGED vars /\ UNCHANGED <<reported, duration, summary, usage, effects, callback, raced>>
    BY <1>1 DEF ReadCall
  <2>2. [NoFinalizer EXCEPT !.pc = "return"] \in Finalizer
    BY NewTypes DEF Finalizer, FinalizerPcs
  <2>3. call.callerEmailConsent \in BOOLEAN /\ HasEmail(answers) \in BOOLEAN /\ HasDate(answers) \in BOOLEAN
        /\ duration \in Durations
    BY DEF TypeOK, Call, HasEmail, HasDate, EndTypeOK
  <2>4. [pc |-> "generate", answered |-> Answered,
         mailCaller |-> call.callerEmailConsent /\ HasEmail(answers),
         book |-> HasDate(answers), duration |-> duration] \in Finalizer
    BY <2>3, AnsweredType DEF Finalizer, FinalizerPcs
  <2>5. finalizer' \in [Requests -> Finalizer]
    BY <1>1, <2>2, <2>4 DEF ReadCall, EndTypeOK
  <2> QED BY <2>1, <2>5 DEF vars, TypeOK, EndTypeOK
<1>2. CASE GenerateSummary(p)
  <2>1. UNCHANGED vars /\ UNCHANGED <<reported, duration, summary, usage, callback, raced>>
    BY <1>2 DEF GenerateSummary
  <2>2. finalizer' \in [Requests -> Finalizer] /\ effects' \in [Effects -> Nat]
    BY <1>2, FinalizerGotoType, HappensType DEF GenerateSummary, FinalizerPcs, Effects
  <2> QED BY <2>1, <2>2 DEF vars, TypeOK, EndTypeOK
<1>3. CASE UpsertSummary(p)
  <2>1. UNCHANGED vars /\ UNCHANGED <<reported, duration, usage, callback, raced>>
    BY <1>3 DEF UpsertSummary
  <2>2. finalizer' \in [Requests -> Finalizer] /\ effects' \in [Effects -> Nat]
    BY <1>3, FinalizerGotoType, HappensType DEF UpsertSummary, FinalizerPcs, Effects
  <2>3. summary' \in SUBSET (Keys \cup {NoKey})
    BY <1>3 DEF UpsertSummary, EndTypeOK, Finalizer
  <2> QED BY <2>1, <2>2, <2>3 DEF vars, TypeOK, EndTypeOK
<1>4. CASE CompleteCall(p)
  <2>1. UNCHANGED <<questionnaire, channel, line, state, answers, turn, faults>>
        /\ UNCHANGED <<reported, summary, usage, callback, raced>>
    BY <1>4 DEF CompleteCall
  <2>2. finalizer' \in [Requests -> Finalizer] /\ effects' \in [Effects -> Nat]
    BY <1>4, FinalizerGotoType, HappensType DEF CompleteCall, FinalizerPcs, Effects
  <2>3. call' \in Call
    BY <1>4, StatusType DEF CompleteCall, Statuses
  <2>4. duration' \in Durations
    BY <1>4 DEF CompleteCall, EndTypeOK, Finalizer, Durations
  <2> QED BY <2>1, <2>2, <2>3, <2>4 DEF TypeOK, EndTypeOK
<1>5. CASE BillCall(p)
  <2>1. UNCHANGED vars /\ UNCHANGED <<reported, duration, summary, callback, raced>> /\ usage' = "full"
    BY <1>5 DEF BillCall
  <2>2. finalizer' \in [Requests -> Finalizer] /\ effects' \in [Effects -> Nat]
    BY <1>5, FinalizerGotoType, HappensType DEF BillCall, FinalizerPcs, Effects
  <2> QED BY <2>1, <2>2 DEF vars, TypeOK, EndTypeOK, Usages
<1>6. CASE MailTenant(p) \/ MailCaller(p) \/ BookAppointment(p)
  <2>1. UNCHANGED vars /\ UNCHANGED <<reported, duration, summary, usage, callback, raced>>
    BY <1>6 DEF MailTenant, MailCaller, BookAppointment
  <2>2. \E pc \in FinalizerPcs : FinalizerGoto(p, pc)
    BY <1>6 DEF MailTenant, MailCaller, BookAppointment, FinalizerPcs
  <2>3. \E e \in Effects : Happens(e)
    BY <1>6 DEF MailTenant, MailCaller, BookAppointment, Effects
  <2>4. finalizer' \in [Requests -> Finalizer] /\ effects' \in [Effects -> Nat]
    BY <2>2, <2>3, FinalizerGotoType, HappensType
  <2> QED BY <2>1, <2>4 DEF vars, TypeOK, EndTypeOK
<1>7. CASE FinalizeReturns(p)
  <2>1. UNCHANGED <<questionnaire, channel, line, call, state, answers, faults>>
        /\ UNCHANGED <<reported, duration, summary, usage, effects, raced>>
    BY <1>7 DEF FinalizeReturns
  <2>2. finalizer' \in [Requests -> Finalizer]
    BY <1>7, NewTypes DEF FinalizeReturns, EndTypeOK
  <2>3. turn' \in [Turns -> Turn] /\ callback' \in [Callbacks -> Callback]
    <3>1. CASE p \in Turns
      BY <1>7, <3>1, SayType DEF FinalizeReturns, TypeOK, EndTypeOK
    <3>2. CASE p \notin Turns
      BY <1>7, <3>2 DEF FinalizeReturns, TypeOK, EndTypeOK, Callback, CallbackPcs, Requests
    <3> QED BY <3>1, <3>2
  <2> QED BY <2>1, <2>2, <2>3 DEF TypeOK, EndTypeOK
<1>8. CASE FinalizeThrows(p)
  <2>1. UNCHANGED <<questionnaire, channel, line, state, answers>>
        /\ UNCHANGED <<reported, duration, summary, usage, effects, raced>>
    BY <1>8 DEF FinalizeThrows
  <2>2. finalizer' \in [Requests -> Finalizer]
    BY <1>8, NewTypes DEF FinalizeThrows, EndTypeOK
  <2>3. faults' \in 0 .. MaxFaults
    BY <1>8, MaxFaultsAssumption DEF FinalizeThrows, TypeOK
  <2>4. turn' \in [Turns -> Turn] /\ callback' \in [Callbacks -> Callback] /\ call' \in Call
    <3>1. CASE p \in Turns
      <4>1. PICK s \in {"failed", call.status} : call' = [call EXCEPT !.status = s]
        BY <1>8, <3>1 DEF FinalizeThrows
      <4>2. call' \in Call
        BY <4>1, StatusType DEF TypeOK, Call, Statuses
      <4> QED BY <1>8, <3>1, <4>2, SayType DEF FinalizeThrows, EndTypeOK
    <3>2. CASE p \notin Turns
      BY <1>8, <3>2 DEF FinalizeThrows, TypeOK, EndTypeOK, Callback, CallbackPcs, Requests
    <3> QED BY <3>1, <3>2
  <2> QED BY <2>1, <2>2, <2>3, <2>4 DEF TypeOK, EndTypeOK
<1> QED BY <1>1, <1>2, <1>3, <1>4, <1>5, <1>6, <1>7, <1>8 DEF FinalizerStep

\* A callback stores a duration in advance only if Twilio sent one.  Without this, the
\* type of duration is not inductive.
DurationKnown == \A c \in Callbacks : callback[c].pc = "persistDuration" => reported # "absent"

LEMMA ReceivedCallback ==
  ASSUME LifecycleTypeOK, NEW c \in Callbacks, ReceiveCallback(c)
  PROVE  \E pc \in CallbackPcs, d \in Durations, u \in BOOLEAN, f \in BOOLEAN :
           /\ callback' = [callback EXCEPT ![c] = [pc |-> pc, duration |-> d, hasUsage |-> u, final |-> f]]
           /\ pc = "persistDuration" => reported # "absent"
           /\ pc \in {"persistDuration", "finalize"} =>
                ClassifyEndOfCall(f, call.status, call.consentGiven, Cardinality(Answered)) = "finalize"
<1> DEFINE action(f) == ClassifyEndOfCall(f, call.status, call.consentGiven, Cardinality(Answered))
           entry(a) == CASE a = "finalize" -> IF reported = "absent" THEN "finalize"
                                                                     ELSE "persistDuration"
                         [] a = "abandon"  -> "abandon"
                         [] a = "backfill" -> "backfill"
                         [] OTHER          -> "done"
<1>1. \A a : /\ entry(a) \in CallbackPcs
             /\ entry(a) = "persistDuration" => reported # "absent"
             /\ entry(a) \in {"persistDuration", "finalize"} => a = "finalize"
  BY DEF CallbackPcs
<1>2. PICK f \in BOOLEAN :
        callback' = [callback EXCEPT ![c] = [pc |-> entry(action(f)), duration |-> duration,
                                             hasUsage |-> usage # "none", final |-> f]]
  BY DEF ReceiveCallback
<1>3. duration \in Durations /\ (usage # "none") \in BOOLEAN
  BY DEF LifecycleTypeOK, EndTypeOK
<1> HIDE DEF entry
<1> QED BY <1>1, <1>2, <1>3

LEMMA CallbackType ==
  ASSUME LifecycleTypeOK, DurationKnown, NEW c \in Callbacks, ReceiveCallback(c) \/ CallbackStep(c)
  PROVE  LifecycleTypeOK'
<1> USE DEF LifecycleTypeOK
<1>1. CASE ReceiveCallback(c)
  <2>1. UNCHANGED <<vars, reported, duration, summary, usage, effects, finalizer>>
    BY <1>1 DEF ReceiveCallback
  <2>2. raced' \in BOOLEAN
    BY <1>1 DEF ReceiveCallback, EndTypeOK
  <2>3. callback' \in [Callbacks -> Callback]
    BY <1>1, ReceivedCallback DEF EndTypeOK, Callback
  <2> QED BY <2>1, <2>2, <2>3 DEF vars, TypeOK, EndTypeOK
<1>2. CASE PersistDuration(c) \/ BackfillDuration(c)
  <2>1. UNCHANGED <<vars, reported, summary, usage, effects, finalizer, raced>>
    BY <1>2 DEF PersistDuration, BackfillDuration
  <2>2. callback' \in [Callbacks -> Callback]
    BY <1>2, CallbackGotoType DEF PersistDuration, BackfillDuration, CallbackPcs
  <2>3. duration' \in Durations
    BY <1>2 DEF PersistDuration, BackfillDuration, EndTypeOK, CallDurations, Durations, DurationKnown
  <2> QED BY <2>1, <2>2, <2>3 DEF vars, TypeOK, EndTypeOK
<1>3. CASE AbandonCall(c)
  <2>1. UNCHANGED <<questionnaire, channel, line, state, answers, turn, faults>>
        /\ UNCHANGED <<reported, summary, usage, effects, finalizer, raced>>
    BY <1>3 DEF AbandonCall
  <2>2. callback' \in [Callbacks -> Callback]
    BY <1>3, CallbackGotoType DEF AbandonCall, CallbackPcs
  <2>3. duration' \in Durations /\ call' \in Call
    BY <1>3, StatusType DEF AbandonCall, EndTypeOK, CallDurations, Durations, Statuses
  <2> QED BY <2>1, <2>2, <2>3 DEF TypeOK, EndTypeOK
<1>4. CASE RecordAbandonedUsage(c) \/ BackfillUsage(c)
  <2>1. UNCHANGED <<vars, reported, duration, summary, effects, finalizer, raced>>
    BY <1>4 DEF RecordAbandonedUsage, BackfillUsage
  <2>2. callback' \in [Callbacks -> Callback]
    BY <1>4, CallbackGotoType DEF RecordAbandonedUsage, BackfillUsage, CallbackPcs
  <2>3. usage' \in Usages
    BY <1>4 DEF RecordAbandonedUsage, BackfillUsage, EndTypeOK, Usages
  <2> QED BY <2>1, <2>2, <2>3 DEF vars, TypeOK, EndTypeOK
<1>5. CASE CallbackThrows(c)
  <2>1. UNCHANGED <<questionnaire, channel, line, call, state, answers, turn>>
        /\ UNCHANGED <<reported, duration, summary, usage, effects, finalizer, raced>>
    BY <1>5 DEF CallbackThrows
  <2>2. callback' \in [Callbacks -> Callback]
    BY <1>5, CallbackGotoType DEF CallbackThrows, CallbackPcs
  <2>3. faults' \in 0 .. MaxFaults
    BY <1>5, MaxFaultsAssumption DEF CallbackThrows, TypeOK
  <2> QED BY <2>1, <2>2, <2>3 DEF TypeOK, EndTypeOK
<1> QED BY <1>1, <1>2, <1>3, <1>4, <1>5 DEF CallbackStep

LEMMA DurationKnownKept ==
  ASSUME LifecycleTypeOK, DurationKnown, [NextLifecycle]_allVars
  PROVE  DurationKnown'
<1>1. callback \in [Callbacks -> Callback]
  BY DEF LifecycleTypeOK, EndTypeOK
<1>2. CASE \/ \E t \in Turns : TurnBegins(t) \/ TurnContinues(t)
           \/ HangUp
           \/ UNCHANGED allVars
  BY <1>2 DEF TurnBegins, TurnContinues, HangUp, endVars, allVars, DurationKnown
<1>3. CASE \E p \in Requests : FinalizerStep(p)
  <2>1. PICK p \in Requests : FinalizerStep(p)
    BY <1>3
  <2>2. UNCHANGED reported /\ (UNCHANGED callback \/ callback' = [callback EXCEPT ![p].pc = "done"])
    BY <2>1 DEF FinalizerStep, ReadCall, GenerateSummary, UpsertSummary, CompleteCall, BillCall,
       MailTenant, MailCaller, BookAppointment, FinalizeReturns, FinalizeThrows
  <2> QED BY <1>1, <2>2 DEF DurationKnown, Callback
<1>4. CASE \E c \in Callbacks : ReceiveCallback(c)
  <2>1. PICK c \in Callbacks : ReceiveCallback(c)
    BY <1>4
  <2>2. UNCHANGED reported
    BY <2>1 DEF ReceiveCallback
  <2> QED BY <1>1, <2>1, <2>2, ReceivedCallback DEF DurationKnown
<1>5. CASE \E c \in Callbacks : CallbackStep(c)
  <2>1. PICK c \in Callbacks : CallbackStep(c)
    BY <1>5
  <2>2. UNCHANGED reported
    BY <2>1 DEF CallbackStep, PersistDuration, AbandonCall, RecordAbandonedUsage, BackfillDuration,
       BackfillUsage, CallbackThrows
  <2>3. \E pc \in {"finalize", "abandonUsage", "backfillUsage", "done"} : CallbackGoto(c, pc)
    BY <2>1 DEF CallbackStep, PersistDuration, AbandonCall, RecordAbandonedUsage, BackfillDuration,
       BackfillUsage, CallbackThrows
  <2> QED BY <1>1, <2>2, <2>3 DEF DurationKnown, CallbackGoto, Callback
<1> QED BY <1>2, <1>3, <1>4, <1>5 DEF NextLifecycle

\* The state of a call and of its processing stays within its types, whatever requests
\* overlap: in particular the clarification counter never passes two, and every request
\* in flight stands at a statement of its handler.
THEOREM LifecycleTypeCorrect == LifecycleSpec => []LifecycleTypeOK
<1>1. InitLifecycle => LifecycleTypeOK
  <2> SUFFICES ASSUME InitLifecycle
               PROVE  LifecycleTypeOK
    OBVIOUS
  <2>1. TypeOK
    BY NoAnswersType, StateTypes, MaxFaultsAssumption DEF InitLifecycle, Init, TypeOK, Call, Statuses
  <2>2. EndTypeOK
    BY NewTypes DEF InitLifecycle, EndTypeOK, NoRow, Durations, Usages
  <2> QED BY <2>1, <2>2 DEF LifecycleTypeOK
<1>2. InitLifecycle => DurationKnown
  BY DEF InitLifecycle, DurationKnown, NewCallback
<1>3. LifecycleTypeOK /\ DurationKnown /\ [NextLifecycle]_allVars => LifecycleTypeOK'
  <2> SUFFICES ASSUME LifecycleTypeOK, DurationKnown, [NextLifecycle]_allVars
               PROVE  LifecycleTypeOK'
    OBVIOUS
  <2>1. CASE \E t \in Turns : TurnBegins(t) \/ TurnContinues(t)
    <3>1. TypeOK'
      BY <2>1, DialogueStepType, OtherStepType DEF TurnBegins, TurnContinues, LifecycleTypeOK
    <3>2. EndTypeOK'
      BY <2>1 DEF TurnBegins, TurnContinues, NoteRace, endVars, LifecycleTypeOK, EndTypeOK
    <3> QED BY <3>1, <3>2 DEF LifecycleTypeOK
  <2>2. CASE \E p \in Requests : FinalizerStep(p)
    BY <2>2, FinalizerStepType
  <2>3. CASE \E c \in Callbacks : ReceiveCallback(c) \/ CallbackStep(c)
    BY <2>3, CallbackType
  <2>4. CASE HangUp
    BY <2>4 DEF HangUp, CallerHangsUp, endVars, LifecycleTypeOK, TypeOK, EndTypeOK
  <2>5. CASE UNCHANGED allVars
    BY <2>5 DEF allVars, vars, endVars, LifecycleTypeOK, TypeOK, EndTypeOK
  <2> QED BY <2>1, <2>2, <2>3, <2>4, <2>5 DEF NextLifecycle
<1>4. LifecycleTypeOK /\ DurationKnown /\ [NextLifecycle]_allVars => DurationKnown'
  BY DurationKnownKept
<1> QED BY <1>1, <1>2, <1>3, <1>4, PTL DEF LifecycleSpec

(***************************************************************************)
(* Consent.  Besides the turns, whose consent ConsentInv covers, callbacks *)
(* run finalizeCall: they decided to from what the row said when they      *)
(* began.                                                                  *)
(***************************************************************************)

CallbackHasConsent ==
  \A c \in Callbacks : callback[c].pc \in {"persistDuration", "finalize"} => call.consentGiven

LifecycleConsentInv ==
  /\ LifecycleTypeOK
  /\ ConsentFirst
  /\ LoadedAfterConsent
  /\ CallbackHasConsent
  /\ NoLlmWithoutConsent

LEMMA FinalizeNeedsConsent ==
  ASSUME NEW f, NEW status, NEW consentGiven, NEW answerCount,
         ClassifyEndOfCall(f, status, consentGiven, answerCount) = "finalize"
  PROVE  consentGiven
<1>1. (IF consentGiven /\ answerCount > 0 THEN "finalize" ELSE "abandon") = "finalize" => consentGiven
  OBVIOUS
<1> QED BY <1>1 DEF ClassifyEndOfCall

LEMMA FinalizerHasConsent ==
  ASSUME LifecycleConsentInv, NEW p \in Requests, MayFinalize(p)
  PROVE  call.consentGiven
BY DEF LifecycleConsentInv, ConsentFirst, CallbackHasConsent, MayFinalize, Requests

\* What a step of finalizeCall leaves alone.
LEMMA FinalizerStepKeeps ==
  ASSUME LifecycleTypeOK, NEW p \in Requests, FinalizerStep(p)
  PROVE  /\ MayFinalize(p)
         /\ call'.consentGiven = call.consentGiven
<1>1. MayFinalize(p)
  BY DEF FinalizerStep, ReadCall, GenerateSummary, UpsertSummary, CompleteCall, BillCall, MailTenant,
     MailCaller, BookAppointment, FinalizeReturns, FinalizeThrows, FinalizerAt
<1>2. UNCHANGED call \/ \E s \in {"completed", "failed", call.status} : call' = [call EXCEPT !.status = s]
  BY DEF FinalizerStep, ReadCall, GenerateSummary, UpsertSummary, CompleteCall, BillCall, MailTenant,
     MailCaller, BookAppointment, FinalizeReturns, FinalizeThrows, vars
<1>3. call'.consentGiven = call.consentGiven
  BY <1>2 DEF LifecycleTypeOK, TypeOK, Call
<1> QED BY <1>1, <1>3

\* What a step of a callback leaves alone.
LEMMA CallbackStepKeeps ==
  ASSUME LifecycleTypeOK, NEW c \in Callbacks, ReceiveCallback(c) \/ CallbackStep(c)
  PROVE  /\ UNCHANGED <<questionnaire, state, answers, turn, effects, finalizer>>
         /\ call'.consentGiven = call.consentGiven
<1>1. UNCHANGED <<questionnaire, state, answers, turn, effects, finalizer>>
  BY DEF ReceiveCallback, CallbackStep, PersistDuration, AbandonCall, RecordAbandonedUsage,
     BackfillDuration, BackfillUsage, CallbackThrows, vars
<1>2. UNCHANGED call \/ call' = [call EXCEPT !.status = "failed"]
  BY DEF ReceiveCallback, CallbackStep, PersistDuration, AbandonCall, RecordAbandonedUsage,
     BackfillDuration, BackfillUsage, CallbackThrows, vars
<1>3. call'.consentGiven = call.consentGiven
  BY <1>2 DEF LifecycleTypeOK, TypeOK, Call
<1> QED BY <1>1, <1>3

LEMMA LifecycleConsentKept ==
  ASSUME LifecycleTypeOK, [NextLifecycle]_allVars, call.consentGiven
  PROVE  call'.consentGiven
<1>1. CASE \E t \in Turns : TurnBegins(t) \/ TurnContinues(t)
  BY <1>1, ConsentKept DEF TurnBegins, TurnContinues, Next, LifecycleTypeOK
<1>2. CASE HangUp
  BY <1>2 DEF HangUp, CallerHangsUp
<1>3. CASE \E p \in Requests : FinalizerStep(p)
  BY <1>3, FinalizerStepKeeps
<1>4. CASE \E c \in Callbacks : ReceiveCallback(c) \/ CallbackStep(c)
  BY <1>4, CallbackStepKeeps
<1>5. CASE UNCHANGED allVars
  BY <1>5 DEF allVars, vars
<1> QED BY <1>1, <1>2, <1>3, <1>4, <1>5 DEF NextLifecycle

LEMMA LifecycleConsentInvInductive ==
  ASSUME LifecycleConsentInv, [NextLifecycle]_allVars
  PROVE  ConsentFirst' /\ LoadedAfterConsent' /\ CallbackHasConsent' /\ NoLlmWithoutConsent'
<1> USE DEF LifecycleConsentInv
<1>1. CASE call'.consentGiven
  BY <1>1 DEF ConsentFirst, LoadedAfterConsent, CallbackHasConsent, NoLlmWithoutConsent
<1>2. CASE ~call'.consentGiven
  <2>1. ~call.consentGiven
    BY <1>2, LifecycleConsentKept
  <2>2. ConsentInv
    BY DEF ConsentInv, LifecycleTypeOK
  <2>3. CASE (\E t \in Turns : TurnBegins(t) \/ TurnContinues(t)) \/ HangUp
    <3>1. [Next]_vars
      BY <2>3 DEF TurnBegins, TurnContinues, HangUp, Next
    <3>2. ConsentFirst' /\ LoadedAfterConsent'
      BY <2>2, <3>1, ConsentInvInductive
    <3>3. UNCHANGED <<callback, effects>>
      BY <2>3 DEF TurnBegins, TurnContinues, HangUp, endVars
    <3> QED BY <2>1, <3>2, <3>3 DEF CallbackHasConsent, NoLlmWithoutConsent
  <2>4. CASE \E p \in Requests : FinalizerStep(p)
    BY <2>1, <2>4, FinalizerStepKeeps, FinalizerHasConsent
  <2>5. CASE \E c \in Callbacks : ReceiveCallback(c) \/ CallbackStep(c)
    <3>1. PICK c \in Callbacks : ReceiveCallback(c) \/ CallbackStep(c)
      BY <2>5
    <3>2. UNCHANGED <<state, answers, turn, effects>>
      BY <3>1, CallbackStepKeeps
    <3>3. ConsentFirst' /\ LoadedAfterConsent' /\ NoLlmWithoutConsent'
      BY <2>1, <3>2 DEF ConsentFirst, LoadedAfterConsent, NoLlmWithoutConsent, IsAnswered
    <3>4. callback[c].pc \notin {"persistDuration", "finalize"}
      BY <2>1 DEF CallbackHasConsent
    <3>5. \E r : callback' = [callback EXCEPT ![c] = r] /\ r.pc \notin {"persistDuration", "finalize"}
      <4>1. CASE ReceiveCallback(c)
        <5>1. PICK pc \in CallbackPcs, d \in Durations, u \in BOOLEAN, f \in BOOLEAN :
                /\ callback' = [callback EXCEPT ![c] =
                                  [pc |-> pc, duration |-> d, hasUsage |-> u, final |-> f]]
                /\ pc \in {"persistDuration", "finalize"} =>
                     ClassifyEndOfCall(f, call.status, call.consentGiven, Cardinality(Answered))
                       = "finalize"
          BY <4>1, ReceivedCallback
        <5>2. pc \notin {"persistDuration", "finalize"}
          BY <2>1, <5>1, FinalizeNeedsConsent
        <5> DEFINE r == [pc |-> pc, duration |-> d, hasUsage |-> u, final |-> f]
        <5>3. callback' = [callback EXCEPT ![c] = r] /\ r.pc = pc
          BY <5>1
        <5> HIDE DEF r
        <5> QED BY <5>2, <5>3
      <4>2. CASE CallbackStep(c)
        <5>1. PICK pc \in {"abandonUsage", "backfillUsage", "done"} : CallbackGoto(c, pc)
          BY <3>4, <4>2 DEF CallbackStep, PersistDuration, AbandonCall, RecordAbandonedUsage,
             BackfillDuration, BackfillUsage, CallbackThrows
        <5>2. callback' = [callback EXCEPT ![c] = [callback[c] EXCEPT !.pc = pc]]
              /\ [callback[c] EXCEPT !.pc = pc].pc = pc
          BY <5>1 DEF CallbackGoto, LifecycleTypeOK, EndTypeOK, Callback
        <5> QED BY <5>1, <5>2
      <4> QED BY <3>1, <4>1, <4>2
    <3>6. CallbackHasConsent'
      BY <2>1, <3>5 DEF CallbackHasConsent, LifecycleTypeOK, EndTypeOK
    <3> QED BY <3>3, <3>6
  <2>6. CASE UNCHANGED allVars
    BY <2>6 DEF allVars, vars, endVars, ConsentFirst, LoadedAfterConsent, CallbackHasConsent,
       NoLlmWithoutConsent, IsAnswered
  <2> QED BY <2>3, <2>4, <2>5, <2>6 DEF NextLifecycle
<1> QED BY <1>1, <1>2

LEMMA LifecycleConsentInvHolds == LifecycleSpec => []LifecycleConsentInv
<1>1. InitLifecycle => ConsentFirst /\ LoadedAfterConsent /\ CallbackHasConsent /\ NoLlmWithoutConsent
  BY DEF InitLifecycle, Init, ConsentFirst, LoadedAfterConsent, CallbackHasConsent, NoLlmWithoutConsent,
     DefaultState, AtPhase, NoAnswers, IsAnswered, NoTurn, NewCallback, Effects
<1>2. LifecycleConsentInv /\ [NextLifecycle]_allVars
        => ConsentFirst' /\ LoadedAfterConsent' /\ CallbackHasConsent' /\ NoLlmWithoutConsent'
  BY LifecycleConsentInvInductive
<1> QED BY <1>1, <1>2, LifecycleTypeCorrect, PTL DEF LifecycleSpec, LifecycleConsentInv

\* "No consent means no LLM processing": whichever of the turns and callbacks of a call
\* runs the summary, and however they overlap, the row recorded the consent before.
THEOREM NoLlmBeforeConsent == LifecycleSpec => []NoLlmWithoutConsent
<1>1. LifecycleConsentInv => NoLlmWithoutConsent
  BY DEF LifecycleConsentInv
<1> QED BY <1>1, LifecycleConsentInvHolds, PTL

\* The dialogue keeps asking for consent first when callbacks and a running finalizeCall
\* write the same row.
THEOREM LifecycleConsentFirst == LifecycleSpec => []ConsentFirst
<1>1. LifecycleConsentInv => ConsentFirst
  BY DEF LifecycleConsentInv
<1> QED BY <1>1, LifecycleConsentInvHolds, PTL

(***************************************************************************)
(* The order of the processing.  A request that runs finalizeCall stands   *)
(* at a statement only after the effect before it; another run may have    *)
(* been faster, but takes no effect back.                                  *)
(***************************************************************************)

Performed == {e \in Effects : effects[e] > 0}

EffectsInOrder ==
  \A p \in Requests :
    /\ finalizer[p].pc = "summarize" => "llm" \in Performed
    /\ finalizer[p].pc = "complete" => "summary" \in Performed
    /\ finalizer[p].pc = "bill" => "completed" \in Performed
    /\ finalizer[p].pc = "mail" => "billed" \in Performed
    /\ finalizer[p].pc \in {"mailCaller", "book"} => "tenant_mail" \in Performed

LEMMA HappensPerforms ==
  ASSUME LifecycleTypeOK, NEW e \in Effects, Happens(e)
  PROVE  Performed' = Performed \cup {e}
<1>1. effects \in [Effects -> Nat]
  BY DEF LifecycleTypeOK, EndTypeOK
<1>2. \A d \in Effects : effects'[d] = IF d = e THEN effects[d] + 1 ELSE effects[d]
  BY <1>1 DEF Happens
<1> QED BY <1>1, <1>2 DEF Performed

LEMMA PerformedMapping ==
  ASSUME LifecycleTypeOK
  PROVE  {e \in DOMAIN effects : effects[e] > 0} = Performed
BY DEF LifecycleTypeOK, EndTypeOK, Performed

\* The effect of a step of finalizeCall is one its prerequisites allow.
LEMMA FinalizerEffect ==
  ASSUME LifecycleTypeOK, EffectsInOrder, NEW p \in Requests, FinalizerStep(p)
  PROVE  \/ UNCHANGED effects
         \/ \E e \in Effects : Happens(e) /\ Pipeline!Prerequisites[e] \subseteq Performed
<1> USE DEF FinalizerAt, Effects, Pipeline!Prerequisites
<1>1. CASE ReadCall(p) \/ FinalizeReturns(p) \/ FinalizeThrows(p)
  BY <1>1 DEF ReadCall, FinalizeReturns, FinalizeThrows
<1>2. CASE GenerateSummary(p)
  BY <1>2 DEF GenerateSummary
<1>3. CASE UpsertSummary(p)
  BY <1>3 DEF UpsertSummary, EffectsInOrder
<1>4. CASE CompleteCall(p)
  BY <1>4 DEF CompleteCall, EffectsInOrder
<1>5. CASE BillCall(p)
  BY <1>5 DEF BillCall, EffectsInOrder
<1>6. CASE MailTenant(p)
  BY <1>6 DEF MailTenant, EffectsInOrder
<1>7. CASE MailCaller(p)
  BY <1>7 DEF MailCaller, EffectsInOrder
<1>8. CASE BookAppointment(p)
  BY <1>8 DEF BookAppointment, EffectsInOrder
<1> QED BY <1>1, <1>2, <1>3, <1>4, <1>5, <1>6, <1>7, <1>8 DEF FinalizerStep

LEMMA FinalizerKeepsOrder ==
  ASSUME LifecycleTypeOK, EffectsInOrder, NEW p \in Requests, FinalizerStep(p)
  PROVE  EffectsInOrder'
<1>1. finalizer \in [Requests -> Finalizer]
  BY DEF LifecycleTypeOK, EndTypeOK
<1>2. ASSUME NEW pc, FinalizerGoto(p, pc)
      PROVE  finalizer'[p].pc = pc /\ \A q \in Requests \ {p} : finalizer'[q] = finalizer[q]
  BY <1>1, <1>2 DEF FinalizerGoto, Finalizer
<1>3. CASE ReadCall(p) \/ FinalizeReturns(p) \/ FinalizeThrows(p)
  <2>1. Performed' = Performed
    BY <1>3 DEF ReadCall, FinalizeReturns, FinalizeThrows, Performed
  <2>2. finalizer'[p].pc \in {"off", "generate", "return"}
        /\ \A q \in Requests \ {p} : finalizer'[q] = finalizer[q]
    BY <1>1, <1>3 DEF ReadCall, FinalizeReturns, FinalizeThrows, NoFinalizer
  <2> QED BY <2>1, <2>2 DEF EffectsInOrder
<1>4. CASE GenerateSummary(p)
  <2>1. FinalizerGoto(p, "summarize") /\ Performed' = Performed \cup {"llm"}
    BY <1>4, HappensPerforms DEF GenerateSummary, Effects
  <2> QED BY <1>2, <2>1 DEF EffectsInOrder
<1>5. CASE UpsertSummary(p)
  <2>1. FinalizerGoto(p, "complete") /\ Performed' = Performed \cup {"summary"}
    BY <1>5, HappensPerforms DEF UpsertSummary, Effects
  <2> QED BY <1>2, <2>1 DEF EffectsInOrder
<1>6. CASE CompleteCall(p)
  <2>1. FinalizerGoto(p, "bill") /\ Performed' = Performed \cup {"completed"}
    BY <1>6, HappensPerforms DEF CompleteCall, Effects
  <2> QED BY <1>2, <2>1 DEF EffectsInOrder
<1>7. CASE BillCall(p)
  <2>1. FinalizerGoto(p, "mail") /\ Performed' = Performed \cup {"billed"}
    BY <1>7, HappensPerforms DEF BillCall, Effects
  <2> QED BY <1>2, <2>1 DEF EffectsInOrder
<1>8. CASE MailTenant(p)
  <2>1. Performed' = Performed \cup {"tenant_mail"}
    BY <1>8, HappensPerforms DEF MailTenant, Effects
  <2>2. \E pc \in {"mailCaller", "book", "return"} : FinalizerGoto(p, pc)
    BY <1>8 DEF MailTenant
  <2> QED BY <1>2, <2>1, <2>2 DEF EffectsInOrder
<1>9. CASE MailCaller(p) \/ BookAppointment(p)
  <2>1. Performed \subseteq Performed'
    BY <1>9, HappensPerforms DEF MailCaller, BookAppointment, Effects
  <2>2. \E pc \in {"book", "return"} : FinalizerGoto(p, pc) /\ (pc = "book" => finalizer[p].pc = "mailCaller")
    BY <1>9 DEF MailCaller, BookAppointment, FinalizerAt
  <2> QED BY <1>2, <2>1, <2>2 DEF EffectsInOrder
<1> QED BY <1>3, <1>4, <1>5, <1>6, <1>7, <1>8, <1>9 DEF FinalizerStep

\* Every other step leaves the processing as it is.
LEMMA OtherStepsNoEffect ==
  ASSUME LifecycleTypeOK, [NextLifecycle]_allVars, \A p \in Requests : ~FinalizerStep(p)
  PROVE  UNCHANGED <<effects, finalizer>>
<1>1. CASE (\E t \in Turns : TurnBegins(t) \/ TurnContinues(t)) \/ HangUp
  BY <1>1 DEF TurnBegins, TurnContinues, HangUp, endVars
<1>2. CASE \E c \in Callbacks : ReceiveCallback(c) \/ CallbackStep(c)
  BY <1>2, CallbackStepKeeps
<1>3. CASE UNCHANGED allVars
  BY <1>3 DEF allVars, endVars
<1> QED BY <1>1, <1>2, <1>3 DEF NextLifecycle

\* Every step of the processing is a step of CallPipeline, or none.
LEMMA StepsRefinePipeline ==
  ASSUME LifecycleConsentInv, LifecycleTypeOK', EffectsInOrder, [NextLifecycle]_allVars
  PROVE  [Pipeline!Next]_<<call.consentGiven, {e \in DOMAIN effects : effects[e] > 0}>>
<1>1. LifecycleTypeOK
  BY DEF LifecycleConsentInv
<1>2. CASE \E p \in Requests : FinalizerStep(p)
  <2>1. PICK p \in Requests : FinalizerStep(p)
    BY <1>2
  <2>2. call.consentGiven /\ call'.consentGiven = call.consentGiven
    BY <1>1, <2>1, FinalizerStepKeeps, FinalizerHasConsent
  <2>3. CASE UNCHANGED effects
    BY <2>2, <2>3
  <2>4. CASE \E e \in Effects : Happens(e) /\ Pipeline!Prerequisites[e] \subseteq Performed
    <3>1. PICK e \in Effects : Happens(e) /\ Pipeline!Prerequisites[e] \subseteq Performed
      BY <2>4
    <3>2. {d \in DOMAIN effects : effects[d] > 0} = Performed
      BY <1>1, PerformedMapping
    <3>3. {d \in DOMAIN effects : effects[d] > 0}' = Performed \cup {e}
      <4>1. DOMAIN effects' = Effects
        BY DEF LifecycleTypeOK, EndTypeOK
      <4>2. Performed' = Performed \cup {e}
        BY <1>1, <3>1, HappensPerforms
      <4> QED BY <4>1, <4>2 DEF Performed
    <3>4. Pipeline!Perform(e)
      BY <2>2, <3>1, <3>2, <3>3 DEF Pipeline!Perform
    <3> QED BY <3>1, <3>4 DEF Pipeline!Next, Pipeline!Effects, Effects
  <2> QED BY <1>1, <2>1, <2>3, <2>4, FinalizerEffect
<1>3. CASE \A p \in Requests : ~FinalizerStep(p)
  <2>1. UNCHANGED effects
    BY <1>1, <1>3, OtherStepsNoEffect
  <2>2. call.consentGiven \in BOOLEAN /\ call'.consentGiven \in BOOLEAN
    BY <1>1 DEF LifecycleTypeOK, TypeOK, Call
  <2>3. call'.consentGiven = call.consentGiven \/ call'.consentGiven = TRUE
    BY <1>1, <2>2, LifecycleConsentKept
  <2> QED BY <2>1, <2>3 DEF Pipeline!Next, Pipeline!GiveConsent
<1> QED BY <1>2, <1>3

\* However many requests run finalizeCall at once, on whatever copies: nothing is
\* processed without consent, and the summary, the status, the cost, the mails and the
\* appointment appear in the order CallPipeline promises.
THEOREM PipelineImplemented == LifecycleSpec => ImplementsPipeline
<1>1. InitLifecycle => Pipeline!Init
  BY DEF InitLifecycle, Init, Pipeline!Init
<1>2. InitLifecycle => EffectsInOrder
  BY DEF InitLifecycle, EffectsInOrder, NoFinalizer
<1>3. LifecycleConsentInv /\ EffectsInOrder /\ [NextLifecycle]_allVars => EffectsInOrder'
  <2> SUFFICES ASSUME LifecycleConsentInv, EffectsInOrder, [NextLifecycle]_allVars
               PROVE  EffectsInOrder'
    OBVIOUS
  <2>1. LifecycleTypeOK
    BY DEF LifecycleConsentInv
  <2>2. CASE \E p \in Requests : FinalizerStep(p)
    BY <2>1, <2>2, FinalizerKeepsOrder
  <2>3. CASE \A p \in Requests : ~FinalizerStep(p)
    BY <2>1, <2>3, OtherStepsNoEffect DEF EffectsInOrder, Performed
  <2> QED BY <2>2, <2>3
<1>4. LifecycleConsentInv /\ LifecycleTypeOK' /\ EffectsInOrder /\ [NextLifecycle]_allVars
        => [Pipeline!Next]_<<call.consentGiven, {e \in DOMAIN effects : effects[e] > 0}>>
  BY StepsRefinePipeline
<1> QED
  BY <1>1, <1>2, <1>3, <1>4, LifecycleConsentInvHolds, LifecycleTypeCorrect, PTL
  DEF LifecycleSpec, ImplementsPipeline, Pipeline!Spec

---------------------------------------------------------------------------
(***************************************************************************)
(* One request after the other.  As long as no request has begun while     *)
(* another was in flight, what a request read is what is stored, and a run *)
(* of finalizeCall that reached the status was the last one to get there.  *)
(***************************************************************************)

Solo == \A p, q \in InFlight : p = q

\* A turn works on what is stored.  After a final callback there are no turns.
TurnOK(t) ==
  /\ turn[t].pc = "loaded" => turn[t].state = state
  /\ turn[t].pc = "start" => state.phase = "consent"
  /\ turn[t].pc = "advance" => state.phase = "questions"
  /\ turn[t].pc = "closing" => state.phase = "email_consent"
  /\ turn[t].pc = "finalize" => state.phase = "done"
  /\ turn[t].pc # "idle" => \A c \in Callbacks : ~callback[c].final

Mails == {"tenant_mail", "caller_mail", "appointment"}
Completed == effects["completed"] > 0

\* A callback in flight is a final one; it abandons or finalises a call that is not over.
CallbackOK(c) ==
  /\ callback[c].pc \notin {"new", "done"} => callback[c].final
  /\ callback[c].pc = "new" => ~callback[c].final
  /\ callback[c].final => channel = "phone" /\ line = "closed"
  /\ callback[c].pc \in {"persistDuration", "abandon", "abandonUsage"} => ~Completed
  /\ callback[c].pc \in {"backfill", "backfillUsage"} => (callback[c].hasUsage <=> usage # "none")
  /\ faults = 0 /\ callback[c].final /\ callback[c].pc \in {"backfill", "backfillUsage", "abandonUsage", "done"} =>
       call.status \in FinalStatuses

\* A run of finalizeCall: what it read is what is stored, and no effect from where it
\* stands on has happened.
FinalizerOK(p) ==
  /\ finalizer[p].pc # "off" => MayFinalize(p)
  /\ MayFinalize(p) /\ finalizer[p].pc = "off" => ~Completed
  /\ finalizer[p].pc \in {"generate", "summarize", "complete"} =>
       ~Completed /\ finalizer[p].answered = Answered /\ finalizer[p].duration = duration
  /\ finalizer[p].pc = "complete" => summary = Answered
  /\ finalizer[p].pc \in {"bill", "mail", "mailCaller", "book", "return"} => call.status = "completed"
  /\ finalizer[p].pc \in {"bill", "mail"} => \A e \in Mails : effects[e] = 0
  /\ finalizer[p].pc = "mailCaller" =>
       effects["caller_mail"] = 0 /\ effects["appointment"] = 0 /\ finalizer[p].mailCaller
  /\ finalizer[p].pc = "book" => effects["appointment"] = 0
  /\ finalizer[p].pc # "off" /\ finalizer[p].mailCaller => call.callerEmailConsent

\* What a call that was completed once keeps.
CallOK ==
  /\ ~Completed => effects["billed"] = 0 /\ \A e \in Mails : effects[e] = 0
  /\ Completed => call.status \in {"completed", "failed"}
                  /\ (state.phase = "done" \/ \E c \in Callbacks : callback[c].final)
  /\ call.status = "completed" => Completed /\ summary = Answered
  /\ effects["billed"] > 0 => usage = "full"
  /\ \A e \in Mails : effects[e] <= 1
  /\ effects["caller_mail"] > 0 => call.callerEmailConsent

SerialOK ==
  /\ Solo /\ (\A t \in Turns : TurnOK(t)) /\ (\A c \in Callbacks : CallbackOK(c))
  /\ (\A p \in Requests : FinalizerOK(p)) /\ CallOK

LEMMA LifecycleTypes ==
  ASSUME LifecycleTypeOK
  PROVE  /\ turn \in [Turns -> Turn] /\ callback \in [Callbacks -> Callback] /\ state \in CallState
         /\ finalizer \in [Requests -> Finalizer] /\ effects \in [Effects -> Nat] /\ call \in Call
         /\ answers \in AnswerMap /\ faults \in Nat
         /\ (\A e \in Effects : effects[e] \in Nat) /\ Mails \subseteq Effects
         /\ "completed" \in Effects /\ "billed" \in Effects
BY MaxFaultsAssumption DEF LifecycleTypeOK, TypeOK, EndTypeOK, Mails, Effects

\* A request in flight is alone.
LEMMA OthersQuiet ==
  ASSUME SerialOK, NEW p \in InFlight
  PROVE  /\ \A t \in Turns \ {p} : turn[t].pc = "idle"
         /\ \A c \in Callbacks \ {p} : callback[c].pc \in {"new", "done"}
         /\ \A q \in Requests \ {p} : ~MayFinalize(q) /\ finalizer[q].pc = "off"
<1>1. \A t \in Turns \ {p} : turn[t].pc = "idle"
  BY DEF SerialOK, Solo, InFlight
<1>2. \A c \in Callbacks \ {p} : callback[c].pc \in {"new", "done"}
  BY DEF SerialOK, Solo, InFlight
<1>3. \A q \in Requests \ {p} : ~MayFinalize(q)
  BY <1>1, <1>2 DEF MayFinalize, Requests
<1> QED BY <1>1, <1>2, <1>3 DEF SerialOK, FinalizerOK

\* What a step of the dialogue may do.
LEMMA DialogueEffect ==
  ASSUME LifecycleTypeOK, NEW t \in Turns, TurnOK(t), DialogueStep(t)
  PROVE  \E r \in Turn :
           /\ turn' = [turn EXCEPT ![t] = r] /\ turn[t].pc \notin {"idle", "finalize"} /\ r.pc # "loaded"
           /\ (r.pc = "start" => state'.phase = "consent") /\ (r.pc = "advance" => state'.phase = "questions")
           /\ (r.pc = "closing" => state'.phase = "email_consent") /\ (r.pc = "finalize" => state'.phase = "done")
           /\ (state.phase = "done" => UNCHANGED <<state, call, answers>> /\ r.pc \in {"reply", "idle"})
           /\ (call'.status = "completed" => call.status = "completed")
           /\ UNCHANGED <<questionnaire, channel>> /\ line' \in {line, "closed"} /\ (faults' = 0 => faults = 0)
<1> DEFINE Goes(pc) == \E r \in Turn : turn' = [turn EXCEPT ![t] = r] /\ r.pc = pc
<1>1. turn[t] \in Turn /\ turn[t].state \in CallState /\ turn \in [Turns -> Turn] /\ call \in Call /\ faults \in Nat
  BY LifecycleTypes DEF Turn
<1>2. NoTurn \in Turn /\ NoTurn.pc = "idle"
  BY StateTypes DEF NoTurn
<1>3. ASSUME NEW a \in {"gather", "hangup"}, Say(t, a) PROVE Goes("reply")
  <2> DEFINE r == [NoTurn EXCEPT !.pc = "reply", !.action = a]
  <2>1. turn' = [turn EXCEPT ![t] = r]
    BY <1>3 DEF Say
  <2>2. r \in Turn /\ r.pc = "reply"
    BY <1>2 DEF Turn, TurnPcs
  <2> HIDE DEF r
  <2> QED BY <2>1, <2>2
<1>4. ASSUME Finalize(t) PROVE Goes("finalize")
  <2> DEFINE r == [NoTurn EXCEPT !.pc = "finalize"]
  <2>1. turn' = [turn EXCEPT ![t] = r]
    BY <1>4 DEF Finalize
  <2>2. r \in Turn /\ r.pc = "finalize"
    BY <1>2 DEF Turn, TurnPcs
  <2> HIDE DEF r
  <2> QED BY <2>1, <2>2
<1>5. ASSUME NEW pc \in TurnPcs, Goto(t, pc) PROVE Goes(pc)
  <2> DEFINE r == [turn[t] EXCEPT !.pc = pc]
  <2>1. turn' = [turn EXCEPT ![t] = r]
    BY <1>5 DEF Goto
  <2>2. r \in Turn /\ r.pc = pc
    BY <1>1 DEF Turn
  <2> HIDE DEF r
  <2> QED BY <2>1, <2>2
<1>6. ASSUME NEW s, Persist(t, s) PROVE Goes("reply")
  BY <1>3, <1>6 DEF Persist
<1>7. ASSUME NEW known, AskNext(t, known) PROVE Goes("reply")
  BY <1>6, <1>7 DEF AskNext
<1> HIDE DEF Goes
<1>8. ASSUME Goes("reply") \/ Goes("idle"), turn[t].pc \notin {"idle", "finalize"},
             state.phase = "done" => UNCHANGED <<state, call, answers>>,
             call'.status = "completed" => call.status = "completed",
             UNCHANGED <<questionnaire, channel>>, line' \in {line, "closed"}, faults' = 0 => faults = 0
      PROVE  \E r \in Turn :
           /\ turn' = [turn EXCEPT ![t] = r] /\ turn[t].pc \notin {"idle", "finalize"} /\ r.pc # "loaded"
           /\ (r.pc = "start" => state'.phase = "consent") /\ (r.pc = "advance" => state'.phase = "questions")
           /\ (r.pc = "closing" => state'.phase = "email_consent") /\ (r.pc = "finalize" => state'.phase = "done")
           /\ (state.phase = "done" => UNCHANGED <<state, call, answers>> /\ r.pc \in {"reply", "idle"})
           /\ (call'.status = "completed" => call.status = "completed")
           /\ UNCHANGED <<questionnaire, channel>> /\ line' \in {line, "closed"} /\ (faults' = 0 => faults = 0)
  <2>1. PICK r \in Turn : turn' = [turn EXCEPT ![t] = r] /\ r.pc \in {"reply", "idle"}
    BY <1>8 DEF Goes
  <2> QED BY <1>8, <2>1
<1>9. ASSUME NEW pc \in {"start", "advance", "closing", "finalize"}, Goes(pc),
             turn[t].pc \notin {"idle", "finalize"}, state.phase # "done",
             pc = "start" => state'.phase = "consent", pc = "advance" => state'.phase = "questions",
             pc = "closing" => state'.phase = "email_consent", pc = "finalize" => state'.phase = "done",
             call'.status = "completed" => call.status = "completed",
             UNCHANGED <<questionnaire, channel>>, line' \in {line, "closed"}, faults' = 0 => faults = 0
      PROVE  \E r \in Turn :
           /\ turn' = [turn EXCEPT ![t] = r] /\ turn[t].pc \notin {"idle", "finalize"} /\ r.pc # "loaded"
           /\ (r.pc = "start" => state'.phase = "consent") /\ (r.pc = "advance" => state'.phase = "questions")
           /\ (r.pc = "closing" => state'.phase = "email_consent") /\ (r.pc = "finalize" => state'.phase = "done")
           /\ (state.phase = "done" => UNCHANGED <<state, call, answers>> /\ r.pc \in {"reply", "idle"})
           /\ (call'.status = "completed" => call.status = "completed")
           /\ UNCHANGED <<questionnaire, channel>> /\ line' \in {line, "closed"} /\ (faults' = 0 => faults = 0)
  <2>1. PICK r \in Turn : turn' = [turn EXCEPT ![t] = r] /\ r.pc = pc
    BY <1>9 DEF Goes
  <2> QED BY <1>9, <2>1
<1>10. ASSUME NEW phase, Handles(t, phase)
       PROVE  turn[t].pc = "loaded" /\ turn[t].state.phase = phase /\ state.phase = phase
  BY <1>10 DEF Handles, TurnOK
<1>11. CASE ReaskConsent(t) \/ SayGoodbye(t)
  <2>1. turn[t].pc = "loaded" /\ (Say(t, "gather") \/ Say(t, "hangup"))
        /\ UNCHANGED <<questionnaire, channel, line, call, state, answers, faults>>
    BY <1>10, <1>11 DEF ReaskConsent, SayGoodbye
  <2>2. Goes("reply")
    BY <1>3, <2>1
  <2> QED BY <1>8, <2>1, <2>2
<1>12. CASE Decline(t)
  <2>1. turn[t].pc = "loaded" /\ state.phase = "consent" /\ Say(t, "hangup")
        /\ UNCHANGED <<questionnaire, channel, line, state, answers, faults>>
    BY <1>10, <1>12 DEF Decline
  <2>2. call'.status = "declined"
    BY <1>1, <1>12 DEF Decline, Call
  <2>3. Goes("reply")
    BY <1>3, <2>1
  <2> QED BY <1>8, <2>1, <2>2, <2>3
<1>13. CASE GiveConsent(t)
  <2>1. turn[t].pc = "loaded" /\ state.phase = "consent" /\ Goto(t, "start")
        /\ UNCHANGED <<questionnaire, channel, line, state, answers, faults>>
    BY <1>10, <1>13 DEF GiveConsent
  <2>2. call'.status = "in_progress"
    BY <1>1, <1>13 DEF GiveConsent, Call
  <2>3. Goes("start")
    BY <1>5, <2>1 DEF TurnPcs
  <2> QED BY <1>9, <2>1, <2>2, <2>3
<1>14. CASE StartQuestions(t) \/ AskWithoutAnswer(t) \/ Advance(t)
  <2>1. turn[t].pc \in {"start", "loaded", "advance"} /\ state.phase # "done"
    BY <1>10, <1>14 DEF StartQuestions, AskWithoutAnswer, Advance, TurnOK
  <2>2. PICK known : AskNext(t, known)
    BY <1>14 DEF StartQuestions, AskWithoutAnswer, Advance
  <2>3. Goes("reply") /\ UNCHANGED <<questionnaire, channel, line, call, answers, faults>>
    BY <1>7, <2>2 DEF AskNext
  <2> QED BY <1>8, <2>1, <2>3
<1>15. CASE Clarify(t) \/ RejectSummary(t)
  <2>1. turn[t].pc = "loaded" /\ state.phase # "done" /\ (\E s : Persist(t, s))
        /\ UNCHANGED <<questionnaire, channel, line, call, answers, faults>>
    BY <1>10, <1>15 DEF Clarify, Unclear, RejectSummary
  <2>2. Goes("reply")
    BY <1>6, <2>1
  <2> QED BY <1>8, <2>1, <2>2
<1>16. CASE GiveUp(t)
  <2>1. turn[t].pc = "loaded" /\ turn[t].state.phase = "questions" /\ state.phase = "questions"
        /\ state' = [turn[t].state EXCEPT !.clarifyCount = 0, !.pendingQuestionKey = NoKey]
        /\ Goto(t, "advance") /\ UNCHANGED <<questionnaire, channel, line, call, answers, faults>>
    BY <1>10, <1>16 DEF GiveUp, Unclear
  <2>2. state'.phase = "questions"
    BY <1>1, <2>1 DEF CallState
  <2>3. Goes("advance")
    BY <1>5, <2>1 DEF TurnPcs
  <2> QED BY <1>9, <2>1, <2>2, <2>3
<1>17. CASE StoreAnswer(t)
  <2>1. turn[t].pc = "loaded" /\ state.phase = "questions"
        /\ UNCHANGED <<questionnaire, channel, line, call, state, faults>>
    BY <1>10, <1>17 DEF StoreAnswer
  <2>2. PICK v \in JSValue :
          turn' = [turn EXCEPT ![t] = [turn[t] EXCEPT !.pc = "advance",
                                         !.answers = [turn[t].answers EXCEPT ![Current(t)] = v]]]
    BY <1>17, StoredAnswerType DEF LifecycleTypeOK
  <2> DEFINE m == [turn[t].answers EXCEPT ![Current(t)] = v]
             r == [turn[t] EXCEPT !.pc = "advance", !.answers = m]
  <2>3. turn[t].answers \in AnswerMap /\ m \in AnswerMap
    BY <1>1 DEF Turn, AnswerMap
  <2> HIDE DEF m
  <2>4. r \in Turn /\ r.pc = "advance"
    BY <1>1, <2>3 DEF Turn, TurnPcs
  <2>5. turn' = [turn EXCEPT ![t] = r]
    BY <2>2 DEF m
  <2> HIDE DEF r
  <2>6. Goes("advance")
    BY <2>4, <2>5 DEF Goes
  <2> QED BY <1>9, <2>1, <2>6
<1>18. CASE ConfirmSummary(t) \/ TakeCorrection(t)
  <2>1. turn[t].pc = "loaded" /\ state.phase # "done" /\ ProceedAfterConfirm(t)
    BY <1>10, <1>18 DEF ConfirmSummary, TakeCorrection
  <2>2. UNCHANGED <<questionnaire, channel, line, call, answers, faults>>
    BY <2>1 DEF ProceedAfterConfirm
  <2>3. CASE Persist(t, AtPhase("email_consent"))
    BY <1>6, <1>8, <2>1, <2>2, <2>3
  <2>4. CASE state' = AtPhase("done") /\ Finalize(t)
    BY <1>4, <1>9, <2>1, <2>2, <2>4 DEF AtPhase
  <2> QED BY <2>1, <2>3, <2>4 DEF ProceedAfterConfirm
<1>19. CASE AnswerEmailConsent(t)
  <2>1. turn[t].pc = "loaded" /\ state.phase = "email_consent" /\ Goto(t, "closing")
        /\ UNCHANGED <<questionnaire, channel, line, state, answers, faults>>
    BY <1>10, <1>19 DEF AnswerEmailConsent
  <2>2. call'.status = call.status
    BY <1>1, <1>19 DEF AnswerEmailConsent, Call
  <2>3. Goes("closing")
    BY <1>5, <2>1 DEF TurnPcs
  <2> QED BY <1>9, <2>1, <2>2, <2>3
<1>20. CASE CloseDialogue(t)
  <2>1. turn[t].pc = "closing" /\ state.phase = "email_consent" /\ Finalize(t)
        /\ state' = [turn[t].state EXCEPT !.phase = "done"]
        /\ UNCHANGED <<questionnaire, channel, line, call, answers, faults>>
    BY <1>20 DEF CloseDialogue, TurnOK
  <2>2. state'.phase = "done"
    BY <1>1, <2>1 DEF CallState
  <2>3. Goes("finalize")
    BY <1>4, <2>1
  <2> QED BY <1>9, <2>1, <2>2, <2>3
<1>21. CASE Reply(t) \/ Throw(t)
  <2>1. turn[t].pc \notin {"idle", "finalize"} /\ turn' = [turn EXCEPT ![t] = NoTurn]
        /\ UNCHANGED <<questionnaire, channel, call, state, answers>> /\ line' \in {line, "closed"}
    BY <1>21 DEF Reply, Throw
  <2>2. Goes("idle")
    BY <1>2, <2>1 DEF Goes
  <2>3. faults' = 0 => faults = 0
    BY <1>1, <1>21 DEF Reply, Throw
  <2> QED BY <1>8, <2>1, <2>2, <2>3
<1> QED
  BY <1>11, <1>12, <1>13, <1>14, <1>15, <1>16, <1>17, <1>18, <1>19, <1>20, <1>21 DEF DialogueStep

\* What a finaliser other than p, and a turn or callback other than p, has to keep when
\* p runs a statement.
LEMMA OthersKept ==
  ASSUME LifecycleTypeOK, SerialOK, NEW p \in InFlight, InFlight' \subseteq InFlight,
         UNCHANGED <<channel, line>>,
         \A t \in Turns \ {p} : turn'[t] = turn[t],
         \A c \in Callbacks \ {p} : callback'[c] = callback[c],
         \A q \in Requests \ {p} : finalizer'[q] = finalizer[q],
         faults' = 0 => faults = 0,
         faults' = 0 /\ call.status \in FinalStatuses => call'.status \in FinalStatuses
  PROVE  /\ Solo'
         /\ \A t \in Turns \ {p} : TurnOK(t)'
         /\ \A c \in Callbacks \ {p} : CallbackOK(c)'
         /\ \A q \in Requests \ {p} : FinalizerOK(q)'
<1>1. Solo'
  BY DEF SerialOK, Solo
<1>2. ASSUME NEW t \in Turns \ {p} PROVE TurnOK(t)'
  BY <1>2, OthersQuiet DEF TurnOK
<1>3. ASSUME NEW c \in Callbacks \ {p} PROVE CallbackOK(c)'
  <2>1. callback'[c] = callback[c] /\ callback[c].pc \in {"new", "done"} /\ CallbackOK(c)
    BY <1>3, OthersQuiet DEF SerialOK
  <2> QED BY <2>1 DEF CallbackOK
<1>4. ASSUME NEW q \in Requests \ {p} PROVE FinalizerOK(q)'
  <2>1. finalizer'[q].pc = "off" /\ ~MayFinalize(q)
    BY <1>4, OthersQuiet
  <2>2. ~MayFinalize(q)'
    BY <1>4, <2>1 DEF MayFinalize, Requests
  <2> QED BY <2>1, <2>2 DEF FinalizerOK
<1> QED BY <1>1, <1>2, <1>3, <1>4

\* A statement of finalizeCall other than its end.
LEMMA FinalizerRuns ==
  ASSUME LifecycleTypeOK, SerialOK, NEW p \in Requests, MayFinalize(p),
         UNCHANGED <<turn, callback, state, answers, questionnaire, channel, line, faults>>,
         NEW r \in Finalizer, finalizer' = [finalizer EXCEPT ![p] = r],
         call'.status \in {call.status, "completed"}, FinalizerOK(p)', CallOK'
  PROVE  SerialOK'
<1>1. p \in InFlight /\ InFlight' = InFlight
  BY DEF MayFinalize, InFlight, Requests
<1>2. \A q \in Requests \ {p} : finalizer'[q] = finalizer[q]
  BY LifecycleTypes
<1>3. /\ Solo'
      /\ \A t \in Turns \ {p} : TurnOK(t)'
      /\ \A c \in Callbacks \ {p} : CallbackOK(c)'
      /\ \A q \in Requests \ {p} : FinalizerOK(q)'
  BY <1>1, <1>2, OthersKept DEF FinalStatuses
<1>4. ASSUME NEW t \in Turns PROVE TurnOK(t)'
  BY DEF SerialOK, TurnOK
<1>5. ASSUME NEW c \in Callbacks, c = p PROVE CallbackOK(c)'
  <2>1. callback[c].pc = "finalize" /\ CallbackOK(c)
    BY <1>5, CallbacksAssumption DEF MayFinalize, SerialOK
  <2> QED BY <2>1 DEF CallbackOK
<1> QED BY <1>3, <1>4, <1>5 DEF SerialOK

LEMMA HappensOnce ==
  ASSUME LifecycleTypeOK, NEW e \in Effects, Happens(e)
  PROVE  effects'[e] = effects[e] + 1 /\ effects'[e] > 0 /\ \A x \in Effects \ {e} : effects'[x] = effects[x]
BY LifecycleTypes DEF Happens

LEMMA FinalizerGoes ==
  ASSUME LifecycleTypeOK, NEW p \in Requests, NEW pc \in FinalizerPcs, FinalizerGoto(p, pc)
  PROVE  \E r \in Finalizer : /\ finalizer' = [finalizer EXCEPT ![p] = r] /\ finalizer'[p] = r /\ r.pc = pc
                              /\ r.answered = finalizer[p].answered /\ r.mailCaller = finalizer[p].mailCaller
                              /\ r.duration = finalizer[p].duration
<1> DEFINE r == [finalizer[p] EXCEPT !.pc = pc]
<1>1. finalizer[p] \in Finalizer /\ finalizer' = [finalizer EXCEPT ![p] = r] /\ finalizer \in [Requests -> Finalizer]
  BY LifecycleTypes DEF FinalizerGoto
<1>2. r \in Finalizer /\ r.pc = pc /\ r.answered = finalizer[p].answered /\ r.mailCaller = finalizer[p].mailCaller
                                   /\ r.duration = finalizer[p].duration
  BY <1>1 DEF Finalizer
<1> HIDE DEF r
<1> QED BY <1>1, <1>2

LEMMA FinalizerSerial ==
  ASSUME LifecycleTypeOK, SerialOK, NEW p \in Requests, FinalizerStep(p)
  PROVE  SerialOK'
<1>1. MayFinalize(p) /\ FinalizerOK(p) /\ CallOK /\ p \in InFlight
  BY DEF FinalizerStep, FinalizerAt, ReadCall, GenerateSummary, UpsertSummary, CompleteCall, BillCall,
         MailTenant, MailCaller, BookAppointment, FinalizeReturns, FinalizeThrows, SerialOK, MayFinalize,
         InFlight, Requests
<1>2. CASE ReadCall(p)
  <2> DEFINE done == [NoFinalizer EXCEPT !.pc = "return"]
             run == [pc |-> "generate", answered |-> Answered,
                     mailCaller |-> call.callerEmailConsent /\ HasEmail(answers),
                     book |-> HasDate(answers), duration |-> duration]
  <2>1. finalizer[p].pc = "off" /\ ~Completed /\ call.status # "completed"
    BY <1>1, <1>2 DEF ReadCall, FinalizerAt, FinalizerOK, CallOK
  <2>2. finalizer' = [finalizer EXCEPT ![p] = run]
    BY <1>2, <2>1 DEF ReadCall
  <2>3. run \in Finalizer /\ run.pc = "generate" /\ run.answered = Answered
        /\ run.duration = duration /\ (run.mailCaller => call.callerEmailConsent)
    BY LifecycleTypes, AnsweredType DEF Finalizer, FinalizerPcs, Call, HasEmail, HasDate, LifecycleTypeOK, EndTypeOK
  <2> HIDE DEF run
  <2>4. UNCHANGED <<questionnaire, channel, line, call, state, answers, turn, faults, effects, callback, summary, usage, duration>>
    BY <1>2 DEF ReadCall, vars
  <2>5. finalizer'[p] = run
    BY <2>2, LifecycleTypes
  <2>6. FinalizerOK(p)'
    BY <1>1, <2>1, <2>3, <2>4, <2>5 DEF FinalizerOK, MayFinalize, Completed, Answered
  <2>7. CallOK'
    BY <1>1, <2>4 DEF CallOK, Completed, Answered
  <2> QED BY <1>1, <2>2, <2>3, <2>4, <2>6, <2>7, FinalizerRuns
<1>3. CASE GenerateSummary(p)
  <2>1. UNCHANGED <<questionnaire, channel, line, call, state, answers, turn, faults, callback, summary, usage, duration>>
        /\ finalizer[p].pc = "generate" /\ FinalizerGoto(p, "summarize") /\ Happens("llm")
    BY <1>3 DEF GenerateSummary, FinalizerAt, vars
  <2>2. PICK r \in Finalizer : /\ finalizer' = [finalizer EXCEPT ![p] = r] /\ finalizer'[p] = r /\ r.pc = "summarize"
                               /\ r.answered = finalizer[p].answered /\ r.mailCaller = finalizer[p].mailCaller
                               /\ r.duration = finalizer[p].duration
    BY <2>1, FinalizerGoes DEF FinalizerPcs
  <2>3. \A e \in Mails \cup {"completed", "billed"} : effects'[e] = effects[e]
    BY <2>1, HappensOnce DEF Effects, Mails
  <2>4. FinalizerOK(p)'
    BY <1>1, <2>1, <2>2, <2>3 DEF FinalizerOK, MayFinalize, Completed, Answered
  <2>5. CallOK'
    BY <1>1, <2>1, <2>3 DEF CallOK, Completed, Answered, Mails
  <2> QED BY <1>1, <2>1, <2>2, <2>4, <2>5, FinalizerRuns
<1>4. CASE UpsertSummary(p)
  <2>1. UNCHANGED <<questionnaire, channel, line, call, state, answers, turn, faults, callback, usage, duration>>
        /\ finalizer[p].pc = "summarize" /\ FinalizerGoto(p, "complete") /\ Happens("summary")
        /\ summary' = finalizer[p].answered
    BY <1>4 DEF UpsertSummary, FinalizerAt, vars
  <2>2. PICK r \in Finalizer : /\ finalizer' = [finalizer EXCEPT ![p] = r] /\ finalizer'[p] = r /\ r.pc = "complete"
                               /\ r.answered = finalizer[p].answered /\ r.mailCaller = finalizer[p].mailCaller
                               /\ r.duration = finalizer[p].duration
    BY <2>1, FinalizerGoes DEF FinalizerPcs
  <2>3. \A e \in Mails \cup {"completed", "billed"} : effects'[e] = effects[e]
    BY <2>1, HappensOnce DEF Effects, Mails
  <2>4. FinalizerOK(p)'
    BY <1>1, <2>1, <2>2, <2>3 DEF FinalizerOK, MayFinalize, Completed, Answered
  <2>5. ~Completed
    BY <1>1, <2>1 DEF FinalizerOK
  <2>6. CallOK'
    BY <1>1, <2>1, <2>3, <2>5 DEF CallOK, Completed, Answered, Mails
  <2> QED BY <1>1, <2>1, <2>2, <2>4, <2>6, FinalizerRuns
<1>5. CASE CompleteCall(p)
  <2>1. UNCHANGED <<questionnaire, channel, line, state, answers, turn, faults, callback, usage, summary>>
        /\ finalizer[p].pc = "complete" /\ FinalizerGoto(p, "bill") /\ Happens("completed")
    BY <1>5 DEF CompleteCall, FinalizerAt, vars
  <2>2. PICK r \in Finalizer : /\ finalizer' = [finalizer EXCEPT ![p] = r] /\ finalizer'[p] = r /\ r.pc = "bill"
                               /\ r.answered = finalizer[p].answered /\ r.mailCaller = finalizer[p].mailCaller
                               /\ r.duration = finalizer[p].duration
    BY <2>1, FinalizerGoes DEF FinalizerPcs
  <2>3. (\A e \in Mails \cup {"billed"} : effects'[e] = effects[e]) /\ effects'["completed"] > 0
    BY <2>1, HappensOnce DEF Effects, Mails
  <2>4. call'.status = "completed" /\ call'.callerEmailConsent = call.callerEmailConsent
    BY <1>5, LifecycleTypes DEF CompleteCall, Call
  <2>5. ~Completed /\ summary = Answered
    BY <1>1, <2>1 DEF FinalizerOK
  <2>6. (\A e \in Mails : effects[e] = 0) /\ effects["billed"] = 0
    BY <1>1, <2>5 DEF CallOK
  <2>7. FinalizerOK(p)'
    BY <1>1, <2>1, <2>2, <2>3, <2>4, <2>6 DEF FinalizerOK, MayFinalize
  <2>8. state.phase = "done" \/ \E c \in Callbacks : callback[c].final
    BY <1>1 DEF MayFinalize, Requests, SerialOK, TurnOK, CallbackOK
  <2>9. CallOK'
    BY <1>1, <2>1, <2>3, <2>4, <2>5, <2>6, <2>8 DEF CallOK, Completed, Answered, Mails
  <2> QED BY <1>1, <2>1, <2>2, <2>4, <2>7, <2>9, FinalizerRuns
<1>6. CASE BillCall(p)
  <2>1. UNCHANGED <<questionnaire, channel, line, call, state, answers, turn, faults, callback, summary>>
        /\ finalizer[p].pc = "bill" /\ FinalizerGoto(p, "mail") /\ Happens("billed") /\ usage' = "full"
    BY <1>6 DEF BillCall, FinalizerAt, vars
  <2>2. PICK r \in Finalizer : /\ finalizer' = [finalizer EXCEPT ![p] = r] /\ finalizer'[p] = r /\ r.pc = "mail"
                               /\ r.answered = finalizer[p].answered /\ r.mailCaller = finalizer[p].mailCaller
                               /\ r.duration = finalizer[p].duration
    BY <2>1, FinalizerGoes DEF FinalizerPcs
  <2>3. \A e \in Mails \cup {"completed"} : effects'[e] = effects[e]
    BY <2>1, HappensOnce DEF Effects, Mails
  <2>4. call.status = "completed" /\ Completed
    BY <1>1, <2>1 DEF FinalizerOK, CallOK
  <2>5. FinalizerOK(p)'
    BY <1>1, <2>1, <2>2, <2>3 DEF FinalizerOK, MayFinalize
  <2>6. CallOK'
    BY <1>1, <2>1, <2>3, <2>4 DEF CallOK, Completed, Answered, Mails
  <2> QED BY <1>1, <2>1, <2>2, <2>5, <2>6, FinalizerRuns
<1>7. CASE MailTenant(p)
  <2> DEFINE pc == IF finalizer[p].mailCaller THEN "mailCaller" ELSE IF finalizer[p].book THEN "book" ELSE "return"
  <2>1. UNCHANGED <<questionnaire, channel, line, call, state, answers, turn, faults, callback, summary, usage, duration>>
        /\ finalizer[p].pc = "mail" /\ FinalizerGoto(p, pc) /\ Happens("tenant_mail")
    BY <1>7 DEF MailTenant, FinalizerAt, vars
  <2>2. pc \in FinalizerPcs /\ pc \in {"mailCaller", "book", "return"} /\ (pc = "mailCaller" => finalizer[p].mailCaller)
    BY DEF FinalizerPcs
  <2> HIDE DEF pc
  <2>3. PICK r \in Finalizer : /\ finalizer' = [finalizer EXCEPT ![p] = r] /\ finalizer'[p] = r /\ r.pc = pc
                               /\ r.answered = finalizer[p].answered /\ r.mailCaller = finalizer[p].mailCaller
                               /\ r.duration = finalizer[p].duration
    BY <2>1, <2>2, FinalizerGoes
  <2>4. /\ \A e \in {"caller_mail", "appointment", "completed", "billed"} : effects'[e] = effects[e]
        /\ effects'["tenant_mail"] = effects["tenant_mail"] + 1
    BY <2>1, HappensOnce DEF Effects
  <2>5. call.status = "completed" /\ \A e \in Mails : effects[e] = 0
    BY <1>1, <2>1 DEF FinalizerOK
  <2>6. FinalizerOK(p)'
    BY <1>1, <2>1, <2>2, <2>3, <2>4, <2>5 DEF FinalizerOK, MayFinalize, Mails
  <2>7. CallOK'
    BY <1>1, <2>1, <2>4, <2>5 DEF CallOK, Completed, Answered, Mails
  <2> QED BY <1>1, <2>1, <2>3, <2>6, <2>7, FinalizerRuns
<1>8. CASE MailCaller(p)
  <2> DEFINE pc == IF finalizer[p].book THEN "book" ELSE "return"
  <2>1. UNCHANGED <<questionnaire, channel, line, call, state, answers, turn, faults, callback, summary, usage, duration>>
        /\ finalizer[p].pc = "mailCaller" /\ FinalizerGoto(p, pc) /\ Happens("caller_mail")
    BY <1>8 DEF MailCaller, FinalizerAt, vars
  <2>2. pc \in FinalizerPcs /\ pc \in {"book", "return"}
    BY DEF FinalizerPcs
  <2> HIDE DEF pc
  <2>3. PICK r \in Finalizer : /\ finalizer' = [finalizer EXCEPT ![p] = r] /\ finalizer'[p] = r /\ r.pc = pc
                               /\ r.answered = finalizer[p].answered /\ r.mailCaller = finalizer[p].mailCaller
                               /\ r.duration = finalizer[p].duration
    BY <2>1, <2>2, FinalizerGoes
  <2>4. /\ \A e \in {"tenant_mail", "appointment", "completed", "billed"} : effects'[e] = effects[e]
        /\ effects'["caller_mail"] = effects["caller_mail"] + 1
    BY <2>1, HappensOnce DEF Effects
  <2>5. call.status = "completed" /\ effects["caller_mail"] = 0 /\ effects["appointment"] = 0 /\ Completed
        /\ call.callerEmailConsent
    BY <1>1, <2>1 DEF FinalizerOK, CallOK
  <2>6. FinalizerOK(p)'
    BY <1>1, <2>1, <2>2, <2>3, <2>4, <2>5 DEF FinalizerOK, MayFinalize, Mails
  <2>7. CallOK'
    BY <1>1, <2>1, <2>4, <2>5 DEF CallOK, Completed, Answered, Mails
  <2> QED BY <1>1, <2>1, <2>3, <2>6, <2>7, FinalizerRuns
<1>9. CASE BookAppointment(p)
  <2>1. UNCHANGED <<questionnaire, channel, line, call, state, answers, turn, faults, callback, summary, usage, duration>>
        /\ finalizer[p].pc = "book" /\ FinalizerGoto(p, "return") /\ Happens("appointment")
    BY <1>9 DEF BookAppointment, FinalizerAt, vars
  <2>3. PICK r \in Finalizer : /\ finalizer' = [finalizer EXCEPT ![p] = r] /\ finalizer'[p] = r /\ r.pc = "return"
                               /\ r.answered = finalizer[p].answered /\ r.mailCaller = finalizer[p].mailCaller
                               /\ r.duration = finalizer[p].duration
    BY <2>1, FinalizerGoes DEF FinalizerPcs
  <2>4. /\ \A e \in {"tenant_mail", "caller_mail", "completed", "billed"} : effects'[e] = effects[e]
        /\ effects'["appointment"] = effects["appointment"] + 1
    BY <2>1, HappensOnce DEF Effects
  <2>5. call.status = "completed" /\ effects["appointment"] = 0 /\ Completed
    BY <1>1, <2>1 DEF FinalizerOK, CallOK
  <2>6. FinalizerOK(p)'
    BY <1>1, <2>1, <2>3, <2>4, <2>5 DEF FinalizerOK, MayFinalize, Mails
  <2>7. CallOK'
    BY <1>1, <2>1, <2>4, <2>5 DEF CallOK, Completed, Answered, Mails
  <2> QED BY <1>1, <2>1, <2>3, <2>6, <2>7, FinalizerRuns
<1>10. CASE FinalizeReturns(p) \/ FinalizeThrows(p)
  <2>1. UNCHANGED <<questionnaire, channel, line, state, answers, usage, summary, effects>>
        /\ finalizer' = [finalizer EXCEPT ![p] = NoFinalizer]
    BY <1>10 DEF FinalizeReturns, FinalizeThrows
  <2>2. finalizer'[p].pc = "off" /\ \A q \in Requests \ {p} : finalizer'[q] = finalizer[q]
    BY <2>1, LifecycleTypes DEF NoFinalizer
  <2>3. /\ call'.status \in {call.status, "failed"} /\ call'.callerEmailConsent = call.callerEmailConsent
        /\ faults' = 0 => faults = 0 /\ call' = call /\ call.status = "completed"
    <3>1. CASE FinalizeReturns(p)
      BY <1>1, <3>1 DEF FinalizeReturns, FinalizerAt, FinalizerOK
    <3>2. CASE FinalizeThrows(p)
      <4>1. faults' # 0 /\ (UNCHANGED call \/ \E s \in {"failed", call.status} : call' = [call EXCEPT !.status = s])
        BY <3>2, LifecycleTypes DEF FinalizeThrows
      <4> QED BY <4>1, LifecycleTypes DEF Call
    <3> QED BY <1>10, <3>1, <3>2
  <2>4. CallOK'
    <3>1. \A c \in Callbacks : callback'[c].final = callback[c].final
      BY <1>10, LifecycleTypes DEF FinalizeReturns, FinalizeThrows, Callback
    <3> QED BY <1>1, <2>1, <2>3, <3>1 DEF CallOK, Completed, Answered
  <2>5. CASE p \in Turns
    <3>1. Say(p, "hangup") /\ UNCHANGED callback
      BY <1>10, <2>5 DEF FinalizeReturns, FinalizeThrows
    <3>2. turn'[p].pc = "reply" /\ turn[p].pc = "finalize" /\ \A t \in Turns \ {p} : turn'[t] = turn[t]
      BY <1>1, <2>5, <3>1, LifecycleTypes DEF Say, NoTurn, MayFinalize
    <3>3. InFlight' \subseteq InFlight
      BY <3>1, <3>2 DEF InFlight
    <3>4. /\ Solo'
          /\ \A t \in Turns \ {p} : TurnOK(t)'
          /\ \A c \in Callbacks \ {p} : CallbackOK(c)'
          /\ \A q \in Requests \ {p} : FinalizerOK(q)'
      BY <1>1, <2>1, <2>2, <2>3, <3>1, <3>2, <3>3, OthersKept
    <3>5. TurnOK(p)'
      BY <1>1, <2>5, <3>1, <3>2 DEF SerialOK, TurnOK
    <3>6. FinalizerOK(p)'
      BY <2>2, <2>5, <3>2 DEF FinalizerOK, MayFinalize
    <3> QED BY <2>4, <2>5, <3>4, <3>5, <3>6, CallbacksAssumption DEF SerialOK
  <2>6. CASE p \notin Turns
    <3>1. callback' = [callback EXCEPT ![p].pc = "done"] /\ UNCHANGED turn /\ p \in Callbacks
      BY <1>10, <2>6 DEF FinalizeReturns, FinalizeThrows, Requests
    <3>2. callback'[p].pc = "done" /\ callback'[p].final = callback[p].final /\ callback[p].pc = "finalize"
          /\ \A c \in Callbacks \ {p} : callback'[c] = callback[c]
      BY <1>1, <2>6, <3>1, LifecycleTypes DEF MayFinalize, Callback
    <3>3. InFlight' \subseteq InFlight
      BY <3>1, <3>2 DEF InFlight
    <3>4. /\ Solo'
          /\ \A t \in Turns \ {p} : TurnOK(t)'
          /\ \A c \in Callbacks \ {p} : CallbackOK(c)'
          /\ \A q \in Requests \ {p} : FinalizerOK(q)'
      BY <1>1, <2>1, <2>2, <2>3, <3>1, <3>2, <3>3, OthersKept
    <3>5. CallbackOK(p)'
      BY <1>1, <2>1, <2>3, <3>1, <3>2 DEF SerialOK, CallbackOK, FinalStatuses
    <3>6. FinalizerOK(p)'
      BY <2>2, <2>6, <3>2 DEF FinalizerOK, MayFinalize
    <3> QED BY <2>4, <2>6, <3>1, <3>4, <3>5, <3>6 DEF SerialOK
  <2> QED BY <2>5, <2>6
<1> QED BY <1>2, <1>3, <1>4, <1>5, <1>6, <1>7, <1>8, <1>9, <1>10 DEF FinalizerStep

\* A callback that writes a row keeps what it read when it began.
LEMMA CallbackSerial ==
  ASSUME LifecycleTypeOK, SerialOK, NEW c \in Callbacks, CallbackStep(c)
  PROVE  SerialOK'
<1>1. /\ callback[c].pc \in {"persistDuration", "abandon", "abandonUsage", "backfill", "backfillUsage"}
      /\ UNCHANGED <<questionnaire, channel, line, state, answers, turn, summary, effects, finalizer>>
  BY DEF CallbackStep, PersistDuration, AbandonCall, RecordAbandonedUsage, BackfillDuration, BackfillUsage,
         CallbackThrows, vars
<1>2. PICK pc \in {"finalize", "abandonUsage", "backfillUsage", "done"} :
        CallbackGoto(c, pc) /\ (pc = "finalize" => callback[c].pc = "persistDuration")
  BY DEF CallbackStep, PersistDuration, AbandonCall, RecordAbandonedUsage, BackfillDuration, BackfillUsage,
         CallbackThrows
<1>3. /\ callback'[c].pc = pc /\ callback'[c].final = callback[c].final
      /\ callback'[c].hasUsage = callback[c].hasUsage
      /\ \A d \in Callbacks \ {c} : callback'[d] = callback[d]
  BY <1>2, LifecycleTypes DEF CallbackGoto, Callback
<1>4. c \in InFlight /\ InFlight' \subseteq InFlight
  BY <1>1, <1>3 DEF InFlight
<1>5. c \notin Turns /\ c \in Requests /\ CallbackOK(c) /\ CallOK /\ FinalizerOK(c) /\ callback[c].final
  BY <1>1, CallbacksAssumption DEF SerialOK, Requests, CallbackOK
<1>6. /\ call'.callerEmailConsent = call.callerEmailConsent
      /\ call'.status \in {call.status, "failed"} /\ (call'.status # call.status => callback[c].pc = "abandon")
  BY LifecycleTypes DEF CallbackStep, PersistDuration, AbandonCall, RecordAbandonedUsage, BackfillDuration,
     BackfillUsage, CallbackThrows, vars, Call
<1>7. faults' = 0 => faults = 0
  BY LifecycleTypes DEF CallbackStep, PersistDuration, AbandonCall, RecordAbandonedUsage, BackfillDuration,
     BackfillUsage, CallbackThrows, vars
<1>8. /\ Solo'
      /\ \A t \in Turns \ {c} : TurnOK(t)'
      /\ \A d \in Callbacks \ {c} : CallbackOK(d)'
      /\ \A q \in Requests \ {c} : FinalizerOK(q)'
  BY <1>1, <1>3, <1>4, <1>6, <1>7, OthersKept DEF FinalStatuses
<1>9. finalizer[c].pc = "off"
  BY <1>1, <1>5 DEF FinalizerOK, MayFinalize
<1>10. \A d \in Callbacks : callback'[d].final = callback[d].final
  BY <1>3
<1>11. effects["billed"] > 0 => usage' = "full"
  <2>1. CASE UNCHANGED usage
    BY <1>5, <2>1 DEF CallOK
  <2>2. CASE RecordAbandonedUsage(c)
    BY <1>5, <2>2 DEF RecordAbandonedUsage, CallbackOK, CallOK
  <2>3. CASE BackfillUsage(c)
    <3>1. usage # "none" => usage' = usage
      BY <1>5, <2>3 DEF BackfillUsage, CallbackOK
    <3> QED BY <1>5, <3>1 DEF CallOK
  <2> QED
    BY <2>1, <2>2, <2>3 DEF CallbackStep, PersistDuration, AbandonCall, BackfillDuration, CallbackThrows, vars
<1>12. callback[c].pc = "abandon" => ~Completed
  BY <1>5 DEF CallbackOK
<1>13. CallOK'
  BY <1>1, <1>5, <1>6, <1>10, <1>11, <1>12 DEF CallOK, Completed, Answered
<1>14. FinalizerOK(c)'
  <2>1. ~Completed \/ pc # "finalize"
    BY <1>2, <1>5 DEF CallbackOK
  <2> QED BY <1>1, <1>3, <1>5, <1>9, <2>1 DEF FinalizerOK, MayFinalize, Completed
<1>15. CallbackOK(c)'
  <2>1. channel' = "phone" /\ line' = "closed"
    BY <1>1, <1>5 DEF CallbackOK
  <2>2. CASE PersistDuration(c)
    BY <1>1, <1>3, <1>5, <2>1, <2>2 DEF PersistDuration, CallbackOK, CallbackGoto
  <2>3. CASE AbandonCall(c)
    <3>1. call'.status = "failed" /\ callback'[c].pc = "abandonUsage" /\ callback[c].pc = "abandon"
      BY <2>3, LifecycleTypes DEF AbandonCall, Call, CallbackGoto, Callback
    <3> QED BY <1>1, <1>3, <1>5, <2>1, <3>1 DEF CallbackOK, FinalStatuses, Completed
  <2>4. CASE BackfillDuration(c)
    <3>1. callback'[c].pc = "backfillUsage" /\ callback[c].pc = "backfill" /\ UNCHANGED <<call, usage, faults>>
      BY <2>4, LifecycleTypes DEF BackfillDuration, Call, CallbackGoto, Callback, vars
    <3> QED BY <1>1, <1>3, <1>5, <2>1, <3>1 DEF CallbackOK, FinalStatuses, Completed
  <2>5. CASE RecordAbandonedUsage(c) \/ BackfillUsage(c)
    <3>1. callback'[c].pc = "done" /\ callback[c].pc \in {"abandonUsage", "backfillUsage"}
          /\ UNCHANGED <<call, faults>>
      BY <2>5, LifecycleTypes DEF RecordAbandonedUsage, BackfillUsage, Call, CallbackGoto, Callback, vars
    <3> QED BY <1>1, <1>3, <1>5, <2>1, <3>1 DEF CallbackOK, FinalStatuses, Completed
  <2>6. CASE CallbackThrows(c)
    <3>1. callback'[c].pc = "done" /\ faults' # 0
      BY <2>6, LifecycleTypes DEF CallbackThrows, Call, CallbackGoto, Callback
    <3> QED BY <1>1, <1>3, <1>5, <2>1, <3>1 DEF CallbackOK, FinalStatuses, Completed
  <2> QED BY <2>2, <2>3, <2>4, <2>5, <2>6 DEF CallbackStep
<1> QED BY <1>1, <1>5, <1>8, <1>13, <1>14, <1>15 DEF SerialOK, Completed

\* A callback begins: it is ignored, or it is the only request in flight.
LEMMA ReceiveSerial ==
  ASSUME LifecycleTypeOK, SerialOK, NEW c \in Callbacks, ReceiveCallback(c), ~raced'
  PROVE  SerialOK'
<1> DEFINE action(f) == ClassifyEndOfCall(f, call.status, call.consentGiven, Cardinality(Answered))
           entry(a) == CASE a = "finalize" -> IF reported = "absent" THEN "finalize"
                                                                     ELSE "persistDuration"
                         [] a = "abandon"  -> "abandon"
                         [] a = "backfill" -> "backfill"
                         [] OTHER          -> "done"
<1>1. \A a : /\ entry(a) \in {"finalize", "persistDuration", "abandon", "backfill", "done"}
             /\ (entry(a) \in {"finalize", "persistDuration"} <=> a = "finalize")
             /\ (entry(a) = "abandon" <=> a = "abandon") /\ (entry(a) = "backfill" <=> a = "backfill")
  OBVIOUS
<1>2. PICK f \in BOOLEAN :
        /\ callback' = [callback EXCEPT ![c] = [pc |-> entry(action(f)), duration |-> duration,
                                                hasUsage |-> usage # "none", final |-> f]]
        /\ f => line = "closed" /\ InFlight = {}
  BY DEF ReceiveCallback
<1>3. /\ callback[c].pc = "new" /\ channel = "phone"
      /\ UNCHANGED <<questionnaire, channel, line, call, state, answers, turn, faults, summary, usage, effects, finalizer,
                  duration>>
  BY DEF ReceiveCallback, vars
<1>4. action(f) = IF ~f THEN "ignore" ELSE IF call.status \in FinalStatuses THEN "backfill"
                  ELSE IF call.status = "in_progress" /\ call.consentGiven /\ Cardinality(Answered) > 0
                    THEN "finalize" ELSE "abandon"
  BY LifecycleTypes DEF ClassifyEndOfCall, FinalStatuses, Call, Statuses
<1> HIDE DEF entry, action
<1> DEFINE pc == entry(action(f))
<1>5. /\ callback'[c].pc = pc /\ callback'[c].final = f /\ callback'[c].hasUsage = (usage # "none")
      /\ \A d \in Callbacks \ {c} : callback'[d] = callback[d]
  BY <1>2, LifecycleTypes
<1>6. c \notin Turns /\ c \in Requests /\ CallOK /\ FinalizerOK(c)
  BY CallbacksAssumption DEF SerialOK, Requests
<1>7. finalizer'[c].pc = "off"
  BY <1>3, <1>6 DEF FinalizerOK, MayFinalize
<1>8. /\ ~f => pc = "done"
      /\ pc \in {"finalize", "persistDuration", "abandon"} => call.status \notin FinalStatuses
      /\ pc = "backfill" => call.status \in FinalStatuses
      /\ f => pc # "done"
      /\ pc \in {"finalize", "persistDuration", "abandon", "backfill", "done"}
  BY <1>1, <1>4
<1> HIDE DEF pc
<1>9. call.status \notin FinalStatuses => ~Completed
  BY <1>6 DEF CallOK, FinalStatuses
<1>10. CallOK'
  <2>1. Completed /\ state.phase # "done" => \E d \in Callbacks : callback'[d].final
    <3> SUFFICES ASSUME Completed, state.phase # "done" PROVE \E d \in Callbacks : callback'[d].final
      OBVIOUS
    <3>1. PICK d \in Callbacks : callback[d].final
      BY <1>6 DEF CallOK
    <3>2. callback[d].final /\ d # c
      BY <1>3, <3>1 DEF SerialOK, CallbackOK
    <3> QED BY <1>5, <3>2
  <2> QED BY <1>3, <1>6, <2>1 DEF CallOK, Completed, Answered
<1>11. CallbackOK(c)'
  <2>1. f => channel' = "phone" /\ line' = "closed"
    BY <1>2, <1>3
  <2> QED BY <1>3, <1>5, <1>8, <1>9, <2>1 DEF CallbackOK, Completed
<1>12. \A d \in Callbacks \ {c} : CallbackOK(d)'
  BY <1>3, <1>5 DEF SerialOK, CallbackOK, Completed
<1>13. FinalizerOK(c)'
  BY <1>3, <1>5, <1>6, <1>7, <1>8, <1>9 DEF FinalizerOK, MayFinalize, Completed
<1>14. ASSUME NEW q \in Requests \ {c} PROVE FinalizerOK(q)'
  <2>1. MayFinalize(q)' = MayFinalize(q)
    BY <1>3, <1>5 DEF MayFinalize, Requests
  <2> QED BY <1>3, <2>1 DEF SerialOK, FinalizerOK, Completed, Answered
<1>15. Solo' /\ \A t \in Turns : TurnOK(t)'
  <2>1. CASE f
    <3>1. InFlight' \subseteq {c} /\ \A t \in Turns : turn'[t].pc = "idle"
      BY <1>2, <1>3, <1>5, <2>1 DEF InFlight
    <3>2. Solo'
      BY <3>1 DEF Solo
    <3> QED BY <3>1, <3>2 DEF TurnOK
  <2>2. CASE ~f
    <3>1. InFlight' = InFlight
      BY <1>3, <1>5, <1>8, <2>2 DEF InFlight
    <3>2. Solo'
      BY <3>1 DEF Solo, SerialOK
    <3>3. ASSUME NEW t \in Turns PROVE TurnOK(t)'
      BY <1>3, <1>5, <2>2 DEF SerialOK, TurnOK
    <3> QED BY <3>2, <3>3
  <2> QED BY <2>1, <2>2
<1> QED BY <1>10, <1>11, <1>12, <1>13, <1>14, <1>15 DEF SerialOK

LEMMA TurnSerial ==
  ASSUME LifecycleTypeOK, SerialOK, NEW t \in Turns, TurnBegins(t) \/ TurnContinues(t), ~raced'
  PROVE  SerialOK'
<1>1. t \notin Callbacks /\ t \in Requests /\ TurnOK(t) /\ CallOK /\ FinalizerOK(t)
  BY CallbacksAssumption DEF SerialOK, Requests
<1>2. CASE TurnBegins(t)
  <2>1. /\ InFlight = {} /\ turn[t].pc = "idle" /\ (channel = "phone" => line = "open")
        /\ UNCHANGED <<questionnaire, channel, line, call, state, answers, faults, summary, usage, effects, finalizer, callback,
                        duration>>
    BY <1>2 DEF TurnBegins, RequestStep, LoadCall, NoteRace
  <2>2. PICK u \in Utterances :
          turn' = [turn EXCEPT ![t] = [pc |-> "loaded", text |-> u, state |-> state,
                                       answers |-> answers, action |-> "gather"]]
    BY <1>2 DEF TurnBegins, RequestStep, LoadCall
  <2>3. turn'[t].pc = "loaded" /\ turn'[t].state = state /\ \A s \in Turns \ {t} : turn'[s] = turn[s]
    BY <2>2, LifecycleTypes
  <2>4. \A c \in Callbacks : ~callback[c].final
    BY <2>1 DEF SerialOK, CallbackOK
  <2>5. \A s \in Turns \ {t} : turn'[s].pc = "idle"
    BY <2>1, <2>3 DEF InFlight
  <2>6. Solo'
    BY <2>1, <2>5 DEF Solo, InFlight
  <2>7. ASSUME NEW s \in Turns PROVE TurnOK(s)'
    BY <2>1, <2>3, <2>4, <2>5 DEF TurnOK
  <2>8. ASSUME NEW c \in Callbacks PROVE CallbackOK(c)'
    BY <2>1 DEF SerialOK, CallbackOK, Completed
  <2>9. ASSUME NEW q \in Requests PROVE FinalizerOK(q)'
    <3>1. MayFinalize(q)' = MayFinalize(q)
      BY <2>1, <2>3 DEF MayFinalize, Requests
    <3> QED BY <2>1, <3>1 DEF SerialOK, FinalizerOK, Completed, Answered
  <2>10. CallOK'
    BY <1>1, <2>1 DEF CallOK, Completed, Answered
  <2> QED BY <2>6, <2>7, <2>8, <2>9, <2>10 DEF SerialOK
<1>3. CASE TurnContinues(t)
  <2>1. UNCHANGED <<summary, usage, effects, finalizer, callback, duration>> /\ DialogueStep(t)
    BY <1>3 DEF TurnContinues, endVars
  <2>2. PICK r \in Turn :
           /\ turn' = [turn EXCEPT ![t] = r] /\ turn[t].pc \notin {"idle", "finalize"} /\ r.pc # "loaded"
           /\ (r.pc = "start" => state'.phase = "consent") /\ (r.pc = "advance" => state'.phase = "questions")
           /\ (r.pc = "closing" => state'.phase = "email_consent") /\ (r.pc = "finalize" => state'.phase = "done")
           /\ (state.phase = "done" => UNCHANGED <<state, call, answers>> /\ r.pc \in {"reply", "idle"})
           /\ (call'.status = "completed" => call.status = "completed")
           /\ UNCHANGED <<questionnaire, channel>> /\ line' \in {line, "closed"} /\ (faults' = 0 => faults = 0)
    BY <1>1, <2>1, DialogueEffect
  <2>3. turn'[t] = r /\ \A s \in Turns \ {t} : turn'[s] = turn[s]
    BY <2>2, LifecycleTypes
  <2>4. t \in InFlight /\ InFlight' \subseteq InFlight
    BY <2>1, <2>2, <2>3 DEF InFlight
  <2>5. \A c \in Callbacks : ~callback[c].final
    BY <1>1, <2>2 DEF TurnOK
  <2>6. Completed => state.phase = "done"
    BY <1>1, <2>5 DEF CallOK
  <2>7. /\ \A s \in Turns \ {t} : turn'[s].pc = "idle"
        /\ \A q \in Requests \ {t} : ~MayFinalize(q) /\ finalizer'[q].pc = "off"
    BY <2>1, <2>3, <2>4, OthersQuiet
  <2>8. Solo'
    BY <2>4 DEF Solo, SerialOK
  <2>9. ASSUME NEW s \in Turns PROVE TurnOK(s)'
    BY <2>1, <2>2, <2>3, <2>5, <2>7 DEF TurnOK
  <2>10. ASSUME NEW c \in Callbacks PROVE CallbackOK(c)'
    <3>1. ~callback'[c].final /\ callback'[c].pc \in {"new", "done"}
      BY <2>1, <2>5 DEF SerialOK, CallbackOK
    <3> QED BY <3>1 DEF CallbackOK
  <2>11. ASSUME NEW q \in Requests PROVE FinalizerOK(q)'
    <3>1. CASE q = t
      <4>1. finalizer'[q].pc = "off" /\ MayFinalize(q)' = (r.pc = "finalize")
        BY <1>1, <2>1, <2>2, <2>3, <3>1 DEF FinalizerOK, MayFinalize
      <4>2. r.pc = "finalize" => ~Completed'
        BY <2>1, <2>2, <2>6 DEF Completed
      <4> QED BY <4>1, <4>2 DEF FinalizerOK
    <3>2. CASE q # t
      <4>1. ~MayFinalize(q)' /\ finalizer'[q].pc = "off"
        BY <2>1, <2>3, <2>7, <3>2 DEF MayFinalize, Requests
      <4> QED BY <4>1 DEF FinalizerOK
    <3> QED BY <3>1, <3>2
  <2>12. CallOK'
    <3>1. CASE Completed
      BY <1>1, <2>1, <2>2, <2>6, <3>1 DEF CallOK, Completed, Answered
    <3>2. CASE ~Completed
      <4>1. call'.status # "completed"
        BY <1>1, <2>2, <3>2 DEF CallOK
      <4> QED BY <1>1, <2>1, <3>2, <4>1 DEF CallOK, Completed, Mails
    <3> QED BY <3>1, <3>2
  <2> QED BY <2>8, <2>9, <2>10, <2>11, <2>12 DEF SerialOK
<1> QED BY <1>2, <1>3

LEMMA SerialInductive ==
  /\ InitLifecycle => SerialOK
  /\ LifecycleTypeOK /\ (~raced => SerialOK) /\ [NextLifecycle]_allVars => (~raced => SerialOK)'
<1>1. ASSUME InitLifecycle PROVE SerialOK
  <2>1. /\ \A t \in Turns : turn[t].pc = "idle"
        /\ \A c \in Callbacks : callback[c].pc = "new" /\ ~callback[c].final
        /\ \A q \in Requests : finalizer[q].pc = "off" /\ ~MayFinalize(q)
        /\ \A e \in Effects : effects[e] = 0
        /\ call.status = "consent_pending"
    BY <1>1 DEF InitLifecycle, Init, NoTurn, NewCallback, NoFinalizer, MayFinalize, Requests
  <2>2. Solo
    BY <2>1 DEF Solo, InFlight
  <2>3. CallOK
    BY <2>1 DEF CallOK, Completed, Effects, Mails
  <2> QED BY <2>1, <2>2, <2>3 DEF SerialOK, TurnOK, CallbackOK, FinalizerOK
<1>2. ASSUME LifecycleTypeOK, ~raced => SerialOK, [NextLifecycle]_allVars, ~raced' PROVE SerialOK'
  <2>1. ~raced /\ SerialOK
    <3>1. CASE \E t \in Turns : TurnBegins(t) \/ TurnContinues(t)
      <4>1. NoteRace \/ UNCHANGED raced
        BY <3>1 DEF TurnBegins, TurnContinues, endVars
      <4>2. raced \in BOOLEAN /\ (InFlight # {}) \in BOOLEAN
        BY <1>2 DEF LifecycleTypeOK, EndTypeOK
      <4>3. ~raced
        BY <1>2, <4>1, <4>2 DEF NoteRace
      <4> QED BY <1>2, <4>3
    <3>2. CASE \E p \in Requests : FinalizerStep(p)
      BY <1>2, <3>2 DEF FinalizerStep, ReadCall, GenerateSummary, UpsertSummary, CompleteCall, BillCall,
         MailTenant, MailCaller, BookAppointment, FinalizeReturns, FinalizeThrows
    <3>3. CASE \E c \in Callbacks : ReceiveCallback(c)
      BY <1>2, <3>3 DEF ReceiveCallback
    <3>4. CASE \E c \in Callbacks : CallbackStep(c)
      BY <1>2, <3>4 DEF CallbackStep, PersistDuration, AbandonCall, RecordAbandonedUsage, BackfillDuration,
         BackfillUsage, CallbackThrows
    <3>5. CASE HangUp \/ UNCHANGED allVars
      BY <1>2, <3>5 DEF HangUp, endVars, allVars
    <3> QED BY <1>2, <3>1, <3>2, <3>3, <3>4, <3>5 DEF NextLifecycle
  <2>2. CASE \E t \in Turns : TurnBegins(t) \/ TurnContinues(t)
    BY <1>2, <2>1, <2>2, TurnSerial
  <2>3. CASE \E p \in Requests : FinalizerStep(p)
    BY <1>2, <2>1, <2>3, FinalizerSerial
  <2>4. CASE \E c \in Callbacks : ReceiveCallback(c) \/ CallbackStep(c)
    BY <1>2, <2>1, <2>4, ReceiveSerial, CallbackSerial
  <2>5. CASE HangUp \/ UNCHANGED allVars
    <3>1. /\ UNCHANGED <<questionnaire, channel, call, state, answers, turn, faults, summary, usage, effects, finalizer, callback,
                        duration>>
          /\ line' \in {line, "closed"}
      BY <2>5 DEF HangUp, CallerHangsUp, endVars, allVars, vars
    <3>2. Solo' /\ CallOK' /\ (\A t \in Turns : TurnOK(t)') /\ \A c \in Callbacks : CallbackOK(c)'
      BY <2>1, <3>1 DEF SerialOK, Solo, InFlight, CallOK, TurnOK, CallbackOK, Completed, Answered
    <3>3. ASSUME NEW q \in Requests PROVE FinalizerOK(q)'
      BY <2>1, <3>1 DEF SerialOK, FinalizerOK, MayFinalize, Completed, Answered
    <3> QED BY <3>2, <3>3 DEF SerialOK
  <2> QED BY <1>2, <2>2, <2>3, <2>4, <2>5 DEF NextLifecycle
<1> QED BY <1>1, <1>2

LEMMA SerialHolds == LifecycleSpec => [](LifecycleTypeOK /\ (~raced => SerialOK))
<1>1. LifecycleSpec => []LifecycleTypeOK
  BY LifecycleTypeCorrect
<1>2. InitLifecycle => (~raced => SerialOK)
  BY SerialInductive
<1>3. LifecycleTypeOK /\ (~raced => SerialOK) /\ [NextLifecycle]_allVars => (~raced => SerialOK)'
  BY SerialInductive
<1> QED BY <1>1, <1>2, <1>3, PTL DEF LifecycleSpec

\* One after the other, however many turns and callbacks a call has and whichever
\* statements fail: each mail and the appointment once at most, the caller's mail with
\* the consent the row records.
THEOREM MailsHold == LifecycleSpec => []MailsHoldUnlessRaced
<1>1. (~raced => SerialOK) => MailsHoldUnlessRaced
  BY DEF SerialOK, CallOK, Mails, MailsHoldUnlessRaced
<1> QED BY <1>1, SerialHolds, PTL

\* As long as requests do not overlap and nothing fails, a final callback that was handled
\* leaves a final status (webhooks.ts:233-283).
THEOREM Settled == LifecycleSpec => []SettledUnlessRaced
<1>1. (~raced => SerialOK) => SettledUnlessRaced
  BY DEF SerialOK, CallbackOK, SettledUnlessRaced
<1> QED BY <1>1, SerialHolds, PTL

\* As long as requests do not overlap, a completed call keeps a summary of every stored
\* answer, and its full cost (finalizeCall, and the backfill of webhooks.ts).
THEOREM ResultsAreWhole == LifecycleSpec => []ResultsAreWholeUnlessRaced
<1>1. (~raced => SerialOK) => ResultsAreWholeUnlessRaced
  BY DEF SerialOK, CallOK, ResultsAreWholeUnlessRaced
<1> QED BY <1>1, SerialHolds, PTL

\* Only Twilio's duration is "reported", in the row and in what a run of finalizeCall read.
ReportedOK ==
  /\ duration = "reported" => reported = "reported"
  /\ \A p \in Requests : finalizer[p].duration = "reported" => reported = "reported"

LEMMA ReportedInductive ==
  /\ InitLifecycle => ReportedOK
  /\ LifecycleTypeOK /\ ReportedOK /\ [NextLifecycle]_allVars => ReportedOK'
<1>1. InitLifecycle => ReportedOK
  BY DEF InitLifecycle, ReportedOK, NoFinalizer
<1>2. ASSUME LifecycleTypeOK, ReportedOK, [NextLifecycle]_allVars PROVE ReportedOK'
  <2>1. CASE \/ \E t \in Turns : TurnBegins(t) \/ TurnContinues(t)
             \/ HangUp \/ UNCHANGED allVars
             \/ \E c \in Callbacks : ReceiveCallback(c)
    <3>1. UNCHANGED <<duration, reported, finalizer>>
      BY <2>1 DEF TurnBegins, TurnContinues, HangUp, endVars, allVars, ReceiveCallback
    <3> QED BY <1>2, <3>1 DEF ReportedOK
  <2>2. CASE \E c \in Callbacks : CallbackStep(c)
    <3>1. UNCHANGED <<reported, finalizer>> /\ duration' \in {duration, reported, "estimated"}
      BY <2>2 DEF CallbackStep, PersistDuration, AbandonCall, RecordAbandonedUsage, BackfillDuration,
         BackfillUsage, CallbackThrows
    <3> QED BY <1>2, <3>1 DEF ReportedOK
  <2>3. CASE \E p \in Requests : FinalizerStep(p)
    <3>1. PICK p \in Requests : FinalizerStep(p)
      BY <2>3
    <3>2. UNCHANGED reported /\ duration' \in {duration, "estimated", finalizer[p].duration}
      BY <3>1 DEF FinalizerStep, ReadCall, GenerateSummary, UpsertSummary, CompleteCall, BillCall,
         MailTenant, MailCaller, BookAppointment, FinalizeReturns, FinalizeThrows
    <3>3. finalizer \in [Requests -> Finalizer] /\ finalizer[p] \in Finalizer
      BY <1>2, LifecycleTypes
    <3>4. \A q \in Requests : finalizer'[q].duration \in {finalizer[q].duration, duration, "zero"}
      <4>1. CASE ReadCall(p)
        BY <3>3, <4>1 DEF ReadCall, NoFinalizer
      <4>2. CASE FinalizeReturns(p) \/ FinalizeThrows(p)
        BY <3>3, <4>2 DEF FinalizeReturns, FinalizeThrows, NoFinalizer
      <4>3. CASE \E pc : FinalizerGoto(p, pc)
        BY <3>3, <4>3 DEF FinalizerGoto, Finalizer
      <4> QED
        BY <3>1, <4>1, <4>2, <4>3 DEF FinalizerStep, GenerateSummary, UpsertSummary, CompleteCall, BillCall,
           MailTenant, MailCaller, BookAppointment
    <3> QED BY <1>2, <3>1, <3>2, <3>4 DEF ReportedOK
  <2> QED BY <1>2, <2>1, <2>2, <2>3 DEF NextLifecycle
<1> QED BY <1>1, <1>2

\* As long as requests do not overlap, neither finalizeCall's estimate nor an abandoned
\* call's replaces a duration Twilio sent (call-lifecycle.ts, summary.service.ts).
THEOREM ReportedDurationKept == LifecycleSpec => ReportedDurationKeptUnlessRaced
<1> DEFINE Inv == LifecycleTypeOK /\ (~raced => SerialOK) /\ ReportedOK
<1>1. ASSUME Inv, [NextLifecycle]_allVars, ~raced', duration = "reported" PROVE duration' = "reported"
  <2>1. reported = "reported"
    BY <1>1 DEF ReportedOK
  <2>2. CASE \/ \E t \in Turns : TurnBegins(t) \/ TurnContinues(t)
             \/ HangUp \/ UNCHANGED allVars
             \/ \E c \in Callbacks : ReceiveCallback(c)
    BY <1>1, <2>2 DEF TurnBegins, TurnContinues, HangUp, endVars, allVars, ReceiveCallback
  <2>3. CASE \E c \in Callbacks : CallbackStep(c)
    BY <1>1, <2>1, <2>3 DEF CallbackStep, PersistDuration, AbandonCall, RecordAbandonedUsage, BackfillDuration,
       BackfillUsage, CallbackThrows
  <2>4. CASE \E p \in Requests : FinalizerStep(p)
    <3>1. PICK p \in Requests : FinalizerStep(p)
      BY <2>4
    <3>2. CASE CompleteCall(p)
      <4>1. UNCHANGED raced /\ finalizer[p].pc = "complete"
        BY <3>2 DEF CompleteCall, FinalizerAt
      <4>2. finalizer[p].duration = "reported"
        BY <1>1, <4>1 DEF SerialOK, FinalizerOK
      <4> QED BY <3>2, <4>2 DEF CompleteCall
    <3>3. CASE ~CompleteCall(p)
      BY <1>1, <3>1, <3>3 DEF FinalizerStep, ReadCall, GenerateSummary, UpsertSummary, BillCall,
         MailTenant, MailCaller, BookAppointment, FinalizeReturns, FinalizeThrows
    <3> QED BY <3>2, <3>3
  <2> QED BY <1>1, <2>2, <2>3, <2>4 DEF NextLifecycle
<1>2. InitLifecycle => ReportedOK
  BY ReportedInductive
<1>3. LifecycleTypeOK /\ ReportedOK /\ [NextLifecycle]_allVars => ReportedOK'
  BY ReportedInductive
<1>4. LifecycleSpec => []Inv
  BY <1>2, <1>3, SerialHolds, PTL DEF LifecycleSpec
<1>5. Inv /\ [NextLifecycle]_allVars =>
        [~raced' /\ duration = "reported" => duration' = "reported"]_allVars
  BY <1>1
<1> QED BY <1>4, <1>5, PTL DEF LifecycleSpec, ReportedDurationKeptUnlessRaced
=============================================================================
