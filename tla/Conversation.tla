---------------------------- MODULE Conversation ----------------------------
(***************************************************************************)
(* The turn-based dialogue of one call: handleTurn of                      *)
(* conversation.service.ts with the requests that invoke it.               *)
(*                                                                         *)
(* A turn is a request in flight.  It loads the call once and works on     *)
(* that copy; every write is a database statement of its own, so other     *)
(* requests and failures fall between any two of them.  The JSON column    *)
(* "state" is overwritten as a whole.                                      *)
(***************************************************************************)
EXTENDS QuestionnaireEngine

CONSTANTS
  Questionnaires,  \* the questionnaires an assistant may have
  Channels,        \* where turns come from: "phone" (gather), "simulator" (say)
  Turns,           \* requests that may be in flight at once
  MaxFaults        \* bound: outages in a behaviour, each failing a statement

ASSUME QuestionnairesAssumption == \A Q \in Questionnaires : IsQuestionnaire(Q)
ASSUME ChannelsAssumption == Channels \subseteq {"phone", "simulator"}
ASSUME MaxFaultsAssumption == MaxFaults \in Nat

VARIABLES
  questionnaire,  \* the assistant's questionnaire
  channel,        \* the channel of this call
  line,           \* "open" until the caller or a hangup verb ends the call
  call,           \* the columns of the call row that turns write
  state,          \* the call row's state column: phase, pending question, clarifications
  answers,        \* the callAnswer rows of the call
  turn,           \* what each request in flight knows and where it is
  faults          \* outages so far

vars == <<questionnaire, channel, line, call, state, answers, turn, faults>>

Phases == {"consent", "questions", "confirm", "correction", "email_consent", "done"}
Statuses == {"consent_pending", "in_progress", "declined", "completed", "failed"}

CallState == [phase : Phases, pendingQuestionKey : Keys \cup {NoKey}, clarifyCount : 0 .. 2]

\* The state a turn persists when it moves to a phase and no question is pending.
AtPhase(p) == [phase |-> p, pendingQuestionKey |-> NoKey, clarifyCount |-> 0]
Asking(k)  == [phase |-> "questions", pendingQuestionKey |-> k, clarifyCount |-> 0]

DefaultState == AtPhase("consent")

Call == [status : Statuses, consentGiven : BOOLEAN, callerEmailConsent : BOOLEAN]

TurnPcs == {"idle", "loaded", "start", "advance", "closing", "finalize", "reply"}
Turn == [pc : TurnPcs, text : Utterances, state : CallState, answers : AnswerMap,
         action : {"gather", "hangup"}]

NoTurn == [pc |-> "idle", text |-> "silence", state |-> DefaultState,
           answers |-> NoAnswers, action |-> "gather"]

TypeOK ==
  /\ questionnaire \in Questionnaires
  /\ channel \in Channels
  /\ line \in {"open", "closed"}
  /\ call \in Call
  /\ state \in CallState
  /\ answers \in AnswerMap
  /\ turn \in [Turns -> Turn]
  /\ faults \in 0 .. MaxFaults

\* The voice webhook (or simulate/start) has created the call and spoken the greeting.
Init ==
  /\ questionnaire \in Questionnaires
  /\ channel \in Channels
  /\ line = "open"
  /\ call = [status |-> "consent_pending", consentGiven |-> FALSE, callerEmailConsent |-> FALSE]
  /\ state = DefaultState
  /\ answers = NoAnswers
  /\ turn = [t \in Turns |-> NoTurn]
  /\ faults = 0

-----------------------------------------------------------------------------
(***************************************************************************)
(* Helpers of the handlers.                                                *)
(***************************************************************************)

\* A turn that loaded the call in this phase and has written nothing yet.
Handles(t, phase) == turn[t].pc = "loaded" /\ turn[t].state.phase = phase

\* The question the turn takes the utterance for.
Current(t) == turn[t].state.pendingQuestionKey
HasCurrent(t) == Current(t) \in DOMAIN questionnaire /\ Said(turn[t].text)

Goto(t, pc) == turn' = [turn EXCEPT ![t].pc = pc]

\* From here on the turn uses nothing of what it loaded.
Finalize(t)    == turn' = [turn EXCEPT ![t] = [NoTurn EXCEPT !.pc = "finalize"]]
Say(t, action) == turn' = [turn EXCEPT ![t] = [NoTurn EXCEPT !.pc = "reply", !.action = action]]

\* setState, then say.
Persist(t, s) == state' = s /\ Say(t, "gather")

\* Mutation: the questions are asked in any order.
AskNext_AnyOrder(t, known) ==
  /\ \/ \E k \in Askable(questionnaire, known) : Persist(t, Asking(k))
     \/ Askable(questionnaire, known) = {} /\ Persist(t, AtPhase("confirm"))
  /\ UNCHANGED <<questionnaire, channel, line, call, answers, faults>>

\* Mutation: conditions are ignored.
AskNext_Unconditionally(t, known) ==
  LET open == {k \in DOMAIN questionnaire : ~IsAnswered(known, k)} IN
  /\ \/ \E k \in open : Persist(t, Asking(k))
     \/ open = {} /\ Persist(t, AtPhase("confirm"))
  /\ UNCHANGED <<questionnaire, channel, line, call, answers, faults>>

\* Mutation: the summary is read back once the required questions are answered.
AskNext_RequiredOnly(t, known) ==
  /\ IF IsComplete(questionnaire, known)
       THEN Persist(t, AtPhase("confirm"))
       ELSE \E k \in NextQuestions(questionnaire, known) : Persist(t, Asking(k))
  /\ UNCHANGED <<questionnaire, channel, line, call, answers, faults>>

\* Ask the next question the answers leave open, or read the summary back.
AskNext(t, known) ==
  /\ \/ \E k \in NextQuestions(questionnaire, known) : Persist(t, Asking(k))
     \/ /\ NextQuestions(questionnaire, known) = {}
        /\ Persist(t, AtPhase("confirm"))
  /\ UNCHANGED <<questionnaire, channel, line, call, answers, faults>>

HasEmail(known) ==
  \E k \in DOMAIN questionnaire : questionnaire[k].type = "email" /\ Truthy(known[k])

\* proceedAfterConfirm: the answers are those the turn loaded.
ProceedAfterConfirm(t) ==
  /\ IF HasEmail(turn[t].answers)
       THEN Persist(t, AtPhase("email_consent"))
       ELSE state' = AtPhase("done") /\ Finalize(t)
  /\ UNCHANGED <<questionnaire, channel, line, call, answers, faults>>

-----------------------------------------------------------------------------
(***************************************************************************)
(* Requests.  Twilio sends the next gather request only while the line is  *)
(* open; the simulator ignores both the line and the action of the last    *)
(* reply, and never sends an empty text.                                   *)
(***************************************************************************)
LoadCall(t, u) ==
  /\ turn[t].pc = "idle"
  /\ channel = "phone" => line = "open"
  /\ channel = "simulator" => u # "silence"
  /\ turn' = [turn EXCEPT ![t] = [pc |-> "loaded", text |-> u, state |-> state,
                                  answers |-> answers, action |-> "gather"]]
  /\ UNCHANGED <<questionnaire, channel, line, call, state, answers, faults>>

\* The reply reaches Twilio; a hangup verb ends the call.
Reply(t) ==
  /\ turn[t].pc = "reply"
  /\ turn' = [turn EXCEPT ![t] = NoTurn]
  /\ line' = IF channel = "phone" /\ turn[t].action = "hangup" THEN "closed" ELSE line
  /\ UNCHANGED <<questionnaire, channel, call, state, answers, faults>>

\* A statement of the turn throws: what is written stays written, gather answers with a
\* hangup, the simulator with an error.
Throw(t) ==
  /\ turn[t].pc \notin {"idle", "finalize"}
  /\ faults < MaxFaults
  /\ faults' = faults + 1
  /\ turn' = [turn EXCEPT ![t] = NoTurn]
  /\ line' = IF channel = "phone" THEN "closed" ELSE line
  /\ UNCHANGED <<questionnaire, channel, call, state, answers>>

CallerHangsUp ==
  /\ channel = "phone"
  /\ line = "open"
  /\ line' = "closed"
  /\ UNCHANGED <<questionnaire, channel, call, state, answers, turn, faults>>

-----------------------------------------------------------------------------
(***************************************************************************)
(* Phase "consent".                                                        *)
(***************************************************************************)

\* Silence, or neither a yes nor a no.
ReaskConsent(t) ==
  /\ Handles(t, "consent")
  /\ ~SaysYes(turn[t].text) /\ ~SaysNo(turn[t].text)
  /\ Say(t, "gather")
  /\ UNCHANGED <<questionnaire, channel, line, call, state, answers, faults>>

\* The phase stays "consent": only the status says that the caller declined.
Decline(t) ==
  /\ Handles(t, "consent")
  /\ OnlyNo(turn[t].text)
  /\ call' = [call EXCEPT !.status = "declined"]
  /\ Say(t, "hangup")
  /\ UNCHANGED <<questionnaire, channel, line, state, answers, faults>>

\* Mutation: only the status records the consent.
GiveConsent_StatusOnly(t) ==
  /\ Handles(t, "consent")
  /\ SaysYes(turn[t].text)
  /\ call' = [call EXCEPT !.status = "in_progress"]
  /\ Goto(t, "start")
  /\ UNCHANGED <<questionnaire, channel, line, state, answers, faults>>

GiveConsent(t) ==
  /\ Handles(t, "consent")
  /\ SaysYes(turn[t].text)
  /\ call' = [call EXCEPT !.consentGiven = TRUE, !.status = "in_progress"]
  /\ Goto(t, "start")
  /\ UNCHANGED <<questionnaire, channel, line, state, answers, faults>>

\* startQuestions begins with an empty answer map, whatever is stored.
StartQuestions(t) ==
  /\ turn[t].pc = "start"
  /\ AskNext(t, NoAnswers)

-----------------------------------------------------------------------------
(***************************************************************************)
(* Phase "questions".                                                      *)
(***************************************************************************)

\* Nothing was said, or no question is pending (any more).
AskWithoutAnswer(t) ==
  /\ Handles(t, "questions")
  /\ ~HasCurrent(t)
  /\ AskNext(t, turn[t].answers)

Unclear(t) ==
  /\ Handles(t, "questions")
  /\ HasCurrent(t)
  /\ CanBeUnclear(questionnaire[Current(t)], turn[t].text)

\* Mutation: off by one in the limit.
Clarify_OnceMore(t) ==
  /\ Unclear(t)
  /\ turn[t].state.clarifyCount < 3
  /\ Persist(t, [turn[t].state EXCEPT !.clarifyCount = @ + 1])
  /\ UNCHANGED <<questionnaire, channel, line, call, answers, faults>>

Clarify(t) ==
  /\ Unclear(t)
  /\ turn[t].state.clarifyCount + 1 < 3
  /\ Persist(t, [turn[t].state EXCEPT !.clarifyCount = @ + 1])
  /\ UNCHANGED <<questionnaire, channel, line, call, answers, faults>>

\* The third failure in a row: the pending question is dropped from the state, and
\* "advance" then asks nextQuestion, which knows of no skipped question.
GiveUp(t) ==
  /\ Unclear(t)
  /\ turn[t].state.clarifyCount + 1 >= 3
  /\ state' = [turn[t].state EXCEPT !.clarifyCount = 0, !.pendingQuestionKey = NoKey]
  /\ Goto(t, "advance")
  /\ UNCHANGED <<questionnaire, channel, line, call, answers, faults>>

\* The upsert of the answer row, and the turn's own copy of the answers.
StoreAnswer(t) ==
  /\ Handles(t, "questions")
  /\ HasCurrent(t)
  /\ CanBeClear(turn[t].text)
  /\ \E v \in NormalizedValues(questionnaire[Current(t)]) :
       /\ answers' = [answers EXCEPT ![Current(t)] = v]
       /\ turn' = [turn EXCEPT ![t].pc = "advance", ![t].answers[Current(t)] = v]
  /\ UNCHANGED <<questionnaire, channel, line, call, state, faults>>

Advance(t) ==
  /\ turn[t].pc = "advance"
  /\ AskNext(t, turn[t].answers)

-----------------------------------------------------------------------------
(***************************************************************************)
(* Phases "confirm", "correction", "email_consent" and "done".             *)
(***************************************************************************)

RejectSummary(t) ==
  /\ Handles(t, "confirm")
  /\ OnlyNo(turn[t].text)
  /\ Persist(t, [turn[t].state EXCEPT !.phase = "correction"])
  /\ UNCHANGED <<questionnaire, channel, line, call, answers, faults>>

\* Anything but a plain no, silence included, confirms.
ConfirmSummary(t) ==
  /\ Handles(t, "confirm")
  /\ ~OnlyNo(turn[t].text)
  /\ ProceedAfterConfirm(t)

\* The correction is logged as a message and changes no answer.
TakeCorrection(t) ==
  /\ Handles(t, "correction")
  /\ ProceedAfterConfirm(t)

AnswerEmailConsent(t) ==
  /\ Handles(t, "email_consent")
  /\ call' = [call EXCEPT !.callerEmailConsent = SaysYes(turn[t].text) /\ ~SaysNo(turn[t].text)]
  /\ Goto(t, "closing")
  /\ UNCHANGED <<questionnaire, channel, line, state, answers, faults>>

CloseDialogue(t) ==
  /\ turn[t].pc = "closing"
  /\ state' = [turn[t].state EXCEPT !.phase = "done"]
  /\ Finalize(t)
  /\ UNCHANGED <<questionnaire, channel, line, call, answers, faults>>

SayGoodbye(t) ==
  /\ Handles(t, "done")
  /\ Say(t, "hangup")
  /\ UNCHANGED <<questionnaire, channel, line, call, state, answers, faults>>

\* finalize(): finalizeCall returned, having set the status (CallLifecycle refines this).
FinalizeSucceeds(t) ==
  /\ turn[t].pc = "finalize"
  /\ call' = [call EXCEPT !.status = "completed"]
  /\ Say(t, "hangup")
  /\ UNCHANGED <<questionnaire, channel, line, state, answers, faults>>

\* finalize(): finalizeCall threw, before or after it set the status; the update to
\* "failed" is itself best effort.
FinalizeFails(t) ==
  /\ turn[t].pc = "finalize"
  /\ faults < MaxFaults
  /\ faults' = faults + 1
  /\ \E s \in {"failed", "completed", call.status} : call' = [call EXCEPT !.status = s]
  /\ Say(t, "hangup")
  /\ UNCHANGED <<questionnaire, channel, line, state, answers>>

-----------------------------------------------------------------------------

\* A step of a turn that ends in a write other than finalize.
DialogueStep(t) ==
  \/ ReaskConsent(t) \/ Decline(t) \/ GiveConsent(t) \/ StartQuestions(t)
  \/ AskWithoutAnswer(t) \/ Clarify(t) \/ GiveUp(t) \/ StoreAnswer(t) \/ Advance(t)
  \/ RejectSummary(t) \/ ConfirmSummary(t) \/ TakeCorrection(t)
  \/ AnswerEmailConsent(t) \/ CloseDialogue(t) \/ SayGoodbye(t)
  \/ Reply(t) \/ Throw(t)

RequestStep(t) == \E u \in Utterances : LoadCall(t, u)

Next ==
  \/ \E t \in Turns : RequestStep(t) \/ DialogueStep(t)
  \/ \E t \in Turns : FinalizeSucceeds(t) \/ FinalizeFails(t)
  \/ CallerHangsUp

Spec == Init /\ [][Next]_vars

-----------------------------------------------------------------------------
(***************************************************************************)
(* Properties.                                                             *)
(***************************************************************************)

\* Nothing but the consent question happens without consent: no phase after it is
\* entered, no answer row is written and no turn reaches finalizeCall before the row
\* says consentGiven - whatever requests overlap and whichever statements fail.
ConsentFirst ==
  /\ state.phase # "consent" \/ (\E k \in Keys : IsAnswered(answers, k)) => call.consentGiven
  /\ \A t \in Turns : turn[t].pc \notin {"idle", "loaded", "reply"} => call.consentGiven

\* The caller is only ever asked the question the engine would ask next, given the
\* answers to the other questions: also when a turn stored an answer and failed before
\* it moved the state on.
PendingIsNext ==
  state.phase = "questions" /\ state.pendingQuestionKey # NoKey =>
    state.pendingQuestionKey \in
      NextQuestions(questionnaire, [answers EXCEPT ![state.pendingQuestionKey] = Undefined])

\* Every stored answer answers a question whose condition the stored answers satisfy:
\* no turn stores an answer and then undoes the reason the question was asked for.
AnswersAreActive ==
  \A k \in DOMAIN questionnaire :
    IsAnswered(answers, k) => IsQuestionActive(questionnaire[k], answers)

\* The summary is read back, and the call finalised, only when no question is open.
ConfirmedIsComplete ==
  state.phase \in {"confirm", "correction", "email_consent", "done"} =>
    Askable(questionnaire, answers) = {}

\* The e-mail offer is made, and accepted, only if the caller left an address.
EmailOfferHasAddress ==
  state.phase = "email_consent" \/ call.callerEmailConsent => HasEmail(answers)

\* The interview ends: no behaviour takes accepted answers for ever, however questions
\* depend on one another and whatever the caller says in between.
AnswersEnd == <>[][~ \E t \in Turns : StoreAnswer(t)]_vars

\* "Give up on this question after repeated failures; skip it."
\* (conversation.service.ts:214): after the third failure the same question is not the
\* next one asked.
GiveUpSkips ==
  [][\A t \in Turns :
       turn[t].pc = "advance" /\ turn[t].state.clarifyCount = 2 /\ turn'[t].pc = "reply"
       /\ ~IsAnswered(turn[t].answers, Current(t))
         => state'.pendingQuestionKey # Current(t)]_vars
=============================================================================
