------------------------- MODULE Conversation_proofs -------------------------
(***************************************************************************)
(* Theorems about the turn-based dialogue: for every questionnaire, every  *)
(* number of outages and, where a theorem does not say otherwise, every    *)
(* set of requests in flight.                                              *)
(***************************************************************************)
EXTENDS Conversation, QuestionnaireEngine_proofs

(***************************************************************************)
(* Type correctness.                                                       *)
(***************************************************************************)

LEMMA StateTypes ==
  /\ \A p \in Phases : AtPhase(p) \in CallState
  /\ \A k \in Keys : Asking(k) \in CallState
  /\ DefaultState \in CallState
  /\ NoTurn \in Turn
BY NoAnswersType DEF AtPhase, Asking, CallState, DefaultState, NoTurn, Turn, TurnPcs, Phases, Utterances

LEMMA QuestionTypesOK ==
  ASSUME TypeOK, NEW k \in DOMAIN questionnaire
  PROVE  k \in Keys /\ questionnaire[k] \in Question
BY QuestionnairesAssumption DEF TypeOK, IsQuestionnaire

LEMMA PersistType ==
  ASSUME TypeOK, NEW t \in Turns, NEW s \in CallState, Persist(t, s)
  PROVE  state' \in CallState /\ turn' \in [Turns -> Turn]
BY StateTypes DEF TypeOK, Persist, Say, Turn, TurnPcs

LEMMA DroppedQuestionType ==
  ASSUME NEW s \in CallState
  PROVE  [s EXCEPT !.clarifyCount = 0, !.pendingQuestionKey = NoKey] \in CallState
<1>1. [s EXCEPT !.clarifyCount = 0] \in CallState
  BY DEF CallState
<1>2. \A r \in CallState : [r EXCEPT !.pendingQuestionKey = NoKey] \in CallState
  BY DEF CallState
<1> QED BY <1>1, <1>2

LEMMA SayType ==
  ASSUME TypeOK, NEW t \in Turns, NEW action \in {"gather", "hangup"}, Say(t, action)
  PROVE  turn' \in [Turns -> Turn]
BY StateTypes DEF TypeOK, Say, Turn, TurnPcs

LEMMA StatusType ==
  ASSUME TypeOK, NEW s \in Statuses
  PROVE  [call EXCEPT !.status = s] \in Call
BY DEF TypeOK, Call

LEMMA AskNextType ==
  ASSUME TypeOK, NEW t \in Turns, NEW known, AskNext(t, known)
  PROVE  TypeOK'
<1>1. \A k \in NextQuestions(questionnaire, known) : k \in Keys
  BY NextQuestionsAskable, QuestionTypesOK
<1>2. state' \in CallState /\ turn' \in [Turns -> Turn]
  <2>1. CASE \E k \in NextQuestions(questionnaire, known) : Persist(t, Asking(k))
    BY <1>1, <2>1, StateTypes, PersistType
  <2>2. CASE Persist(t, AtPhase("confirm"))
    BY <2>2, StateTypes, PersistType DEF Phases
  <2> QED BY <2>1, <2>2 DEF AskNext
<1> QED BY <1>2 DEF AskNext, TypeOK

LEMMA ProceedType ==
  ASSUME TypeOK, NEW t \in Turns, ProceedAfterConfirm(t)
  PROVE  TypeOK'
<1>1. state' \in CallState /\ turn' \in [Turns -> Turn]
  <2>1. CASE Persist(t, AtPhase("email_consent"))
    BY <2>1, StateTypes, PersistType DEF Phases
  <2>2. CASE state' = AtPhase("done") /\ Finalize(t)
    BY <2>2, StateTypes DEF Phases, Finalize, TypeOK, Turn, TurnPcs
  <2> QED BY <2>1, <2>2 DEF ProceedAfterConfirm
<1> QED BY <1>1 DEF ProceedAfterConfirm, TypeOK

LEMMA DialogueStepType ==
  ASSUME TypeOK, NEW t \in Turns, DialogueStep(t)
  PROVE  TypeOK'
<1> USE DEF TypeOK
<1>1. CASE ReaskConsent(t) \/ SayGoodbye(t)
  BY <1>1, SayType DEF ReaskConsent, SayGoodbye
<1>2. CASE Decline(t)
  BY <1>2, SayType, StatusType DEF Decline, Statuses
<1>3. CASE GiveConsent(t)
  BY <1>3 DEF GiveConsent, Goto, Turn, TurnPcs, Call, Statuses
<1>4. CASE StartQuestions(t) \/ AskWithoutAnswer(t) \/ Advance(t)
  BY <1>4, AskNextType DEF StartQuestions, AskWithoutAnswer, Advance
<1>5. CASE Clarify(t)
  <2>1. [turn[t].state EXCEPT !.clarifyCount = @ + 1] \in CallState
    BY <1>5 DEF Clarify, Turn, CallState
  <2> QED BY <1>5, <2>1, PersistType DEF Clarify
<1>6. CASE GiveUp(t)
  <2>1. turn[t].state \in CallState
    BY DEF Turn
  <2>2. [turn[t].state EXCEPT !.clarifyCount = 0, !.pendingQuestionKey = NoKey] \in CallState
    BY <2>1, DroppedQuestionType
  <2>3. turn' \in [Turns -> Turn]
    BY <1>6 DEF GiveUp, Goto, Turn, TurnPcs
  <2> QED BY <1>6, <2>2, <2>3 DEF GiveUp
<1>7. CASE StoreAnswer(t)
  <2>1. PICK v \in NormalizedValues(questionnaire[Current(t)]) :
               /\ answers' = [answers EXCEPT ![Current(t)] = v]
               /\ turn' = [turn EXCEPT ![t].pc = "advance", ![t].answers[Current(t)] = v]
    BY <1>7 DEF StoreAnswer
  <2>2. Current(t) \in Keys /\ v \in JSValue
    BY <1>7, <2>1, QuestionTypesOK, NormalizedValuesType DEF StoreAnswer, HasCurrent
  <2>3. answers' \in AnswerMap
    BY <2>1, <2>2 DEF AnswerMap
  <2>4. [turn[t].answers EXCEPT ![Current(t)] = v] \in AnswerMap
    BY <2>2 DEF AnswerMap, Turn
  <2>5. turn' = [turn EXCEPT ![t] = [turn[t] EXCEPT !.pc = "advance",
                                       !.answers = [turn[t].answers EXCEPT ![Current(t)] = v]]]
    BY <2>1 DEF Turn
  <2>6. turn' \in [Turns -> Turn]
    BY <2>4, <2>5 DEF Turn, TurnPcs
  <2> QED BY <1>7, <2>3, <2>6 DEF StoreAnswer
<1>8. CASE RejectSummary(t)
  <2>1. [turn[t].state EXCEPT !.phase = "correction"] \in CallState
    BY DEF Turn, CallState, Phases
  <2> QED BY <1>8, <2>1, PersistType DEF RejectSummary
<1>9. CASE ConfirmSummary(t) \/ TakeCorrection(t)
  BY <1>9, ProceedType DEF ConfirmSummary, TakeCorrection
<1>10. CASE AnswerEmailConsent(t)
  BY <1>10 DEF AnswerEmailConsent, Goto, Turn, TurnPcs, Call
<1>11. CASE CloseDialogue(t)
  <2>1. [turn[t].state EXCEPT !.phase = "done"] \in CallState
    BY DEF Turn, CallState, Phases
  <2>2. turn' \in [Turns -> Turn]
    BY <1>11, StateTypes DEF CloseDialogue, Finalize, Turn, TurnPcs
  <2> QED BY <1>11, <2>1, <2>2 DEF CloseDialogue
<1>12. CASE Reply(t)
  BY <1>12, StateTypes DEF Reply
<1>13. CASE Throw(t)
  BY <1>13, StateTypes, MaxFaultsAssumption DEF Throw
<1> QED
  BY <1>1, <1>2, <1>3, <1>4, <1>5, <1>6, <1>7, <1>8, <1>9, <1>10, <1>11, <1>12, <1>13
  DEF DialogueStep

LEMMA OtherStepType ==
  ASSUME TypeOK, NEW t \in Turns,
         RequestStep(t) \/ FinalizeSucceeds(t) \/ FinalizeFails(t) \/ CallerHangsUp
  PROVE  TypeOK'
<1> USE DEF TypeOK
<1>1. CASE RequestStep(t)
  BY <1>1 DEF RequestStep, LoadCall, Turn, TurnPcs
<1>2. CASE FinalizeSucceeds(t)
  BY <1>2, SayType, StatusType DEF FinalizeSucceeds, Statuses
<1>3. CASE FinalizeFails(t)
  <2>1. call.status \in Statuses
    BY DEF Call
  <2>2. \A s \in {"failed", "completed", call.status} : [call EXCEPT !.status = s] \in Call
    BY <2>1, StatusType DEF Statuses
  <2>3. turn' \in [Turns -> Turn]
    BY <1>3, SayType DEF FinalizeFails
  <2> QED BY <1>3, <2>2, <2>3, MaxFaultsAssumption DEF FinalizeFails
<1>4. CASE CallerHangsUp
  BY <1>4 DEF CallerHangsUp
<1> QED BY <1>1, <1>2, <1>3, <1>4

\* The dialogue stays within its types: in particular the clarification counter never
\* passes two, whatever requests overlap.
THEOREM TypeCorrect == Spec => []TypeOK
<1>1. Init => TypeOK
  BY NoAnswersType, StateTypes, MaxFaultsAssumption DEF Init, TypeOK, Call, Statuses
<1>2. TypeOK /\ [Next]_vars => TypeOK'
  <2> SUFFICES ASSUME TypeOK, [Next]_vars
               PROVE  TypeOK'
    OBVIOUS
  <2>1. CASE \E t \in Turns : RequestStep(t) \/ DialogueStep(t)
    BY <2>1, DialogueStepType, OtherStepType
  <2>2. CASE \E t \in Turns : FinalizeSucceeds(t) \/ FinalizeFails(t)
    BY <2>2, OtherStepType
  <2>3. CASE CallerHangsUp
    BY <2>3 DEF CallerHangsUp, TypeOK
  <2>4. CASE UNCHANGED vars
    BY <2>4 DEF vars, TypeOK
  <2> QED BY <2>1, <2>2, <2>3, <2>4 DEF Next
<1> QED BY <1>1, <1>2, PTL DEF Spec

(***************************************************************************)
(* Consent.  ConsentFirst is not inductive: a turn that loaded the call in *)
(* a later phase acts on its copy, so its copy has to be covered too.      *)
(***************************************************************************)

LoadedAfterConsent ==
  \A t \in Turns : turn[t].pc = "loaded" /\ turn[t].state.phase # "consent" => call.consentGiven

ConsentInv == TypeOK /\ ConsentFirst /\ LoadedAfterConsent

\* No statement withdraws a consent.
LEMMA ConsentKept ==
  ASSUME TypeOK, Next, call.consentGiven
  PROVE  call'.consentGiven
<1>1. CASE \E t \in Turns : RequestStep(t) \/ DialogueStep(t)
  <2> PICK t \in Turns : RequestStep(t) \/ DialogueStep(t)
    BY <1>1
  <2>1. CASE RequestStep(t) \/ ReaskConsent(t) \/ StartQuestions(t) \/ AskWithoutAnswer(t)
             \/ Clarify(t) \/ GiveUp(t) \/ StoreAnswer(t) \/ Advance(t) \/ RejectSummary(t)
             \/ ConfirmSummary(t) \/ TakeCorrection(t) \/ CloseDialogue(t) \/ SayGoodbye(t)
             \/ Reply(t) \/ Throw(t)
    <3>1. UNCHANGED call
      BY <2>1 DEF RequestStep, LoadCall, ReaskConsent, StartQuestions, AskWithoutAnswer, AskNext,
         Clarify, GiveUp, StoreAnswer, Advance, RejectSummary, ConfirmSummary, TakeCorrection,
         ProceedAfterConfirm, CloseDialogue, SayGoodbye, Reply, Throw
    <3> QED BY <3>1
  <2>2. CASE Decline(t) \/ GiveConsent(t) \/ AnswerEmailConsent(t)
    BY <2>2 DEF Decline, GiveConsent, AnswerEmailConsent, TypeOK, Call
  <2> QED BY <2>1, <2>2 DEF DialogueStep
<1>2. CASE \E t \in Turns : FinalizeSucceeds(t) \/ FinalizeFails(t)
  BY <1>2 DEF FinalizeSucceeds, FinalizeFails, TypeOK, Call
<1>3. CASE CallerHangsUp
  BY <1>3 DEF CallerHangsUp
<1> QED BY <1>1, <1>2, <1>3 DEF Next

\* Before the consent, a turn can load the call, ask for the consent, take it or refuse
\* it, reply, or fail - and nothing else.
LEMMA StepsWithoutConsent ==
  ASSUME ConsentInv, ~call.consentGiven, NEW t \in Turns,
         DialogueStep(t) \/ FinalizeSucceeds(t) \/ FinalizeFails(t)
  PROVE  ReaskConsent(t) \/ Decline(t) \/ GiveConsent(t) \/ Reply(t) \/ Throw(t)
<1>1. turn[t].pc \in {"idle", "loaded", "reply"}
  BY DEF ConsentInv, ConsentFirst
<1>2. turn[t].pc = "loaded" => turn[t].state.phase = "consent"
  BY DEF ConsentInv, LoadedAfterConsent
<1> QED
  BY <1>1, <1>2 DEF DialogueStep, FinalizeSucceeds, FinalizeFails, StartQuestions, AskWithoutAnswer,
     Clarify, GiveUp, Unclear, StoreAnswer, Advance, RejectSummary, ConfirmSummary, TakeCorrection,
     AnswerEmailConsent, CloseDialogue, SayGoodbye, Handles

LEMMA ConsentInvInductive ==
  ASSUME ConsentInv, [Next]_vars
  PROVE  ConsentFirst' /\ LoadedAfterConsent'
<1>1. CASE UNCHANGED vars
  BY <1>1 DEF vars, ConsentInv, ConsentFirst, LoadedAfterConsent, IsAnswered
<1>2. CASE Next /\ call'.consentGiven
  BY <1>2 DEF ConsentFirst, LoadedAfterConsent
<1>3. CASE Next /\ ~call'.consentGiven
  <2>1. ~call.consentGiven
    BY <1>3, ConsentKept DEF ConsentInv
  <2>2. state.phase = "consent" /\ \A k \in Keys : ~IsAnswered(answers, k)
    BY <2>1 DEF ConsentInv, ConsentFirst
  <2>3. \A s \in Turns :
          /\ turn[s].pc \in {"idle", "loaded", "reply"}
          /\ turn[s].pc = "loaded" => turn[s].state.phase = "consent"
    BY <2>1 DEF ConsentInv, ConsentFirst, LoadedAfterConsent
  <2>4. /\ UNCHANGED <<state, answers>>
        /\ \A s \in Turns :
             /\ turn'[s].pc \in {"idle", "loaded", "reply"}
             /\ turn'[s].pc = "loaded" => turn'[s].state.phase = "consent"
    <3> USE DEF ConsentInv, TypeOK
    <3>1. CASE \E t \in Turns : RequestStep(t)
      BY <2>2, <2>3, <3>1 DEF RequestStep, LoadCall
    <3>2. CASE \E t \in Turns : ReaskConsent(t) \/ Decline(t)
      BY <2>3, <3>2 DEF ReaskConsent, Decline, Say, NoTurn
    <3>3. CASE \E t \in Turns : GiveConsent(t)
      BY <1>3, <3>3 DEF GiveConsent, Call
    <3>4. CASE \E t \in Turns : Reply(t) \/ Throw(t)
      BY <2>3, <3>4 DEF Reply, Throw, NoTurn
    <3>5. CASE CallerHangsUp
      BY <2>3, <3>5 DEF CallerHangsUp
    <3>6. CASE \E t \in Turns : DialogueStep(t) \/ FinalizeSucceeds(t) \/ FinalizeFails(t)
      BY <2>1, <3>2, <3>3, <3>4, <3>6, StepsWithoutConsent
    <3> QED BY <1>3, <3>1, <3>5, <3>6 DEF Next
  <2> QED BY <2>2, <2>4 DEF ConsentFirst, LoadedAfterConsent, IsAnswered
<1> QED BY <1>1, <1>2, <1>3

\* Nothing but the consent question happens without consent, for any number of
\* overlapping requests and any outages.
THEOREM ConsentComesFirst == Spec => []ConsentFirst
<1>1. Init => ConsentFirst /\ LoadedAfterConsent
  BY DEF Init, ConsentFirst, LoadedAfterConsent, DefaultState, AtPhase, NoAnswers, IsAnswered, NoTurn
<1>2. TypeOK /\ ConsentFirst /\ LoadedAfterConsent /\ [Next]_vars
        => (ConsentFirst /\ LoadedAfterConsent)'
  BY ConsentInvInductive DEF ConsentInv
<1> QED BY <1>1, <1>2, TypeCorrect, PTL DEF Spec

(***************************************************************************)
(* The e-mail offer.  An answer may be overwritten but is never removed,   *)
(* and what a turn loaded was stored.                                      *)
(***************************************************************************)

AddressesAreStored ==
  \A t \in Turns :
    HasEmail(turn[t].answers) \/ (turn[t].pc = "loaded" /\ turn[t].state.phase = "email_consent")
      => HasEmail(answers)

EmailInv == TypeOK /\ EmailOfferHasAddress /\ AddressesAreStored

LEMMA NoAnswersNoEmail ==
  ASSUME TypeOK
  PROVE  ~HasEmail(NoAnswers)
BY QuestionTypesOK DEF HasEmail, NoAnswers, Truthy, Undefined

LEMMA QuestionnaireKept ==
  ASSUME Next
  PROVE  UNCHANGED questionnaire
<1>1. CASE \E t \in Turns : RequestStep(t) \/ DialogueStep(t)
  BY <1>1 DEF RequestStep, LoadCall, DialogueStep, ReaskConsent, Decline, GiveConsent, StartQuestions,
     AskWithoutAnswer, AskNext, Clarify, GiveUp, StoreAnswer, Advance, RejectSummary, ConfirmSummary,
     TakeCorrection, ProceedAfterConfirm, AnswerEmailConsent, CloseDialogue, SayGoodbye, Reply, Throw
<1>2. CASE (\E t \in Turns : FinalizeSucceeds(t) \/ FinalizeFails(t)) \/ CallerHangsUp
  BY <1>2 DEF FinalizeSucceeds, FinalizeFails, CallerHangsUp
<1> QED BY <1>1, <1>2 DEF Next

\* Only StoreAnswer writes answers.
LEMMA AnswersWrittenByStoreAnswer ==
  ASSUME Next, \A t \in Turns : ~StoreAnswer(t)
  PROVE  UNCHANGED answers
<1>1. CASE \E t \in Turns : RequestStep(t) \/ DialogueStep(t)
  BY <1>1 DEF RequestStep, LoadCall, DialogueStep, ReaskConsent, Decline, GiveConsent, StartQuestions,
     AskWithoutAnswer, AskNext, Clarify, GiveUp, Advance, RejectSummary, ConfirmSummary,
     TakeCorrection, ProceedAfterConfirm, AnswerEmailConsent, CloseDialogue, SayGoodbye, Reply, Throw
<1>2. CASE (\E t \in Turns : FinalizeSucceeds(t) \/ FinalizeFails(t)) \/ CallerHangsUp
  BY <1>2 DEF FinalizeSucceeds, FinalizeFails, CallerHangsUp
<1> QED BY <1>1, <1>2 DEF Next

LEMMA StoredAnswerType ==
  ASSUME TypeOK, NEW t \in Turns, StoreAnswer(t)
  PROVE  \E v \in NormalizedValues(questionnaire[Current(t)]) :
           /\ v \in JSValue
           /\ Current(t) \in DOMAIN questionnaire
           /\ Current(t) \in Keys
           /\ answers' = [answers EXCEPT ![Current(t)] = v]
           /\ turn' = [turn EXCEPT ![t] = [turn[t] EXCEPT !.pc = "advance",
                                      !.answers = [turn[t].answers EXCEPT ![Current(t)] = v]]]
<1>1. PICK v \in NormalizedValues(questionnaire[Current(t)]) :
             /\ answers' = [answers EXCEPT ![Current(t)] = v]
             /\ turn' = [turn EXCEPT ![t].pc = "advance", ![t].answers[Current(t)] = v]
  BY DEF StoreAnswer
<1>2. Current(t) \in DOMAIN questionnaire /\ Current(t) \in Keys /\ v \in JSValue
  BY QuestionTypesOK, NormalizedValuesType DEF StoreAnswer, HasCurrent
<1>3. turn' = [turn EXCEPT ![t] = [turn[t] EXCEPT !.pc = "advance",
                                     !.answers = [turn[t].answers EXCEPT ![Current(t)] = v]]]
  BY <1>1 DEF TypeOK, Turn
<1> QED BY <1>1, <1>2, <1>3

\* The answer to an e-mail question is an address.
LEMMA EmailValuesTruthy ==
  ASSUME NEW q, q.type = "email", NEW v \in NormalizedValues(q)
  PROVE  Truthy(v)
<1>1. v = Text(1)
  BY DEF NormalizedValues
<1> QED BY <1>1 DEF Text, Truthy

LEMMA HasEmailKept ==
  ASSUME TypeOK, Next, HasEmail(answers)
  PROVE  HasEmail(answers)'
<1>1. UNCHANGED questionnaire
  BY QuestionnaireKept
<1>2. CASE \E t \in Turns : StoreAnswer(t)
  <2>1. PICK t \in Turns : StoreAnswer(t)
    BY <1>2
  <2>2. PICK v \in NormalizedValues(questionnaire[Current(t)]) :
          Current(t) \in Keys /\ answers' = [answers EXCEPT ![Current(t)] = v]
    BY <2>1, StoredAnswerType
  <2>3. PICK k \in DOMAIN questionnaire : questionnaire[k].type = "email" /\ Truthy(answers[k])
    BY DEF HasEmail
  <2>4. Truthy(answers'[k])
    <3>1. CASE k = Current(t)
      BY <2>2, <2>3, <3>1, EmailValuesTruthy DEF TypeOK, AnswerMap
    <3>2. CASE k # Current(t)
      BY <2>2, <2>3, <3>2, QuestionTypesOK DEF TypeOK, AnswerMap
    <3> QED BY <3>1, <3>2
  <2> QED BY <1>1, <2>3, <2>4 DEF HasEmail
<1>3. CASE \A t \in Turns : ~StoreAnswer(t)
  BY <1>1, <1>3, AnswersWrittenByStoreAnswer DEF HasEmail
<1> QED BY <1>2, <1>3

\* As long as no address is stored, no turn has one, none is offered and none accepted.
LEMMA StepsWithoutAddress ==
  ASSUME EmailInv, ~HasEmail(answers), Next, ~HasEmail(answers)'
  PROVE  /\ state'.phase # "email_consent"
         /\ ~call'.callerEmailConsent
         /\ \A s \in Turns :
              /\ ~HasEmail(turn'[s].answers)
              /\ ~(turn'[s].pc = "loaded" /\ turn'[s].state.phase = "email_consent")
<1> USE DEF EmailInv
<1>1. /\ state.phase # "email_consent"
      /\ ~call.callerEmailConsent
      /\ \A s \in Turns :
           /\ ~HasEmail(turn[s].answers)
           /\ ~(turn[s].pc = "loaded" /\ turn[s].state.phase = "email_consent")
  BY DEF EmailOfferHasAddress, AddressesAreStored
<1>2. TypeOK /\ turn \in [Turns -> Turn] /\ call \in Call /\ NoTurn \in Turn
  BY StateTypes DEF TypeOK
<1>3. ~HasEmail(NoAnswers)
  BY NoAnswersNoEmail
<1>4. ASSUME NEW t \in Turns, NEW action, Say(t, action)
      PROVE  \A s \in Turns :
               /\ ~HasEmail(turn'[s].answers)
               /\ ~(turn'[s].pc = "loaded" /\ turn'[s].state.phase = "email_consent")
  BY <1>1, <1>2, <1>3, <1>4 DEF Say, NoTurn
<1>5. ASSUME NEW t \in Turns, NEW pc, pc # "loaded", Goto(t, pc)
      PROVE  \A s \in Turns :
               /\ ~HasEmail(turn'[s].answers)
               /\ ~(turn'[s].pc = "loaded" /\ turn'[s].state.phase = "email_consent")
  BY <1>1, <1>2, <1>5 DEF Goto, Turn
<1>6. ASSUME NEW t \in Turns, NEW known, AskNext(t, known)
      PROVE  Say(t, "gather") /\ state'.phase # "email_consent" /\ UNCHANGED call
  BY <1>6 DEF AskNext, Persist, Asking, AtPhase
<1>7. CASE \E t \in Turns : RequestStep(t)
  BY <1>1, <1>2, <1>7 DEF RequestStep, LoadCall
<1>8. CASE \E t \in Turns : ReaskConsent(t) \/ SayGoodbye(t)
  BY <1>1, <1>4, <1>8 DEF ReaskConsent, SayGoodbye
<1>9. CASE \E t \in Turns : Decline(t) \/ FinalizeSucceeds(t) \/ FinalizeFails(t)
  BY <1>1, <1>2, <1>4, <1>9 DEF Decline, FinalizeSucceeds, FinalizeFails, Call
<1>10. CASE \E t \in Turns : GiveConsent(t)
  BY <1>1, <1>2, <1>5, <1>10 DEF GiveConsent, Call
<1>11. CASE \E t \in Turns : StartQuestions(t) \/ AskWithoutAnswer(t) \/ Advance(t)
  BY <1>1, <1>4, <1>6, <1>11 DEF StartQuestions, AskWithoutAnswer, Advance
<1>12. CASE \E t \in Turns : Clarify(t) \/ GiveUp(t)
  <2>1. PICK t \in Turns : Clarify(t) \/ GiveUp(t)
    BY <1>12
  <2>2. turn[t].state.phase = "questions" /\ turn[t].state \in CallState
    BY <1>2, <2>1 DEF Clarify, GiveUp, Unclear, Handles, Turn
  <2>3. CASE Clarify(t)
    BY <1>1, <1>4, <2>2, <2>3 DEF Clarify, Persist, CallState
  <2>4. CASE GiveUp(t)
    <3>1. state'.phase = "questions"
      BY <2>2, <2>4 DEF GiveUp, CallState
    <3> QED BY <1>1, <1>5, <2>4, <3>1 DEF GiveUp
  <2> QED BY <2>1, <2>3, <2>4
<1>13. CASE \E t \in Turns : StoreAnswer(t)
  <2>1. PICK t \in Turns : StoreAnswer(t)
    BY <1>13
  <2>2. PICK v \in NormalizedValues(questionnaire[Current(t)]) :
          /\ Current(t) \in Keys
          /\ Current(t) \in DOMAIN questionnaire
          /\ answers' = [answers EXCEPT ![Current(t)] = v]
          /\ turn' = [turn EXCEPT ![t] = [turn[t] EXCEPT !.pc = "advance",
                                     !.answers = [turn[t].answers EXCEPT ![Current(t)] = v]]]
    BY <1>2, <2>1, StoredAnswerType
  <2>3. \A k \in DOMAIN questionnaire :
          questionnaire[k].type = "email" => ~Truthy(answers'[k]) /\ ~Truthy(turn[t].answers[k])
    BY <1>1, QuestionnaireKept DEF HasEmail
  <2>4. ~HasEmail([turn[t].answers EXCEPT ![Current(t)] = v])
    <3>1. ASSUME NEW k \in DOMAIN questionnaire, questionnaire[k].type = "email"
          PROVE  ~Truthy([turn[t].answers EXCEPT ![Current(t)] = v][k])
      <4>1. k # Current(t)
        BY <2>2, <2>3, <3>1, EmailValuesTruthy DEF TypeOK, AnswerMap
      <4> QED BY <2>3, <3>1, <4>1, <1>2, QuestionTypesOK DEF Turn, AnswerMap
    <3> QED BY <3>1 DEF HasEmail
  <2>5. \A s \in Turns :
          /\ ~HasEmail(turn'[s].answers)
          /\ ~(turn'[s].pc = "loaded" /\ turn'[s].state.phase = "email_consent")
    BY <1>1, <1>2, <2>2, <2>4 DEF Turn
  <2> QED BY <1>1, <2>1, <2>5 DEF StoreAnswer
<1>14. CASE \E t \in Turns : RejectSummary(t)
  <2>1. PICK t \in Turns : RejectSummary(t)
    BY <1>14
  <2>2. turn[t].state \in CallState
    BY <1>2 DEF Turn
  <2> QED BY <1>1, <1>4, <2>1, <2>2 DEF RejectSummary, Persist, CallState
<1>15. CASE \E t \in Turns : ConfirmSummary(t) \/ TakeCorrection(t)
  <2>1. PICK t \in Turns : ProceedAfterConfirm(t)
    BY <1>15 DEF ConfirmSummary, TakeCorrection
  <2>2. state' = AtPhase("done") /\ Finalize(t) /\ UNCHANGED call
    BY <1>1, <2>1 DEF ProceedAfterConfirm
  <2> QED BY <1>1, <1>2, <1>3, <2>2 DEF AtPhase, Finalize, NoTurn
<1>16. CASE \E t \in Turns : AnswerEmailConsent(t)
  BY <1>1, <1>16 DEF AnswerEmailConsent, Handles
<1>17. CASE \E t \in Turns : CloseDialogue(t)
  <2>1. PICK t \in Turns : CloseDialogue(t)
    BY <1>17
  <2>2. turn[t].state \in CallState
    BY <1>2 DEF Turn
  <2> QED BY <1>1, <1>2, <1>3, <2>1, <2>2 DEF CloseDialogue, Finalize, NoTurn, CallState
<1>18. CASE \E t \in Turns : Reply(t) \/ Throw(t)
  BY <1>1, <1>2, <1>3, <1>18 DEF Reply, Throw, NoTurn
<1>19. CASE CallerHangsUp
  BY <1>1, <1>19 DEF CallerHangsUp
<1> QED
  BY <1>7, <1>8, <1>9, <1>10, <1>11, <1>12, <1>13, <1>14, <1>15, <1>16, <1>17, <1>18, <1>19
  DEF Next, DialogueStep

\* The e-mail offer is made, and accepted, only if the caller left an address - whatever
\* requests overlap.
THEOREM EmailOfferNeedsAddress == Spec => []EmailOfferHasAddress
<1>1. Init => EmailOfferHasAddress /\ AddressesAreStored
  <2> SUFFICES ASSUME Init
               PROVE  EmailOfferHasAddress /\ AddressesAreStored
    OBVIOUS
  <2>1. TypeOK
    BY NoAnswersType, StateTypes, MaxFaultsAssumption DEF Init, TypeOK, Call, Statuses
  <2>2. ~HasEmail(NoAnswers)
    BY <2>1, NoAnswersNoEmail
  <2> QED BY <2>2 DEF Init, EmailOfferHasAddress, AddressesAreStored, DefaultState, AtPhase, NoTurn
<1>2. TypeOK /\ EmailOfferHasAddress /\ AddressesAreStored /\ [Next]_vars
        => (EmailOfferHasAddress /\ AddressesAreStored)'
  <2> SUFFICES ASSUME EmailInv, [Next]_vars
               PROVE  (EmailOfferHasAddress /\ AddressesAreStored)'
    BY DEF EmailInv
  <2>1. CASE UNCHANGED vars
    BY <2>1 DEF vars, EmailInv, EmailOfferHasAddress, AddressesAreStored, HasEmail
  <2>2. CASE Next /\ HasEmail(answers)'
    BY <2>2 DEF EmailOfferHasAddress, AddressesAreStored
  <2>3. CASE Next /\ ~HasEmail(answers)'
    <3>1. ~HasEmail(answers)
      BY <2>3, HasEmailKept DEF EmailInv
    <3>2. /\ state'.phase # "email_consent"
          /\ ~call'.callerEmailConsent
          /\ \A s \in Turns :
               /\ ~HasEmail(turn'[s].answers)
               /\ ~(turn'[s].pc = "loaded" /\ turn'[s].state.phase = "email_consent")
      BY <2>3, <3>1, StepsWithoutAddress
    <3>3. UNCHANGED questionnaire
      BY <2>3, QuestionnaireKept
    <3> QED BY <3>2, <3>3 DEF EmailOfferHasAddress, AddressesAreStored, HasEmail
  <2> QED BY <2>1, <2>2, <2>3
<1> QED BY <1>1, <1>2, TypeCorrect, PTL DEF Spec

(***************************************************************************)
(* When the requests do not overlap: one request is handled after the      *)
(* other, for every questionnaire and any number of outages between two    *)
(* statements.                                                             *)
(***************************************************************************)

\* The questions answered in an answer map are active in it.
ActiveIn(known) ==
  \A k \in DOMAIN questionnaire :
    IsAnswered(known, k) => IsQuestionActive(questionnaire[k], known)

\* The stored answers without the one to the pending question.
WithoutPending == [answers EXCEPT ![state.pendingQuestionKey] = Undefined]

IsPending == state.phase = "questions" /\ state.pendingQuestionKey # NoKey

Closing == {"confirm", "correction", "email_consent", "done"}

\* What a request that is not overlapped knows.
CopyIsCurrent ==
  \A t \in Turns :
    /\ turn[t].pc \in {"loaded", "start", "advance"} => turn[t].answers = answers
    /\ turn[t].pc \in {"loaded", "closing"} => turn[t].state = state
    /\ turn[t].pc = "start" => state.phase = "consent"
    /\ turn[t].pc = "advance" => state.phase = "questions"
    /\ turn[t].pc = "closing" => state.phase = "email_consent"

\* The pending question is the next one, and no stored answer depends on its answer.
PendingOK ==
  IsPending => /\ state.pendingQuestionKey \in NextQuestions(questionnaire, WithoutPending)
               /\ ActiveIn(WithoutPending)

SerialInv ==
  /\ CopyIsCurrent
  /\ state.phase = "consent" => answers = NoAnswers
  /\ PendingOK
  /\ AnswersAreActive
  /\ ConfirmedIsComplete

-----------------------------------------------------------------------------

LEMMA ActiveInAnswers == AnswersAreActive <=> ActiveIn(answers)
BY DEF AnswersAreActive, ActiveIn

\* Asking the question the stored answers leave open, or reading the summary back,
\* establishes the invariant whatever the phase was.
LEMMA AskNextSerial ==
  ASSUME NEW t0, Turns = {t0}, TypeOK, AnswersAreActive, AskNext(t0, answers)
  PROVE  SerialInv'
<1>1. UNCHANGED <<questionnaire, answers>> /\ IsQuestionnaire(questionnaire)
  BY QuestionnairesAssumption DEF AskNext, TypeOK
<1>2. turn'[t0].pc = "reply"
  BY DEF AskNext, Persist, Say, TypeOK, NoTurn
<1>3. CopyIsCurrent'
  BY <1>2 DEF CopyIsCurrent
<1>4. AnswersAreActive'
  BY <1>1 DEF AnswersAreActive
<1>5. CASE \E k \in NextQuestions(questionnaire, answers) : Persist(t0, Asking(k))
  <2>1. PICK k \in NextQuestions(questionnaire, answers) : state' = Asking(k)
    BY <1>5 DEF Persist
  <2>2. k \in Keys /\ ~IsAnswered(answers, k)
    BY QuestionTypesOK, NextQuestionsAskable DEF Askable
  <2>3. WithoutPending' = answers
    BY <1>1, <2>1, <2>2 DEF WithoutPending, Asking, IsAnswered, TypeOK, AnswerMap
  <2>4. PendingOK'
    BY <1>1, <2>1, <2>3, ActiveInAnswers DEF PendingOK, Asking, ActiveIn
  <2>5. state'.phase = "questions"
    BY <2>1 DEF Asking
  <2> QED BY <1>3, <1>4, <2>4, <2>5 DEF SerialInv, ConfirmedIsComplete
<1>6. CASE NextQuestions(questionnaire, answers) = {} /\ Persist(t0, AtPhase("confirm"))
  <2>1. Askable(questionnaire, answers) = {}
    BY <1>1, <1>6, NextQuestionExists
  <2>2. state'.phase = "confirm"
    BY <1>6 DEF Persist, AtPhase
  <2> QED BY <1>1, <1>3, <1>4, <2>1, <2>2 DEF SerialInv, ConfirmedIsComplete, PendingOK, IsPending
<1> QED BY <1>5, <1>6 DEF AskNext

\* A step that leaves the answers alone and stays among the closing phases.
LEMMA ClosingSerial ==
  ASSUME TypeOK, SerialInv, UNCHANGED <<questionnaire, answers>>,
         state.phase \in Closing, state'.phase \in Closing, CopyIsCurrent'
  PROVE  SerialInv'
<1>1. ConfirmedIsComplete' /\ AnswersAreActive'
  BY DEF SerialInv, ConfirmedIsComplete, AnswersAreActive, Closing
<1>2. PendingOK' /\ state'.phase # "consent"
  BY DEF PendingOK, IsPending, Closing
<1> QED BY <1>1, <1>2 DEF SerialInv

\* A step that leaves the answers and the state alone.
LEMMA IdleSerial ==
  ASSUME SerialInv, UNCHANGED <<questionnaire, answers, state>>, CopyIsCurrent'
  PROVE  SerialInv'
<1>1. UNCHANGED WithoutPending
  BY DEF WithoutPending
<1>2. PendingOK'
  BY <1>1 DEF SerialInv, PendingOK, IsPending, ActiveIn
<1>3. ConfirmedIsComplete' /\ AnswersAreActive'
  BY DEF SerialInv, ConfirmedIsComplete, AnswersAreActive
<1> QED BY <1>2, <1>3 DEF SerialInv

\* The answer to the pending question is stored - for the first time, or again.
LEMMA StoreAnswerSerial ==
  ASSUME NEW t0, Turns = {t0}, TypeOK, SerialInv, StoreAnswer(t0)
  PROVE  SerialInv'
<1> DEFINE k == Current(t0)
           w == WithoutPending
<1>1. PICK v \in NormalizedValues(questionnaire[k]) :
        /\ v \in JSValue
        /\ k \in DOMAIN questionnaire
        /\ k \in Keys
        /\ answers' = [answers EXCEPT ![k] = v]
        /\ turn' = [turn EXCEPT ![t0] = [turn[t0] EXCEPT !.pc = "advance",
                                    !.answers = [turn[t0].answers EXCEPT ![k] = v]]]
  BY StoredAnswerType
<1>2. UNCHANGED <<questionnaire, state>>
  BY DEF StoreAnswer
<1>3. /\ turn[t0].pc = "loaded" /\ turn[t0].state.phase = "questions"
      /\ turn[t0].state = state /\ turn[t0].answers = answers
  BY DEF StoreAnswer, Handles, SerialInv, CopyIsCurrent
<1>4. k = state.pendingQuestionKey /\ IsPending
  BY <1>1, <1>3, KeysAssumption DEF Current, IsPending
<1>5. w = [answers EXCEPT ![k] = Undefined] /\ w \in AnswerMap
  BY <1>4, JSValueType DEF WithoutPending, TypeOK, AnswerMap
<1>6. ~IsAnswered(w, k) /\ answers' = [w EXCEPT ![k] = v] /\ answers' \in AnswerMap
  BY <1>1, <1>5 DEF TypeOK, AnswerMap, IsAnswered
<1>7. k \in NextQuestions(questionnaire, w) /\ ActiveIn(w)
  BY <1>4 DEF SerialInv, PendingOK
<1>8. IsQuestionActive(questionnaire[k], w)
  BY <1>7, NextQuestionsAskable DEF Askable
<1>9. AnswersAreActive'
  <2>1. ASSUME NEW j \in DOMAIN questionnaire, IsAnswered(answers', j)
        PROVE  IsQuestionActive(questionnaire[j], answers')
    <3>1. IsQuestionActive(questionnaire[j], w)
      <4>1. CASE j = k
        BY <1>8, <4>1
      <4>2. CASE j # k
        <5>1. j \in Keys
          BY QuestionTypesOK
        <5>2. IsAnswered(w, j)
          BY <1>1, <1>5, <1>6, <2>1, <4>2, <5>1 DEF IsAnswered, AnswerMap, TypeOK
        <5> QED BY <1>7, <5>2 DEF ActiveIn
      <4> QED BY <4>1, <4>2
    <3>2. w \in AnswerMap /\ k \in Keys /\ v \in JSValue /\ ~IsAnswered(w, k)
      BY <1>1, <1>5, <1>6
    <3>3. answers' = [w EXCEPT ![k] = v]
      BY <1>6
    <3> HIDE DEF k, w
    <3>4. IsQuestionActive(questionnaire[j], [w EXCEPT ![k] = v])
      BY <3>1, <3>2, ActiveIgnoresUnanswered
    <3> QED BY <3>3, <3>4
  <2> QED BY <1>2, <2>1 DEF AnswersAreActive
<1>10. WithoutPending' = w
  BY <1>1, <1>2, <1>4 DEF WithoutPending, TypeOK, AnswerMap
<1>11. PendingOK'
  <2>1. state'.pendingQuestionKey \in NextQuestions(questionnaire', w)
    BY <1>2, <1>4, <1>7
  <2>2. ActiveIn(WithoutPending)'
    BY <1>2, <1>7, <1>10 DEF ActiveIn
  <2> QED BY <1>10, <2>1, <2>2 DEF PendingOK
<1>12. CopyIsCurrent'
  BY <1>1, <1>2, <1>3 DEF CopyIsCurrent, TypeOK, Turn
<1>13. state'.phase = "questions"
  BY <1>2, <1>3
<1> QED BY <1>9, <1>11, <1>12, <1>13 DEF SerialInv, ConfirmedIsComplete

\* The other statements of the phases "consent" and "questions".
LEMMA InterviewSerial ==
  ASSUME NEW t0, Turns = {t0}, TypeOK, SerialInv,
         \/ GiveConsent(t0) \/ StartQuestions(t0) \/ AskWithoutAnswer(t0)
         \/ Clarify(t0) \/ GiveUp(t0) \/ Advance(t0)
  PROVE  SerialInv'
<1>1. AnswersAreActive /\ turn \in [Turns -> Turn] /\ state \in CallState
  BY DEF SerialInv, TypeOK
<1>2. CASE GiveConsent(t0)
  <2>1. turn[t0].state = state /\ state.phase = "consent"
    BY <1>2 DEF SerialInv, CopyIsCurrent, GiveConsent, Handles
  <2>2. UNCHANGED <<questionnaire, answers, state>> /\ turn'[t0].pc = "start"
    BY <1>1, <1>2 DEF GiveConsent, Goto, Turn
  <2>3. turn'[t0].answers = turn[t0].answers /\ turn[t0].answers = answers
    BY <1>1, <1>2 DEF GiveConsent, Goto, Turn, SerialInv, CopyIsCurrent, Handles
  <2>4. CopyIsCurrent'
    BY <2>1, <2>2, <2>3 DEF CopyIsCurrent
  <2> QED BY <2>2, <2>4, IdleSerial
<1>3. CASE StartQuestions(t0)
  <2>1. answers = NoAnswers
    BY <1>3 DEF SerialInv, CopyIsCurrent, StartQuestions
  <2> QED BY <1>1, <1>3, <2>1, AskNextSerial DEF StartQuestions
<1>4. CASE AskWithoutAnswer(t0) \/ Advance(t0)
  <2>1. turn[t0].answers = answers
    BY <1>4 DEF SerialInv, CopyIsCurrent, AskWithoutAnswer, Handles, Advance
  <2> QED BY <1>1, <1>4, <2>1, AskNextSerial DEF AskWithoutAnswer, Advance
<1>5. CASE Clarify(t0)
  <2>1. turn[t0].state = state /\ state.phase = "questions"
    BY <1>5 DEF SerialInv, CopyIsCurrent, Clarify, Unclear, Handles
  <2>2. /\ state'.phase = "questions"
        /\ state'.pendingQuestionKey = state.pendingQuestionKey
        /\ UNCHANGED <<questionnaire, answers>>
    BY <1>1, <1>5, <2>1 DEF Clarify, Persist, CallState
  <2>3. CopyIsCurrent'
    BY <1>1, <1>5 DEF Clarify, Persist, Say, CopyIsCurrent, NoTurn
  <2>4. WithoutPending' = WithoutPending
    BY <2>2 DEF WithoutPending
  <2>5. PendingOK'
    BY <2>1, <2>2, <2>4 DEF SerialInv, PendingOK, IsPending, ActiveIn
  <2> QED BY <2>2, <2>3, <2>5 DEF SerialInv, AnswersAreActive, ConfirmedIsComplete
<1>6. CASE GiveUp(t0)
  <2>1. turn[t0].state = state /\ turn[t0].answers = answers /\ state.phase = "questions"
    BY <1>6 DEF SerialInv, CopyIsCurrent, GiveUp, Unclear, Handles
  <2>2. UNCHANGED <<questionnaire, answers>>
    BY <1>6 DEF GiveUp
  <2>3. state'.phase = "questions" /\ state'.pendingQuestionKey = NoKey
    BY <1>1, <1>6, <2>1 DEF GiveUp, CallState
  <2>4. turn'[t0].pc = "advance" /\ turn'[t0].answers = answers
    BY <1>1, <1>6, <2>1 DEF GiveUp, Goto, Turn
  <2>5. CopyIsCurrent'
    BY <2>2, <2>3, <2>4 DEF CopyIsCurrent
  <2> QED
    BY <2>2, <2>3, <2>5
    DEF SerialInv, AnswersAreActive, ConfirmedIsComplete, PendingOK, IsPending
<1> QED BY <1>2, <1>3, <1>4, <1>5, <1>6

\* The statements of the phases after the questions.
LEMMA ClosingStepSerial ==
  ASSUME NEW t0, Turns = {t0}, TypeOK, SerialInv,
         \/ RejectSummary(t0) \/ ConfirmSummary(t0) \/ TakeCorrection(t0)
         \/ AnswerEmailConsent(t0) \/ CloseDialogue(t0)
  PROVE  SerialInv'
<1>1. turn \in [Turns -> Turn] /\ state \in CallState
  BY DEF TypeOK
<1>2. CASE RejectSummary(t0)
  <2>1. turn[t0].state = state /\ state.phase = "confirm"
    BY <1>2 DEF SerialInv, CopyIsCurrent, RejectSummary, Handles
  <2>2. state'.phase = "correction" /\ UNCHANGED <<questionnaire, answers>>
    BY <1>1, <1>2, <2>1 DEF RejectSummary, Persist, CallState
  <2>3. CopyIsCurrent'
    BY <1>1, <1>2 DEF RejectSummary, Persist, Say, CopyIsCurrent, NoTurn
  <2> QED BY <2>1, <2>2, <2>3, ClosingSerial DEF Closing
<1>3. CASE ConfirmSummary(t0) \/ TakeCorrection(t0)
  <2>1. turn[t0].state = state /\ state.phase \in {"confirm", "correction"}
    BY <1>3 DEF SerialInv, CopyIsCurrent, ConfirmSummary, TakeCorrection, Handles
  <2>2. state'.phase \in {"email_consent", "done"} /\ UNCHANGED <<questionnaire, answers>>
    BY <1>3 DEF ConfirmSummary, TakeCorrection, ProceedAfterConfirm, Persist, AtPhase
  <2>3. turn'[t0].pc \in {"reply", "finalize"}
    BY <1>1, <1>3 DEF ConfirmSummary, TakeCorrection, ProceedAfterConfirm, Persist, Say, Finalize, NoTurn
  <2>4. CopyIsCurrent'
    BY <2>3 DEF CopyIsCurrent
  <2> QED BY <2>1, <2>2, <2>4, ClosingSerial DEF Closing
<1>4. CASE AnswerEmailConsent(t0)
  <2>1. turn[t0].state = state /\ state.phase = "email_consent"
    BY <1>4 DEF SerialInv, CopyIsCurrent, AnswerEmailConsent, Handles
  <2>2. UNCHANGED <<questionnaire, answers, state>>
    BY <1>4 DEF AnswerEmailConsent
  <2>3. turn'[t0].pc = "closing" /\ turn'[t0].state = state
    BY <1>1, <1>4, <2>1 DEF AnswerEmailConsent, Goto, Turn
  <2>4. CopyIsCurrent'
    BY <2>1, <2>2, <2>3 DEF CopyIsCurrent
  <2> QED BY <2>2, <2>4, IdleSerial
<1>5. CASE CloseDialogue(t0)
  <2>1. turn[t0].state = state /\ state.phase = "email_consent"
    BY <1>5 DEF SerialInv, CopyIsCurrent, CloseDialogue
  <2>2. state'.phase = "done" /\ UNCHANGED <<questionnaire, answers>>
    BY <1>1, <1>5, <2>1 DEF CloseDialogue, CallState
  <2>3. CopyIsCurrent'
    BY <1>1, <1>5 DEF CloseDialogue, Finalize, CopyIsCurrent, NoTurn
  <2> QED BY <2>1, <2>2, <2>3, ClosingSerial DEF Closing
<1> QED BY <1>2, <1>3, <1>4, <1>5

\* The statements that write neither the state nor an answer.
LEMMA IdleStepSerial ==
  ASSUME NEW t0, Turns = {t0}, TypeOK, SerialInv,
         \/ RequestStep(t0) \/ ReaskConsent(t0) \/ Decline(t0) \/ SayGoodbye(t0)
         \/ Reply(t0) \/ Throw(t0) \/ FinalizeSucceeds(t0) \/ FinalizeFails(t0)
         \/ CallerHangsUp
  PROVE  SerialInv'
<1>1. turn \in [Turns -> Turn]
  BY DEF TypeOK
<1>2. UNCHANGED <<questionnaire, answers, state>>
  BY DEF RequestStep, LoadCall, ReaskConsent, Decline, SayGoodbye, Reply, Throw, FinalizeSucceeds,
     FinalizeFails, CallerHangsUp
<1>3. CASE RequestStep(t0)
  <2>1. turn'[t0].pc = "loaded" /\ turn'[t0].state = state /\ turn'[t0].answers = answers
    BY <1>1, <1>3 DEF RequestStep, LoadCall
  <2>2. CopyIsCurrent'
    BY <1>2, <2>1 DEF CopyIsCurrent
  <2> QED BY <1>2, <2>2, IdleSerial
<1>4. CASE \/ ReaskConsent(t0) \/ Decline(t0) \/ SayGoodbye(t0) \/ Reply(t0) \/ Throw(t0)
           \/ FinalizeSucceeds(t0) \/ FinalizeFails(t0)
  <2>1. (\E action \in {"gather", "hangup"} : Say(t0, action)) \/ turn' = [turn EXCEPT ![t0] = NoTurn]
    BY <1>4 DEF ReaskConsent, Decline, SayGoodbye, Reply, Throw, FinalizeSucceeds, FinalizeFails
  <2>2. turn'[t0].pc \in {"idle", "reply"}
    <3>1. t0 \in Turns
      OBVIOUS
    <3>2. ASSUME NEW action, Say(t0, action)
          PROVE  turn'[t0].pc = "reply"
      BY <1>1, <3>1, <3>2 DEF Say, NoTurn
    <3>3. CASE turn' = [turn EXCEPT ![t0] = NoTurn]
      BY <1>1, <3>1, <3>3 DEF NoTurn
    <3> QED BY <2>1, <3>2, <3>3
  <2>3. CopyIsCurrent'
    BY <2>2 DEF CopyIsCurrent
  <2> QED BY <1>2, <2>3, IdleSerial
<1>5. CASE CallerHangsUp
  <2>1. CopyIsCurrent'
    BY <1>2, <1>5 DEF CallerHangsUp, CopyIsCurrent, SerialInv
  <2> QED BY <1>2, <2>1, IdleSerial
<1> QED BY <1>3, <1>4, <1>5

LEMMA SerialInvHolds ==
  ASSUME NEW t0, Turns = {t0}
  PROVE  Spec => []SerialInv
<1>1. Init => SerialInv
  <2> SUFFICES ASSUME Init
               PROVE  SerialInv
    OBVIOUS
  <2>1. CopyIsCurrent
    BY DEF Init, CopyIsCurrent, NoTurn
  <2>2. \A k \in DOMAIN questionnaire : ~IsAnswered(answers, k)
    BY QuestionnairesAssumption DEF Init, IsQuestionnaire, NoAnswers, IsAnswered
  <2>3. state.phase = "consent" /\ answers = NoAnswers
    BY DEF Init, DefaultState, AtPhase
  <2> QED
    BY <2>1, <2>2, <2>3
    DEF SerialInv, PendingOK, IsPending, AnswersAreActive, ConfirmedIsComplete
<1>2. TypeOK /\ SerialInv /\ [Next]_vars => SerialInv'
  <2> SUFFICES ASSUME TypeOK, SerialInv, [Next]_vars
               PROVE  SerialInv'
    OBVIOUS
  <2>1. CASE UNCHANGED vars
    <3>1. UNCHANGED <<questionnaire, answers, state>> /\ CopyIsCurrent'
      BY <2>1 DEF vars, SerialInv, CopyIsCurrent
    <3> QED BY <3>1, IdleSerial
  <2>2. CASE RequestStep(t0) \/ DialogueStep(t0)
    BY <2>2, StoreAnswerSerial, InterviewSerial, ClosingStepSerial, IdleStepSerial DEF DialogueStep
  <2>3. CASE FinalizeSucceeds(t0) \/ FinalizeFails(t0) \/ CallerHangsUp
    BY <2>3, IdleStepSerial
  <2> QED BY <2>1, <2>2, <2>3 DEF Next
<1> QED BY <1>1, <1>2, TypeCorrect, PTL DEF Spec

\* As long as requests do not overlap, the caller is only ever asked the question the
\* engine would ask next, outages between two statements included.
THEOREM SerialPendingIsNext ==
  ASSUME NEW t0, Turns = {t0}
  PROVE  Spec => []PendingIsNext
<1>1. SerialInv => PendingIsNext
  BY DEF SerialInv, PendingOK, IsPending, WithoutPending, PendingIsNext
<1> QED BY <1>1, SerialInvHolds, PTL

\* As long as requests do not overlap, every stored answer answers a question whose
\* condition the stored answers satisfy.
THEOREM SerialAnswersAreActive ==
  ASSUME NEW t0, Turns = {t0}
  PROVE  Spec => []AnswersAreActive
<1>1. SerialInv => AnswersAreActive
  BY DEF SerialInv
<1> QED BY <1>1, SerialInvHolds, PTL

\* As long as requests do not overlap, the summary is read back, and the call finalised,
\* only when no question is open.
THEOREM SerialConfirmedIsComplete ==
  ASSUME NEW t0, Turns = {t0}
  PROVE  Spec => []ConfirmedIsComplete
<1>1. SerialInv => ConfirmedIsComplete
  BY DEF SerialInv
<1> QED BY <1>1, SerialInvHolds, PTL
=============================================================================
