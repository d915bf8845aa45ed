--------------------- MODULE QuestionnaireEngine_proofs ---------------------
(***************************************************************************)
(* Facts about the questionnaire engine, for every questionnaire and every *)
(* answer map.                                                             *)
(***************************************************************************)
EXTENDS QuestionnaireEngine, WellFoundedInduction, TLAPS

(***************************************************************************)
(* Types.                                                                  *)
(***************************************************************************)

LEMMA JSValueType ==
  /\ Undefined \in JSValue
  /\ \A n \in Nat : Bool(n) \in JSValue /\ Num(n) \in JSValue /\ Text(n) \in JSValue
  /\ \A n \in Nat : Bool(n) # Undefined /\ Num(n) # Undefined /\ Text(n) # Undefined
BY DEF JSValue, Undefined, Bool, Num, Text

LEMMA NoAnswersType == NoAnswers \in AnswerMap
BY JSValueType DEF NoAnswers, AnswerMap

\* What the normaliser accepts is a value, and is stored: no accepted answer reads as
\* "not answered" (options of a question are values of their own).
LEMMA NormalizedValuesType ==
  ASSUME NEW q \in Question, NEW v \in NormalizedValues(q)
  PROVE  v \in JSValue
<1>1. q.scaleMin \in Nat /\ q.scaleMax \in Nat /\ q.options \subseteq JSValue
  BY DEF Question
<1>2. CASE q.type = "yes_no"
  BY <1>2, JSValueType DEF NormalizedValues
<1>3. CASE q.type = "scale"
  <2>1. \A i \in q.scaleMin .. q.scaleMax : i \in Nat
    BY <1>1
  <2>2. v \in {Num(i) : i \in q.scaleMin .. q.scaleMax}
    BY <1>3 DEF NormalizedValues
  <2> QED BY <2>1, <2>2, JSValueType
<1>4. CASE q.type = "urgency"
  <2>1. v \in {Num(i) : i \in UrgencyTenths}
    BY <1>4 DEF NormalizedValues
  <2> QED BY <2>1, JSValueType DEF UrgencyTenths
<1>5. CASE q.type = "multiple_choice"
  BY <1>1, <1>5 DEF NormalizedValues
<1>6. CASE q.type = "budget"
  BY <1>6, JSValueType DEF NormalizedValues
<1>7. CASE q.type \notin {"yes_no", "scale", "urgency", "multiple_choice", "budget"}
  <2>1. v = Text(1)
    BY <1>7 DEF NormalizedValues
  <2> QED BY <2>1, JSValueType
<1> QED BY <1>2, <1>3, <1>4, <1>5, <1>6, <1>7

LEMMA NextQuestionsAskable ==
  ASSUME NEW Q, NEW answers
  PROVE  /\ NextQuestions(Q, answers) \subseteq Askable(Q, answers)
         /\ Askable(Q, answers) \subseteq DOMAIN Q
BY DEF NextQuestions, Askable

(***************************************************************************)
(* nextQuestion and isComplete.                                            *)
(***************************************************************************)

\* nextQuestion returns null only when every question is answered or inactive: the
\* orders are natural numbers, so some askable question has the lowest.
THEOREM NextQuestionExists ==
  ASSUME NEW Q, IsQuestionnaire(Q), NEW answers, NextQuestions(Q, answers) = {}
  PROVE  Askable(Q, answers) = {}
<1>1. SUFFICES ASSUME Askable(Q, answers) # {}
               PROVE  FALSE
  OBVIOUS
<1> DEFINE T == {Q[k].order : k \in Askable(Q, answers)}
<1>2. \A k \in Askable(Q, answers) : Q[k].order \in Nat
  BY DEF IsQuestionnaire, Question, Askable
<1>3. T \subseteq Nat /\ T # {}
  BY <1>1, <1>2
<1>4. PICK x \in T : \A y \in T : ~ (<<y, x>> \in OpToRel(<, Nat))
  <2> HIDE DEF T
  <2> QED BY <1>3, WFMin, NatLessThanWellFounded
<1>5. \A y \in T : x <= y
  <2>1. \A y \in T : y \in Nat /\ x \in Nat /\ ~(y < x)
    BY <1>3, <1>4 DEF OpToRel
  <2> QED BY <2>1
<1>6. PICK k \in Askable(Q, answers) : Q[k].order = x
  BY <1>4
<1>7. k \in NextQuestions(Q, answers)
  BY <1>5, <1>6 DEF NextQuestions
<1> QED BY <1>7

\* When no question is left to ask, the questionnaire is complete: the two branches of
\* handleTurn that read the summary back are taken in the same states.
THEOREM NothingToAskIsComplete ==
  ASSUME NEW Q, NEW answers, Askable(Q, answers) = {}
  PROVE  IsComplete(Q, answers)
BY DEF IsComplete, Askable

(***************************************************************************)
(* Storing the answer to the pending question.                             *)
(***************************************************************************)

\* A question that is open does not depend on its own answer.
LEMMA ActiveIgnoresUnanswered ==
  ASSUME NEW answers \in AnswerMap, NEW k \in Keys, NEW v \in JSValue,
         ~IsAnswered(answers, k), NEW q, IsQuestionActive(q, answers)
  PROVE  IsQuestionActive(q, [answers EXCEPT ![k] = v])
<1>1. CASE q.condition = Unconditional
  BY <1>1 DEF IsQuestionActive
<1>2. CASE EvaluateCondition(q.condition, answers)
  <2>1. q.condition.questionKey # k /\ q.condition.questionKey \in Keys
    BY <1>2 DEF EvaluateCondition
  <2>2. [answers EXCEPT ![k] = v][q.condition.questionKey] = answers[q.condition.questionKey]
    BY <2>1 DEF AnswerMap
  <2>3. EvaluateCondition(q.condition, [answers EXCEPT ![k] = v])
    BY <1>2, <2>2 DEF EvaluateCondition, IsAnswered
  <2> QED BY <2>3 DEF IsQuestionActive
<1> QED BY <1>1, <1>2 DEF IsQuestionActive
=============================================================================
