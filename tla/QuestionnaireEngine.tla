------------------------ MODULE QuestionnaireEngine ------------------------
(***************************************************************************)
(* The pure questionnaire engine of packages/shared: which question comes  *)
(* next, when the interview is complete, and what the normaliser can make  *)
(* of a caller's utterance.  No state: the callers pass the questionnaire  *)
(* and the answer map.                                                     *)
(***************************************************************************)
EXTENDS Integers, FiniteSets

CONSTANTS
  Keys,       \* the keys questions may have
  NoKey       \* JavaScript's null where a key is expected

ASSUME KeysAssumption == NoKey \notin Keys

(***************************************************************************)
(* JavaScript values, as far as conditions tell them apart: === compares   *)
(* type and content, typeof selects the comparison.  A boolean is 0 or 1;  *)
(* a number is itself (an urgency in tenths); a string is an index.        *)
(***************************************************************************)
JSValue == [typeof : {"boolean", "number", "string", "undefined"}, n : Nat]

Undefined == [typeof |-> "undefined", n |-> 0]
Bool(n)   == [typeof |-> "boolean", n |-> n]
Num(n)    == [typeof |-> "number", n |-> n]
Text(n)   == [typeof |-> "string", n |-> n]

\* Boolean(a): false, 0 and the empty string (Text(0)) are falsy.
Truthy(a) == a.typeof # "undefined" /\ a.n # 0

QuestionTypes == {"free_text", "yes_no", "multiple_choice", "scale", "datetime",
                  "phone", "email", "budget", "urgency"}

Condition == [questionKey : Keys \cup {NoKey},
              operator : {"none", "truthy", "equals", "not_equals", "gte", "lte"},
              value : JSValue]

\* A question without a condition (condition: null).
Unconditional == [questionKey |-> NoKey, operator |-> "none", value |-> Undefined]

Question == [type : QuestionTypes, required : BOOLEAN, order : Nat, condition : Condition,
             options : SUBSET JSValue, scaleMin : Nat, scaleMax : Nat]

\* Questions by key; a key occurs once in a questionnaire.
IsQuestionnaire(Q) == DOMAIN Q \subseteq Keys /\ \A k \in DOMAIN Q : Q[k] \in Question

\* AnswerMap: a key that has no answer is undefined.
AnswerMap == [Keys -> JSValue]
NoAnswers == [k \in Keys |-> Undefined]
IsAnswered(answers, k) == answers[k] # Undefined

-----------------------------------------------------------------------------

BothNumbers(a, b) == a.typeof = "number" /\ b.typeof = "number"

EvaluateCondition(c, answers) ==
  /\ c.questionKey \in Keys
  /\ IsAnswered(answers, c.questionKey)
  /\ LET a == answers[c.questionKey] IN
       \/ c.operator = "truthy"     /\ Truthy(a)
       \/ c.operator = "equals"     /\ a = c.value
       \/ c.operator = "not_equals" /\ a # c.value
       \/ c.operator = "gte"        /\ BothNumbers(a, c.value) /\ a.n >= c.value.n
       \/ c.operator = "lte"        /\ BothNumbers(a, c.value) /\ a.n <= c.value.n

IsQuestionActive(q, answers) ==
  q.condition = Unconditional \/ EvaluateCondition(q.condition, answers)

\* The questions the loop of nextQuestion does not pass over.
Askable(Q, answers) ==
  {k \in DOMAIN Q : ~IsAnswered(answers, k) /\ IsQuestionActive(Q[k], answers)}

\* Mutation: an answered question is asked again.
NextQuestions_Again(Q, answers) ==
  LET active == {k \in DOMAIN Q : IsQuestionActive(Q[k], answers)} IN
  {k \in active : \A j \in active : Q[k].order <= Q[j].order}

\* The questions nextQuestion may return; none is null.  The sort is stable and the
\* query that reads the rows does not order them, so any question of lowest order may
\* be first when two share one.
NextQuestions(Q, answers) ==
  {k \in Askable(Q, answers) : \A j \in Askable(Q, answers) : Q[k].order <= Q[j].order}

IsComplete(Q, answers) ==
  \A k \in DOMAIN Q :
    Q[k].required /\ IsQuestionActive(Q[k], answers) => IsAnswered(answers, k)

-----------------------------------------------------------------------------

(***************************************************************************)
(* What a caller can say.  Only what the engine and the dialogue tell      *)
(* apart: nothing at all (an empty SpeechResult), white space, words of    *)
(* the YES and NO lists, or anything else.                                 *)
(***************************************************************************)
Utterances == {"silence", "blank", "yes", "no", "yes_and_no", "other"}

Said(u)    == u # "silence"                  \* the truthiness of callerText
SaysYes(u) == u \in {"yes", "yes_and_no"}
SaysNo(u)  == u \in {"no", "yes_and_no"}
OnlyNo(u)  == SaysNo(u) /\ ~SaysYes(u)

UrgencyTenths == {0, 2, 5, 8, 10}

\* The values a clear answer to q is stored as.
NormalizedValues(q) ==
  CASE q.type = "yes_no"          -> {Bool(0), Bool(1)}
    [] q.type = "scale"           -> {Num(i) : i \in q.scaleMin .. q.scaleMax}
    [] q.type = "urgency"         -> {Num(i) : i \in UrgencyTenths}
    [] q.type = "multiple_choice" -> q.options
    [] q.type = "budget"          -> {Num(0), Num(1), Text(1)}
    [] OTHER                      -> {Text(1)}

\* ok = true is possible: normalizeAnswer rejects what trims to nothing, and
\* resolveDatetimeAnswer what it cannot parse.
CanBeClear(u) == Said(u) /\ u # "blank"

\* ok = false is possible.  Free text and a budget take whatever was said; every other
\* type has words it does not understand, and a requested slot may be busy.
CanBeUnclear(q, u) == Said(u) /\ (u = "blank" \/ q.type \notin {"free_text", "budget"})
=============================================================================
