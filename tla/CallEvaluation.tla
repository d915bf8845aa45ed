--------------------------- MODULE CallEvaluation ---------------------------
(***************************************************************************)
(* What the end of a call computes from what the call left: which answers  *)
(* get in (realtime/answer-validate.ts), the lead they make                *)
(* (shared/lead-scoring.ts), the cost of the usage (shared/cost.ts) and    *)
(* the appointment a date answer becomes (lib/calendar-appointment.ts).    *)
(*                                                                         *)
(* Money is counted in millionths, which is what the code rounds to.       *)
(***************************************************************************)
EXTENDS QuestionnaireEngine

CONSTANTS
  Questionnaire,  \* the questions of the call, by key
  Meanings,       \* Meanings[k]: what summary.service.ts takes the name of a key for
  Rates,          \* prices in millionths: per minute and per 1000 tokens; markup in per cent
  RawValues,      \* what the model may pass to save_answer
  Dates,          \* what it may write for a date
  AnyDate,        \* AnyDate[d]: what JavaScript's own parser reads in d, or NoStart
  Talks,          \* what a while of talking adds to the usage
  MaxSeconds      \* bound: length of a call

RateType == [telephony : Nat, stt : Nat, tts : Nat, input : Nat, output : Nat, markup : Int]
CallUsage == [seconds : Nat, input : Nat, output : Nat]

\* A value in the JSON of a tool call: a number (an urgency in tenths), a boolean, null,
\* or a string that is blank, one of the words for yes or no, a numeral, an e-mail
\* address, the digits of a telephone number, an option, or anything else.
RawKinds == {"number", "boolean", "null", "blank", "yes", "no", "numeral", "address",
             "digits", "option", "text"}
Raw == [kind : RawKinds, n : Nat]

\* DD.MM.YYYY HH:MM, two digits each, in a year that is no leap year.
Written == [day : 0..99, month : 0..99, hour : 0..99, minute : 0..99]

\* No date is understood, where a number of minutes is expected.
NoStart == -1

ASSUME EvaluationAssumption ==
  /\ IsQuestionnaire(Questionnaire)
  /\ Meanings \in [DOMAIN Questionnaire -> SUBSET {"name", "concern", "callback"}]
  /\ Rates \in RateType
  /\ RawValues \subseteq Raw /\ Dates \subseteq Written
  /\ AnyDate \in [Dates -> Nat \cup {NoStart}]
  /\ Talks \subseteq CallUsage /\ MaxSeconds \in Nat

VARIABLES
  callerId,  \* the call came with a number
  answers,   \* the answers stored
  used,      \* seconds and tokens so far
  date       \* the date written last

evaluationVars == <<callerId, answers, used, date>>

Silence == [seconds |-> 0, input |-> 0, output |-> 0]
NoDate == [day |-> 0, month |-> 0, hour |-> 0, minute |-> 0]

---------------------------------------------------------------------------
(* validateAnswerValue.                                                     *)

Rejected == Undefined

\* Number(value): null and a blank string are 0, true is 1, a string that is no numeral is NaN.
IsNumeric(raw) == raw.kind \in {"number", "boolean", "null", "blank", "numeral"}
ToNumber(raw, one) ==
  IF raw.kind \in {"null", "blank"} THEN 0
  ELSE IF raw.kind = "boolean" THEN (IF raw.n = 0 THEN 0 ELSE one)
  ELSE raw.n

IfNumberIn(raw, one, lowest, highest) ==
  IF IsNumeric(raw) /\ ToNumber(raw, one) \in lowest..highest THEN Num(ToNumber(raw, one)) ELSE Rejected

IfText(raw) == IF raw.kind \in {"null", "blank"} THEN Rejected ELSE Text(1)

ValidateAnswerValue(q, raw) ==
  CASE q.type = "yes_no" ->
         IF raw.kind = "boolean" THEN Bool(IF raw.n = 0 THEN 0 ELSE 1)
         ELSE IF raw.kind = "yes" THEN Bool(1)
         ELSE IF raw.kind = "no" THEN Bool(0)
         ELSE Rejected
    [] q.type = "scale" -> IfNumberIn(raw, 1, q.scaleMin, q.scaleMax)
    [] q.type = "urgency" -> IfNumberIn(raw, 10, 0, 10)
    [] q.type = "email" -> IF raw.kind = "address" THEN Text(1) ELSE Rejected
    [] q.type = "phone" ->
         IF raw.kind = "digits" \/ (raw.kind \in {"number", "numeral"} /\ raw.n >= 1000000)
         THEN Text(1) ELSE Rejected
    [] q.type = "multiple_choice" ->
         IF raw.kind = "option" /\ Text(raw.n) \in q.options THEN Text(raw.n) ELSE Rejected
    [] q.type = "budget" -> IF raw.kind = "number" THEN Num(raw.n) ELSE IfText(raw)
    [] OTHER -> IfText(raw)

---------------------------------------------------------------------------
(* finalizeCall: the signals, and scoreLead.                                *)

OfType(type) == {k \in DOMAIN Questionnaire : Questionnaire[k].type = type}
Named(meaning) == {k \in DOMAIN Questionnaire : meaning \in Meanings[k]}

AnsweredIn(ks, given) == {k \in ks : IsAnswered(given, k)}
First(ks) == CHOOSE k \in ks : \A j \in ks : Questionnaire[k].order <= Questionnaire[j].order

\* The answer that comes first in the order of the questionnaire.
Find(ks, given) ==
  IF AnsweredIn(ks, given) = {} THEN Undefined ELSE given[First(AnsweredIn(ks, given))]

Unknown == -1

LeadSignals == [email : BOOLEAN, phone : BOOLEAN, name : BOOLEAN, urgency : Nat \cup {Unknown},
                callback : BOOLEAN, budget : BOOLEAN, need : BOOLEAN]

\* Mutation: an urgency that is not known is taken for medium.
Signals_UrgencyAssumed(given, id) ==
  LET phone == Find(OfType("phone"), given)
      urgency == Find(OfType("urgency"), given)
  IN  [email |-> Truthy(Find(OfType("email"), given)),
       phone |-> IF phone = Undefined THEN id ELSE Truthy(phone),
       name |-> Truthy(Find(Named("name"), given)),
       urgency |-> IF urgency.typeof = "number" THEN urgency.n ELSE 5,
       callback |-> AnsweredIn(Named("callback"), given) # {},
       budget |-> AnsweredIn(OfType("budget"), given) # {},
       need |-> Truthy(Find(Named("concern"), given))]

\* The number of the caller counts as his telephone number.  A callback is wanted if the
\* question is answered, be it with no.
Signals(given, id) ==
  LET phone == Find(OfType("phone"), given)
      urgency == Find(OfType("urgency"), given)
  IN  [email |-> Truthy(Find(OfType("email"), given)),
       phone |-> IF phone = Undefined THEN id ELSE Truthy(phone),
       name |-> Truthy(Find(Named("name"), given)),
       urgency |-> IF urgency.typeof = "number" THEN urgency.n ELSE Unknown,
       callback |-> AnsweredIn(Named("callback"), given) # {},
       budget |-> AnsweredIn(OfType("budget"), given) # {},
       need |-> Truthy(Find(Named("concern"), given))]

\* Math.round(a / b).
Rounded(a, b) == (2 * a + b) \div (2 * b)

Points(signal, weight) == IF signal THEN weight ELSE 0
UrgencyPoints(urgency) ==
  IF urgency <= 0 THEN 0 ELSE IF urgency < 10 THEN Rounded(25 * urgency, 10) ELSE 25

Score(s) ==
  Points(s.need, 20) + Points(s.email, 15) + Points(s.phone, 15) + Points(s.name, 10)
    + Points(s.callback, 15) + Points(s.budget, 10) + UrgencyPoints(s.urgency)

ContactComplete(s) == s.phone /\ (s.email \/ s.name)

ScoreLead(s) ==
  IF s.need /\ ContactComplete(s) /\ (s.urgency >= 6 \/ s.callback) THEN "A"
  ELSE IF s.need \/ (ContactComplete(s) /\ Score(s) >= 30) THEN "B"
  ELSE "C"

RecommendNextAction(s) ==
  CASE ScoreLead(s) = "A" -> IF s.urgency >= 8 THEN "today" ELSE "24 hours"
    [] ScoreLead(s) = "B" -> "3 days"
    [] ScoreLead(s) = "C" -> "no hurry"

---------------------------------------------------------------------------
(* calculateCallCost.                                                       *)

NotNegative(n) == IF n < 0 THEN 0 ELSE n

PerMinute(u, rate) == Rounded(NotNegative(u.seconds) * rate, 60)

LlmCost(u) ==
  Rounded(NotNegative(u.input) * Rates.input + NotNegative(u.output) * Rates.output, 1000)

ProviderSubtotal(u) ==
  PerMinute(u, Rates.telephony) + PerMinute(u, Rates.stt) + PerMinute(u, Rates.tts) + LlmCost(u)

CalculateCallCost(u) ==
  ProviderSubtotal(u) + Rounded(ProviderSubtotal(u) * NotNegative(Rates.markup), 100)

---------------------------------------------------------------------------
(* parseDateValue and buildAppointmentDraft.                                *)

DaysOfMonth == <<31, 28, 31, 30, 31, 30, 31, 31, 30, 31, 30, 31>>
DaysBefore == <<0, 31, 59, 90, 120, 151, 181, 212, 243, 273, 304, 334>>

MinuteOfDay(d) == d.hour * 60 + d.minute

\* Minutes since the beginning of the year, by the clock of the server, which is never put
\* forward.  The constructor
\* of Date carries what is too much for a minute, an hour, a day or a month, and the
\* parser compares the day and the month with the ones it was given.
ParseGermanDateTime(d) ==
  IF /\ d.month \in 1..12
     /\ d.day \in 1..DaysOfMonth[d.month]
     /\ MinuteOfDay(d) < 1440
  THEN (DaysBefore[d.month] + d.day - 1) * 1440 + MinuteOfDay(d)
  ELSE NoStart

ParseDateValue(d) ==
  IF ParseGermanDateTime(d) # NoStart THEN ParseGermanDateTime(d) ELSE AnyDate[d]

BuildAppointmentDraft(d) == [start |-> ParseDateValue(d), end |-> ParseDateValue(d) + 30]

---------------------------------------------------------------------------
EvaluationInit ==
  /\ callerId \in BOOLEAN
  /\ answers = NoAnswers
  /\ used = Silence
  /\ date = NoDate

\* save_answer: the model may say anything, and correct what it has saved.
SaveAnswer(k, raw) ==
  /\ ValidateAnswerValue(Questionnaire[k], raw) # Rejected
  /\ answers' = [answers EXCEPT ![k] = ValidateAnswerValue(Questionnaire[k], raw)]
  /\ UNCHANGED <<callerId, used, date>>

\* A date is free text to validateAnswerValue.
SaveDate(d) == date' = d /\ UNCHANGED <<callerId, answers, used>>

Talk(u) ==
  /\ used.seconds + u.seconds <= MaxSeconds
  /\ used' = [seconds |-> used.seconds + u.seconds, input |-> used.input + u.input,
              output |-> used.output + u.output]
  /\ UNCHANGED <<callerId, answers, date>>

EvaluationNext ==
  \/ \E k \in DOMAIN Questionnaire, raw \in RawValues : SaveAnswer(k, raw)
  \/ \E d \in Dates : SaveDate(d)
  \/ \E u \in Talks : Talk(u)

EvaluationSpec == EvaluationInit /\ [][EvaluationNext]_evaluationVars

---------------------------------------------------------------------------
\* "Every value is checked against the question's type before it is persisted"
\* (answer-validate.ts:3).
Fits(value, q) ==
  \/ q.type = "yes_no" /\ value \in {Bool(0), Bool(1)}
  \/ q.type = "scale" /\ value.typeof = "number" /\ value.n \in q.scaleMin..q.scaleMax
  \/ q.type = "urgency" /\ value.typeof = "number" /\ value.n \in 0..10
  \/ q.type = "multiple_choice" /\ value \in q.options
  \/ q.type = "budget" /\ value.typeof \in {"number", "string"}
  \/ q.type \in {"email", "phone", "datetime", "free_text"} /\ value = Text(1)

\* Whatever the model passes to save_answer, what is stored fits the question.
EvaluationTypeOK ==
  /\ callerId \in BOOLEAN
  /\ answers \in AnswerMap
  /\ \A k \in Keys :
       IsAnswered(answers, k) => k \in DOMAIN Questionnaire /\ Fits(answers[k], Questionnaire[k])
  /\ used \in CallUsage /\ used.seconds <= MaxSeconds
  /\ date \in Dates \cup {NoDate}

\* The signals an answer to k is looked up for.
Bears(k) == Meanings[k] \cup ({Questionnaire[k].type} \cap {"email", "phone", "urgency", "budget"})

AnswersNew(k) ==
  /\ ~IsAnswered(answers, k) /\ IsAnswered(answers, k)'
  /\ \A j \in DOMAIN Questionnaire : IsAnswered(answers, j) => Bears(j) \cap Bears(k) = {}

Lead == Signals(answers, callerId)

Rank(category) == CASE category = "A" -> 3 [] category = "B" -> 2 [] category = "C" -> 1
Haste(action) ==
  CASE action = "today" -> 4 [] action = "24 hours" -> 3 [] action = "3 days" -> 2 [] action = "no hurry" -> 1

\* Who answers one more question is not served worse for it: neither the score nor the
\* category nor the recommended action goes down.  Unless the signal was known before:
\* an answer that is corrected, or the second of two questions of a type.
LeadNeverDrops ==
  (\E k \in DOMAIN Questionnaire : AnswersNew(k)) =>
    \A before \in {Lead}, after \in {Lead'} :
        /\ Score(after) >= Score(before)
        /\ Rank(ScoreLead(after)) >= Rank(ScoreLead(before))
        /\ Haste(RecommendNextAction(after)) >= Haste(RecommendNextAction(before))

\* No part of a call makes it cheaper, in spite of the roundings, and the markup of the
\* platform is never a rebate.
CostNeverDrops ==
  /\ CalculateCallCost(used') >= CalculateCallCost(used)
  /\ CalculateCallCost(used') >= ProviderSubtotal(used')

\* Where a date is read in the German format, it is as written, but for a minute above 59,
\* which is carried to the next hour; the slot ends half an hour later.  (A date that the
\* format refuses goes to the parser of JavaScript.)
DraftIsAsWritten ==
  LET draft == BuildAppointmentDraft(date) IN
  ParseGermanDateTime(date) # NoStart =>
    /\ draft.start \div 1440 = DaysBefore[date.month] + date.day - 1
    /\ date.minute < 60 => (draft.start % 1440) \div 60 = date.hour /\ draft.start % 60 = date.minute
    /\ draft.end = draft.start + 30

\* What the end of a call computes is fair to the caller, to the platform and to the date.
EvaluationIsFair ==
  [][/\ answers' # answers => LeadNeverDrops
     /\ used' # used => CostNeverDrops
     /\ date' # date => DraftIsAsWritten']_evaluationVars
=============================================================================
