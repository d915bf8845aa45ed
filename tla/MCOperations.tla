---------------------------- MODULE MCOperations ----------------------------
(***************************************************************************)
(* What the platform keeps for its calls, each part on a small instance.   *)
(* They have no variable in common, so that in a behaviour one of them     *)
(* moves, the focus, and the others stay in one of their initial states:   *)
(* what holds of a part alone holds of it in any interleaving.             *)
(***************************************************************************)
EXTENDS NumberPool, CalendarBooking, Budget, AppointmentDialogue,
        AssistantSettings, CallEvaluation, TLC

VARIABLE focus

MCCountry == [n \in Numbers \cup Tenants |-> IF n = "n2" THEN "AT" ELSE "DE"]
MCAssistants == [t \in Tenants |-> {"a"}]

\* Berlin, and New York; both change on the Sunday that is day 14.
MCTimeZones == {[before |-> 4, after |-> 8, change |-> 14 * Day + 4],
                [before |-> -20, after |-> -16, change |-> 14 * Day + 28]}
\* A quarter of an hour before midnight on a Wednesday and a Friday, in one zone each.
MCCallTimes == {10 * Day + 91, 13 * Day + 19}
MCBusySets == {{Interval(11 * Day + 36, 11 * Day + 38)},
               {Interval(d * Day + 24, d * Day + 80) : d \in 10..17}}
MCPhrases == {Phrase("in", 0, Unsaid, Unsaid), Phrase("in", 1, 40, Unsaid),
              Phrase("weekday", 0, 12, Unsaid), Phrase("weekday", 1, 58, Unsaid),
              Phrase("none", 0, Unsaid, Unsaid)}

MCQuestion(type, order) ==
  [type |-> type, required |-> FALSE, order |-> order, condition |-> Unconditional,
   options |-> {}, scaleMin |-> 1, scaleMax |-> 5]
\* Two questions ask for the concern, one of them on a scale.
MCQuestionnaire ==
  [name |-> MCQuestion("free_text", 1), reason |-> MCQuestion("email", 2), termin |-> MCQuestion("yes_no", 3),
   when |-> MCQuestion("urgency", 4), budget |-> MCQuestion("budget", 5), concern |-> MCQuestion("scale", 6)]
MCMeanings ==
  [name |-> {"name"}, reason |-> {"concern"}, termin |-> {"callback"}, when |-> {}, budget |-> {},
   concern |-> {"concern"}]
MCRates == [telephony |-> 14005, stt |-> 6001, tts |-> 15007, input |-> 151, output |-> 607, markup |-> 30]
MCRawValues == [kind : {"boolean", "null", "yes", "address", "text"}, n : {1}]
                 \cup [kind : {"number"}, n : {2, 9, 11}]
MCDates == [day : {0, 15, 31}, month : {2, 5}, hour : {9, 23}, minute : {0, 75}]
MCAnyDate == [d \in MCDates |-> NoStart]
MCTalks == {[seconds |-> 1, input |-> 0, output |-> 0], [seconds |-> 3, input |-> 7, output |-> 3],
            [seconds |-> 29, input |-> 1200, output |-> 90]}

\* The answers, the usage and the date do not meet in anything that is computed.
OneAspect ==
  \/ used = Silence /\ date = NoDate
  \/ answers = NoAnswers /\ date = NoDate
  \/ answers = NoAnswers /\ used = Silence

\* The sets of actors have elements in common, which keeps the group small: an
\* element stands for an actor of the part that moves.
MCSymmetry == UNION {Permutations(S) : S \in {Tasks, Recorders, Windows}}

\* Of the three requests two are under way at once, and one is a customer's who keeps
\* his number or gives it up: it is the only one the others cannot be exchanged with.
AtMostTwo ==
  /\ Cardinality({r \in Requests : job[r].at \notin {"idle", "done"}}) <= 2
  /\ \A r \in Requests \ Tasks : job[r].op \in {"none", "keep", "delete"}

\* The user enters an event of his own, or connects a second time.
OneUserStory == grants < MaxGrants \/ \A e \in events : e.by # "user"

Only(part, Next, others) == focus = part /\ Next /\ UNCHANGED <<focus, others>>

MCInit ==
  /\ focus \in {"numbers", "calendar", "budget", "dialogue", "settings", "evaluation"}
  /\ NumbersInit /\ (focus = "numbers" \/ \A n \in Numbers : pool[n] = NoRow)
  /\ CalendarInit
  /\ BudgetInit /\ (focus = "budget" \/ budget = NoBudget)
  /\ DialogueInit
  /\ \/ focus = "dialogue" /\ ZonedParts(now, zone) % Day = Day - 1
     \/ /\ focus # "dialogue"
        /\ now = CHOOSE t \in CallTimes : TRUE
        /\ zone = CHOOSE z \in TimeZones : TRUE
        /\ busy = CHOOSE b \in BusySets : TRUE
  /\ SettingsInit /\ (focus = "settings" \/ assistants = <<>>)
  /\ EvaluationInit /\ (focus = "evaluation" \/ callerId)

MCNext ==
  \/ Only("numbers", NumbersNext /\ AtMostTwo', <<calendarVars, budgetVars, dialogueVars, settingsVars, evaluationVars>>)
  \/ Only("calendar", CalendarNext /\ OneUserStory', <<numberVars, budgetVars, dialogueVars, settingsVars, evaluationVars>>)
  \/ Only("budget", BudgetNext, <<numberVars, calendarVars, dialogueVars, settingsVars, evaluationVars>>)
  \/ Only("dialogue", DialogueNext, <<numberVars, calendarVars, budgetVars, settingsVars, evaluationVars>>)
  \/ Only("settings", SettingsNext, <<numberVars, calendarVars, budgetVars, dialogueVars, evaluationVars>>)
  \/ Only("evaluation", EvaluationNext /\ OneAspect', <<numberVars, calendarVars, budgetVars, dialogueVars, settingsVars>>)

MCSpec == MCInit /\ [][MCNext]_<<focus, numberVars, calendarVars, budgetVars, dialogueVars, settingsVars,
                             evaluationVars>>

\* The rows, the requests and the tasks of the part that moves have their types.
OperationsTypeOK ==
  /\ focus = "numbers" => NumbersTypeOK
  /\ focus = "calendar" => CalendarTypeOK
  /\ focus = "budget" => BudgetTypeOK
  /\ focus = "dialogue" => DialogueTypeOK
  /\ focus = "settings" => SettingsTypeOK
  /\ focus = "evaluation" => EvaluationTypeOK
=============================================================================
