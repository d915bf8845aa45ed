SPECIFICATION Spec
CONSTANTS
  Keys <- MCKeys
  NoKey = NoKey
  Questionnaires <- MCQuestionnaires
  Channels = {"phone", "simulator"}
  Turns = {t1}
  MaxFaults = 2
INVARIANTS
  TypeOK
  ConsentFirst
  PendingIsNext
  AnswersAreActive
  ConfirmedIsComplete
PROPERTIES
  AnswersEnd
CHECK_DEADLOCK FALSE
