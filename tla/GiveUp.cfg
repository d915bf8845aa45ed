SPECIFICATION Spec
CONSTANTS
  Keys <- MCKeys
  NoKey = NoKey
  Questionnaires <- MCQuestionnaires
  Channels = {"phone"}
  Turns = {t1}
  MaxFaults = 0
PROPERTIES
  GiveUpSkips
CHECK_DEADLOCK FALSE
