SPECIFICATION LifecycleSpec
CONSTANTS
  Keys <- MCKeys
  NoKey = NoKey
  Questionnaires <- MCQuestionnaires
  Channels = {"phone"}
  Turns = {t1}
  Callbacks = {c1}
  MaxFaults = 0
INVARIANTS
  RunsOncePerCall
CHECK_DEADLOCK FALSE
