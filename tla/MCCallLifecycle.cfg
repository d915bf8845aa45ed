SPECIFICATION FairLifecycleSpec
CONSTANTS
  Keys <- MCKeys
  NoKey = NoKey
  Questionnaires <- MCQuestionnaires
  Channels = {"phone"}
  Turns = {t1}
  Callbacks = {c1, c2}
  MaxFaults = 1
INVARIANTS
  LifecycleTypeOK
  NoLlmWithoutConsent
  MailsHoldUnlessRaced
  SettledUnlessRaced
  ResultsAreWholeUnlessRaced
PROPERTIES
  FinalizeCallbackDelivers
  ImplementsPipeline
  ReportedDurationKeptUnlessRaced
CHECK_DEADLOCK FALSE
