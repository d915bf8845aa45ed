SPECIFICATION MCSpec
CONSTANTS
  Users = {b1, b2}
  Staff = staff
  Records = {b1, b2}
  Callers = {c1, c2}
  Turns = {turn}
  Finalisers = {callback}
  Anonymized = anonymized
  Periods = {1, 2}
  MaxAge = 2
  Pages = {p1}
  Saves = {b1, b2}
  QuestionKeys = {1, 2}
  MaxQuestions = 2
  MaxEdits = 3
  MaxVisits = 1
  Tabs = {b1, b2}
  Customers = {customer}
  PlatformStaff = {operator}
  Nobody = Nobody
  Wizards = {b1, b2}
  NoWizard = NoWizard
  DidsToBuy = {d1}
  CalendarAccounts = {"anna", "ben"}
  NoAccount = "nobody"
  MaxCalls = 2
  Operators = {b1, b2}
  NoOperator = NoOperator
  PromptTasks = {b1, b2}
  MaxPrompts = 2
SYMMETRY MCSymmetry
INVARIANTS
  AdministrationTypeOK
  AdminRemainsUnlessWaived
  RemovalHoldsUnlessRaced
  StoredWasSentUnlessOverlapped
  ShownIsSignedInUnlessDisturbed
  WizardDeliversUnlessDisturbed
  DefaultHoldsUnlessMeddled
  OneVersionIsActiveUnlessOverlapped
CHECK_DEADLOCK FALSE
