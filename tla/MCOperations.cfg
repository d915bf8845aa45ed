SPECIFICATION MCSpec
CONSTANTS
  Numbers = {"n1", "n2"}
  Requests = {b1, b2, a3}
  Tenants = {t1}
  NoRequest = NoRequest
  NoNumber = NoNumber
  NoTenant = NoTenant
  Country <- MCCountry
  Assistants <- MCAssistants
  CanProvision = TRUE
  MaxAttempts = 2
  PoolFaults = 1
  Calendars = {"work"}
  Starts = {1}
  Duration = 2
  MaxGrants = 2
  MaxUserEvents = 1
  Tasks = {b1, b2}
  Calls = {k1, k2}
  Recorders = {b1, b2}
  Costs = {3, 4}
  Limits = {0, 4}
  MaxMonths = 2
  CallTimes <- MCCallTimes
  TimeZones <- MCTimeZones
  BusySets <- MCBusySets
  Phrases <- MCPhrases
  MaxWait = 1
  Windows = {b1, b2}
  MaxTyped = 1
  MaxLate = 1
  Keys = {"name", "reason", "termin", "when", "budget", "concern"}
  NoKey = NoKey
  Questionnaire <- MCQuestionnaire
  Meanings <- MCMeanings
  Rates <- MCRates
  RawValues <- MCRawValues
  Dates <- MCDates
  AnyDate <- MCAnyDate
  Talks <- MCTalks
  MaxSeconds = 40
SYMMETRY MCSymmetry
INVARIANTS
  OperationsTypeOK
  ClaimIsExclusive
  PoolIsConsistentUnlessAccident
  NoDoubleBookingUnlessRaced
  DisconnectHolds
  BudgetEnforcedUnlessRaced
  OffersHold
  SettingsHoldUnlessDisrupted
PROPERTIES
  ImplementsLease
  EvaluationIsFair
CHECK_DEADLOCK FALSE
