SPECIFICATION Spec
CONSTANTS
  Prompts = {p1, p2}
  NoPrompt = NoPrompt
  MaxTurns = 2
  MaxHops = 2
  MaxToolCalls = 1
  MaxFaults = 0
INVARIANTS
  SessionTypeOK
  LlmAfterYes
  ConsentStoredUnlessRaced
  InterruptibleUnlessRaced
  UsageCountedUnlessRaced
  HistoryAnsweredUnlessRaced
PROPERTY NoGenerationAfterEnd
CHECK_DEADLOCK FALSE
