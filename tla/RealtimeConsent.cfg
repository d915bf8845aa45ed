SPECIFICATION Spec
CONSTANTS
  Prompts = {p1}
  NoPrompt = NoPrompt
  MaxTurns = 1
  MaxHops = 1
  MaxToolCalls = 1
  MaxFaults = 0
INVARIANT NoProcessingWithoutConsent
CHECK_DEADLOCK FALSE
