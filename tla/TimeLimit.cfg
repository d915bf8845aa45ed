SPECIFICATION Spec
CONSTANTS
  Prompts = {p1, p2}
  NoPrompt = NoPrompt
  MaxTurns = 1
  MaxHops = 2
  MaxToolCalls = 1
  MaxFaults = 2
PROPERTY TimeLimitEnds
CHECK_DEADLOCK FALSE
