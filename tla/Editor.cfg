SPECIFICATION EditorSpec
CONSTANTS
  Pages = {p1}
  Saves = {s1}
  QuestionKeys = {1, 2}
  MaxQuestions = 2
  MaxEdits = 1
  MaxVisits = 0
INVARIANT LoadedCanBeSaved
CHECK_DEADLOCK FALSE
