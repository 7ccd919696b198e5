\* Duplicate identifiers are rejected rather than silently collapsed (README).
SPECIFICATION Spec
CONSTANTS
  Keys = {"questions", "Questions", "a"}
  Field <- mcField
  MaxTokens = 12
INVARIANTS NoQuestionDropped
CHECK_DEADLOCK FALSE
