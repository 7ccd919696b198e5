\* Every document of up to MaxTokens tokens.
SPECIFICATION Spec
CONSTANTS
  Keys = {"questions", "Questions", "a"}
  Field <- mcField
  MaxTokens = 10
INVARIANTS RefusesExactlyRepeats NoQuestionDroppedAsSpelled
\* A document ends.
CHECK_DEADLOCK FALSE
