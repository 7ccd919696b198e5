\* Does accuracy keep the failed cases in its denominator?
SPECIFICATION Spec
CONSTANTS
  Unit = 4
  MaxQuestions = 1
  MaxOptions = 2
  MinLevels = 2
  MaxLevels = 3
  BadIds = {"bad id"}
  DataSets <- mcDataSets
  Rules <- mcRules
  Gates <- mcGates
  Answers <- mcAnswers
  Latencies = {1, 2}
INVARIANT FailuresStayInDenominator
\* The command ends.
CHECK_DEADLOCK FALSE
