\* Every run over three-case datasets, interrupted anywhere.
SPECIFICATION Spec
CONSTANTS
  Unit = 4
  MaxQuestions = 1
  MaxOptions = 2
  MinLevels = 2
  MaxLevels = 3
  BadIds = {"bad id"}
  DataSets <- mcDataSets
  Rules <- mcRules
  Gates <- mcGates
  Answers <- mcAnswers
  Latencies = {1, 2}
INVARIANTS TypeOK EveryCaseAccounted OnePopulation CountsAgree PercentilesObserved GateHolds
PROPERTY RunEnds
\* The command ends.
CHECK_DEADLOCK FALSE
