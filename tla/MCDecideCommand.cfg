\* One process per setup, with every outcome of its call.
SPECIFICATION Spec
CONSTANTS
  Unit = 4
  MaxQuestions = 2
  MaxOptions = 2
  MinLevels = 2
  MaxLevels = 3
  BadIds = {9}
  DefaultTimeout = 2
  DefaultRetries = 2
  Urls <- mcUrls
  TypeIds <- mcTypeIds
  Setups <- mcSetups
  Bodies <- mcBodies
INVARIANTS ExitTellsTheOutcome NothingAskedUnprinted CallersWordCounts LastWordReachesAdapter DoctorForetells
PROPERTIES CommandEnds
\* A process ends.
CHECK_DEADLOCK FALSE
