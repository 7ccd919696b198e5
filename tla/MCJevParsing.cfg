\* Every body of the bounded sets, over probabilities in quarters.
SPECIFICATION Spec
CONSTANTS
  Unit = 4
  Exchanges <- mcExchanges
INVARIANTS TypeOK AnswersWhatWasAsked AbsentStaysAbsent MarginReadsDistribution StrictOnlyRefuses
\* One body is read and the call is over.
CHECK_DEADLOCK FALSE
