\* The bounds of MCJevProvider.cfg, for what the comments say of the error kinds.
SPECIFICATION Spec
CONSTANTS
  Base = 2
  Ceiling = 3
  MaxRetryAfter = 3
  WordBits = 64
  BaseOdd = 390625
  BaseTwos = 9
  Second = 1
  HalfWord = 16
  RetryBudgets <- mcRetryBudgets
  ClientTimeouts <- mcClientTimeouts
  Deadline = 6
  Statuses <- mcStatuses
  RetryAfters <- mcRetryAfters
INVARIANT InvalidInputBeforeContact
\* A call that has returned does nothing more.
CHECK_DEADLOCK FALSE
