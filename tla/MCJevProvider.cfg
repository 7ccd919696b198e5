\* One call: three requests at most, a caller's deadline of 6 ticks, a client
\* timer that fires before it (2) or never (6).
SPECIFICATION Spec
CONSTANTS
  Base = 2
  Ceiling = 3
  MaxRetryAfter = 3
  WordBits = 64
  BaseOdd = 390625
  BaseTwos = 9
  Second = 1
  HalfWord = 16
  RetryBudgets <- mcRetryBudgets
  ClientTimeouts <- mcClientTimeouts
  Deadline = 6
  Statuses <- mcStatuses
  RetryAfters <- mcRetryAfters
INVARIANTS TypeOK RetriesWithinBudget BackoffCapped DeadlineHonoured TimeoutIsHonest
PROPERTIES RetryOnlyAfterTransient RetryWaits ImplementsContract
\* A call that has returned does nothing more.
CHECK_DEADLOCK FALSE
