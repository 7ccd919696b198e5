\* A budget of 40 retries against an overloaded provider. The word is the real one;
\* the windows are narrowed to one or two ticks so that time adds few states.
SPECIFICATION Spec
CONSTANTS
  Base = 2
  Ceiling = 2
  MaxRetryAfter = 3
  WordBits = 64
  BaseOdd = 390625
  BaseTwos = 9
  Second = 1
  HalfWord = 16
  RetryBudgets <- mcManyRetries
  ClientTimeouts <- mcOneTimeout
  Deadline = 45
  Statuses <- mcOverloaded
  RetryAfters <- mcNoRetryAfter
INVARIANT BackoffNeverPanics
CHECK_DEADLOCK FALSE
