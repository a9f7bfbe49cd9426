SPECIFICATION Spec
CONSTANTS
  f1 = f1
  f2 = f2
  f3 = f3
  Files <- MCFiles
  Size <- MCSize
  Limit = 2
  MaxAttempts = 1
  RetrySeconds = 1
  MaxBackoff = 2
  MaxStops = 1
  None = None
INVARIANT SavedWhenUnlocked QueuedFilesKept
PROPERTY LimitEnforced LedgerSpec QueueDrains
CHECK_DEADLOCK FALSE
