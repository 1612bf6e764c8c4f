CONSTANTS
  a = a
  b = b
  s = s
  d = d
  Batch <- Items
  Solo <- Others
  weight <- Weights
  maxAttempts <- Tries
  Limit = 2
  Unit = 6
  Budget = 18
  Burst = 12
  Window = 2
  Fastest = 1
  Slowest = 3
  Recovery = 24
  BaseDelay = 1
  MaxDelay = 2
  RetryAfter <- Headers
  MaxFaults = 2
  NoHeader = NoHeader
SPECIFICATION FairSpec
CHECK_DEADLOCK FALSE
INVARIANTS LimiterOK BudgetKept
PROPERTIES OneSlowdownPerWave NoBurstAfterSlowdown CallsEnd
