CONSTANTS
  Jobs = {j1, j2}
  Kinds = {"run", "preview", "connect", "logout", "disconnect"}
  Free = Free
  MaxTokens = 3
  MaxJobs = 3
  MaxAsks = 2
  MaxFaults = 1
  MaxCancels = 1
SPECIFICATION Spec
CHECK_DEADLOCK FALSE
INVARIANTS TypeOK NoSelfInflictedStop LogoutSticks StatusHonest NeverBusyForNothing
SYMMETRY Symmetric
