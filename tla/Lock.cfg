CONSTANTS
  command = command
  session = session
  other = other
  p1 = p1
  p2 = p2
  Lock <- Locks
  Pid = {p1, p2}
  pidOf <- Shared
  Sync = {command}
  MaxPolls = 1
  MaxRounds = 4
  MaxCrashes = 1
  NoFile = NoFile
  Empty = Empty
SPECIFICATION FairSpec
CHECK_DEADLOCK FALSE
INVARIANT LockInv
PROPERTIES OneOwner AttemptEnds
