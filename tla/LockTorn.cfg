CONSTANTS
  command = command
  session = session
  other = other
  p1 = p1
  p2 = p2
  Lock <- Pair
  Pid = {p1, p2}
  pidOf <- Apart
  Sync = {command}
  MaxPolls = 1
  MaxRounds = 2
  MaxCrashes = 0
  NoFile = NoFile
  Empty = Empty
SPECIFICATION Spec
CHECK_DEADLOCK FALSE
INVARIANT MutualExclusion
