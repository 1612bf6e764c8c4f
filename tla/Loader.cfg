CONSTANTS
  inbox = inbox
  trash = trash
  Order <- Folders
  Pages <- TwoPages
  Caller = {c1}
  MaxRows = 1
  MaxCalls = 2
  MaxActions = 1
  MaxPolls = 1
  NoFolder = NoFolder
SPECIFICATION FairSpec
CHECK_DEADLOCK FALSE
INVARIANT LoaderInv
PROPERTIES EnsureReturns StopReturns SnapshotFinishes ForegroundServed
