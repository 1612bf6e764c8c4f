CONSTANTS
  Calls = {c1, c2, c3}
  Windows <- MCWindows
  Length <- MCLength
  Limit <- MCLimit
  MaxTime = 2
  MaxRequests = 4
  MaxChanges = 3
SPECIFICATION Spec
CHECK_DEADLOCK FALSE
INVARIANTS TypeOK AllowanceKept NothingCarriedOver NoCallWithoutConsent
SYMMETRY Symmetric
