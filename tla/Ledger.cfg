CONSTANTS
  Msg = {m1, m2}
  Payload = {p1, p2}
  MaxRuns = 2
  MaxFaults = 2
SPECIFICATION Spec
SYMMETRY Interchangeable
INVARIANTS LinkTruthful LedgerInv
PROPERTIES AppliedWasDone FiledOnlyWithEvent WriteAhead
CHECK_DEADLOCK FALSE
