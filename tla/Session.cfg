CONSTANTS
  Msg <- Messages
  Size <- PageSizes
  NoRow = NoRow
  MaxOutside = 1
  MaxActs = 2
  MaxFaults = 1
SPECIFICATION Spec
INVARIANTS StaleIsReported SelectionIsMeant
PROPERTY UndoRestores
