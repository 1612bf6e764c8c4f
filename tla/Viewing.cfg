CONSTANTS
  Msg = {m1}
  Proc = {p1}
  Viewer = {v1, v2}
  Commands = {"refresh", "snapshot", "uncache", "edit"}
  MaxFaults = 1
  NoMarker = NoMarker
  Expired = Expired
SPECIFICATION Spec
INVARIANTS SyncInv ViewComplete
SYMMETRY ViewerSymmetry
ACTION_CONSTRAINT Promised
