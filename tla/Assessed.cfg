CONSTANTS
  Msg = {m1}
  Proc = {p1}
  Viewer = {v1}
  Commands = {"work", "cache", "edit"}
  MaxFaults = 1
  NoMarker = NoMarker
  Expired = Expired
SPECIFICATION FairSpec
INVARIANT NoLostMail
PROPERTY EverythingAssessed
