SPECIFICATION NotifFairSpec
CONSTANTS
  None = None
  MaxEvents = 3
  Conn = {c1}
  Delay = {d1, d2}
  Index = {i1, i2}
INVARIANTS
  PeersetAgrees
PROPERTIES
  RequestResolved
CHECK_DEADLOCK FALSE
