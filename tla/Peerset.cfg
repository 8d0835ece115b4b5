SPECIFICATION MCSpec
CONSTANTS
  None = None
  p1 = p1
  p2 = p2
  Peer = {p1, p2}
  NumSets = 2
  MaxIn = 1
  MaxOut = 1
  MinRep <- MCMinRep
  MaxRep = 1
  ForgetAfter = 0
  BannedThreshold <- MCBanned
  DisconnectChange <- MCDisconnect
  Decay = 2
  Report <- MCReports
  Index = {i1, i2}
  MaxElapsed = 1
SYMMETRY Peers
INVARIANTS
  ViewsAgree
PROPERTIES
  PeersetLinked
  SlotsKept
  OnlyAllowedConnected
  ReservedMaintainedUnlessBanned
