SPECIFICATION PeersetFairSpec
CONSTANTS
  None = None
  p1 = p1
  p2 = p2
  Peer = {p1, p2}
  NumSets = 1
  MaxIn = 1
  MaxOut = 1
  MinRep <- MCMinRep
  MaxRep = 0
  ForgetAfter = 0
  BannedThreshold <- MCBanned
  DisconnectChange <- MCDisconnect
  Decay = 2
  Report <- MCNegative
  Index = {}
  MaxElapsed = 1
PROPERTIES
  ReservedEventuallyConnected
