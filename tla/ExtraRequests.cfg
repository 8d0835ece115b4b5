SPECIFICATION ExtraSpec
CONSTANTS
  g = g
  a1 = a1
  a2 = a2
  b2 = b2
  c1 = c1
  c2 = c2
  a3 = a3
  Produced = {a1, a2, c1}
  Enacting = {a1, a2, c1}
  Forcing = {a2, c1}
  p1 = p1
  p2 = p2
  None = None
  Block = {g, a1, a2, b2, a3, c1, c2}
  Genesis = g
  Parent <- MCParent
  Number <- MCNumber
  Above <- MCAbove
  Peer = {p1, p2}
  BestNumber = {1, 2}
INVARIANTS
  ForkTreeAgrees
  RequestedOnce
  AnswersMatchRequests
PROPERTIES
  RequestsFollowRoots
CHECK_DEADLOCK FALSE
SYMMETRY Sym
