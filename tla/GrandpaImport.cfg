SPECIFICATION GrandpaSpec
CONSTANTS
  g = g
  a1 = a1
  a2 = a2
  a3 = a3
  b2 = b2
  b3 = b3
  None = None
  Genesis = g
  Block <- MCBlock
  Parent <- MCParent
  Above <- MCAbove
  Number <- MCNumber
  Bases = {g, a2}
  Scenarios <- MCScenarios
INVARIANTS
  DiskMatchesMemory
  ChangesKeptUntilDue
  VoterFollows
  VoteWithinTransition
PROPERTIES
  EnactedInOrder
