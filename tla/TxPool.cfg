CONSTANTS
  a0 = a0  a1 = a1  x1 = x1  A = A  B = B  g = g  b1 = b1  d1 = d1  d2 = d2  c1 = c1  c2 = c2  e2 = e2
  Tx <- MCTx  Tag <- MCTag  Provides <- MCProvides  Requires <- MCRequires
  Priority <- MCPriority  Longevity <- MCLongevity
  Block <- MCBlock  Genesis = g  Parent <- MCParent  Body <- MCBody
  Scenarios <- MCScenarios  Watched <- MCWatched
  ReadyLimit = 2  FutureLimit = 1  MaxFinality = 1
  None = None
SPECIFICATION Spec
INVARIANTS QueuesConsistent QuietPool InBlockTracked
CHECK_DEADLOCK FALSE
