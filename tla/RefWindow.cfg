SPECIFICATION HistorySpec
CONSTANTS
  Key = {k1, k2}
  BlockHash = {h1}
  CountInsertions = TRUE
  MaxNumber = 5
  None = None
INVARIANTS
  TypeOK
  RetainedStatesStored
  IndexMatchesRows
  JournalRestoresWindow
  ReplayMatches
  NoLeakUnlessReverted
