SPECIFICATION IndexSpec
CONSTANTS
  Key = {k1}
  Value = {v1}
  Deleted = Deleted
  Unknown = Unknown
  None = None
  Child = {}
  Extrinsic = {}
  MaxDepth = 1
  MaxIndexOps = 1
CHECK_DEADLOCK FALSE
PROPERTY
  RollbackDiscardsIndexOps
