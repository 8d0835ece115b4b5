SPECIFICATION MCSpec
CONSTANTS
  Key = {k1}
  Value = {v1}
  Deleted = Deleted
  Unknown = Unknown
  None = None
  Child = {c1}
  Extrinsic = {e1}
  MaxDepth = 4
  MaxIndexOps = 1
CHECK_DEADLOCK FALSE
INVARIANTS
  VersionsMatchDirty
PROPERTY
  ImplementsNested
