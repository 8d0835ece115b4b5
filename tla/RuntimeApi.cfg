SPECIFICATION MCSpec
CONSTANTS
  Area = {"top"}
  Tracked = {"top"}
  Key = {k1}
  Value = {v1, v2}
  Deleted = Deleted
  Unknown = Unknown
  None = None
  Extrinsic = {}
  Err = Err
  Ok = {ok1, ok2}
  MaxNested = 2
  MaxDepth = 5
  Strategy = {"Both", "NativeElseWasm", "AlwaysWasm", "NativeWhenPossible"}
CHECK_DEADLOCK FALSE
INVARIANTS
  TransactionsBalanced
  CacheFreshUnlessDiscarded
PROPERTIES
  FailedRunLeavesNoTrace
