\* One address asked for in two ways: both requests survive the HashSet,
\* and the later insert into the result map drops the earlier delta.
CONSTANTS
  Addr = {a1, a2}
  NumSlots = 2
  None = None
  Absent = Absent
  Cleared = Cleared
  RpcErr = RpcErr
  Pending = Pending
  Failed = Failed
  Panicked = Panicked
  MaxBatchSize = 1
  StorageMaxBatchSize = 2
  StorageRangeLimit = 1
  Reorgs = FALSE
  RequestInputs <- MCConflictingRequests

SPECIFICATION Spec
PROPERTY ImplementsAccountExtractor
\* One call returns and the extractor stops.
CHECK_DEADLOCK FALSE
