\* A slot list longer than one eth_getStorageAt batch: the Waiters of the
\* second batch are never read; the ones of the first are polled again.
CONSTANTS
  Addr = {a1, a2}
  NumSlots = 2
  None = None
  Absent = Absent
  Cleared = Cleared
  RpcErr = RpcErr
  Pending = Pending
  Failed = Failed
  Panicked = Panicked
  MaxBatchSize = 1
  StorageMaxBatchSize = 1
  StorageRangeLimit = 1
  Reorgs = FALSE
  RequestInputs <- MCLongSlotLists

SPECIFICATION Spec
PROPERTY ImplementsAccountExtractor
\* One call returns and the extractor stops.
CHECK_DEADLOCK FALSE
