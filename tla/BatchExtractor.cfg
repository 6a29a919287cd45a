\* The batched extractor against its contract, for inputs it must handle:
\* repeated identical requests, several chunks, paginated full dumps, and
\* slot lists that fit one eth_getStorageAt batch.
CONSTANTS
  Addr = {a1, a2}
  NumSlots = 2
  None = None
  Absent = Absent
  Cleared = Cleared
  RpcErr = RpcErr
  Pending = Pending
  Failed = Failed
  Panicked = Panicked
  MaxBatchSize = 1
  StorageMaxBatchSize = 2
  StorageRangeLimit = 1
  Reorgs = FALSE
  RequestInputs <- MCSameAddressSameRequest

SPECIFICATION Spec
INVARIANT TypeOK
INVARIANT NoRedundantRpc
PROPERTY ImplementsAccountExtractor
PROPERTY Termination
\* One call returns and the extractor stops.
CHECK_DEADLOCK FALSE
