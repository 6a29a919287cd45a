\* The single-call extractor against the full-dump contract, with dumps that
\* span two pages and every mix of two requests over two addresses.
CONSTANTS
  Addr = {a1, a2}
  NumSlots = 2
  None = None
  Absent = Absent
  Cleared = Cleared
  Pending = Pending
  Failed = Failed
  StorageRangeLimit = 1
  Reorgs = FALSE
  RequestInputs <- MCInputs

SPECIFICATION Spec
INVARIANT TypeOK
PROPERTY ImplementsFullDumpContract
PROPERTY Termination
\* One call returns and the extractor stops.
CHECK_DEADLOCK FALSE
