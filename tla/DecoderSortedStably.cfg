\* Spec property SortedStably, violated by what the decoder does.
CONSTANTS
  TxIndex = {1, 2}
  Cids = {"c1", "c2"}
  Names = {"x"}
  Vals = {1, 2}
  TypeNames = {"known", "unknown"}
  Registry = {"known"}
  NoTx = NoTx
  Addrs = {"a1", "a2"}
  Slots = {"s1"}
  Tokens = {"t1"}
  EntryPointIds = {"e1"}
  Traces = {"r1"}
  BadUtf8 = BadUtf8
  NoTrace = NoTrace
  None = None
  Messages <- MCMessages
  Kinds = {"BlockChanges", "BlockEntityChanges", "BlockContractChanges"}

SPECIFICATION Spec
\* Decoding is one call that returns: every behaviour stops after it.
CHECK_DEADLOCK FALSE
INVARIANT SortedStably
