----------------------- MODULE MCBatchAccountExtractor -----------------------
(***************************************************************************)
(* Bounds for BatchAccountExtractor.  Two addresses, two storage keys;     *)
(* requests ask for everything (None), for code and balance only (Some of  *)
(* an empty list) or for one or two keys.  Calls carry up to two requests, *)
(* so MaxBatchSize = 1 cuts them into two chunks.                          *)
(***************************************************************************)
EXTENDS BatchAccountExtractor

MCSlotsRequests == {None, <<>>, <<1>>, <<1, 2>>}

MCRequest == [address: Addr, slots: MCSlotsRequests]

MCAllInputs == SeqOf(MCRequest, 2)

\* Inputs in which one address is only ever asked for in one way (repeats of
\* the very same request included).
MCSameAddressSameRequest ==
  {rs \in MCAllInputs :
     \A i, j \in DOMAIN rs : rs[i].address = rs[j].address => rs[i] = rs[j]}

\* Inputs that ask for one address in two different ways.
MCConflictingRequests ==
  {rs \in MCAllInputs :
     \E i, j \in DOMAIN rs : rs[i].address = rs[j].address /\ rs[i] # rs[j]}

\* Inputs with a slot list longer than one eth_getStorageAt batch.
MCLongSlotLists ==
  {rs \in MCSameAddressSameRequest :
     \E i \in DOMAIN rs : rs[i].slots # None /\ Len(rs[i].slots) > StorageMaxBatchSize}

=============================================================================
