--------------------------- MODULE ExtractorTypes ---------------------------
(***************************************************************************)
(* Data shared by the account-extractor modules (tycho-ethereum,           *)
(* account_extractor/contract.rs).  Addresses are model values; storage    *)
(* keys are the integers 1..NumSlots, whose order stands for the order in  *)
(* which debug_storageRangeAt walks the storage trie; a storage word or    *)
(* balance is 0 (the 32 zero bytes) or 1 (any other word).  The bytecode   *)
(* of an account is abstracted to the account's own address: what matters *)
(* is only that it lands in the delta of the right account.                *)
(***************************************************************************)
EXTENDS Integers, Sequences, FiniteSets

CONSTANTS
  Addr,           \* account addresses (model values)
  NumSlots,       \* number of storage keys per account
  None,           \* Option::None of StorageSnapshotRequest.slots
  Absent,         \* a key that is not in an AccountDelta's slot map
  Cleared,        \* a key mapped to None (slot cleared / zero)
  RequestInputs,  \* the request slices get_accounts_at_block is called with
  StorageRangeLimit, \* the page limit 100000 of debug_storageRangeAt
  Reorgs          \* whether the block's number may name another block

Slot == 1..NumSlots
Val  == {0, 1}                        \* 0 is the all-zero 32-byte word

\* The chain at the requested block, as the RPC node serves it.
NodeStates ==
  [code: {[a \in Addr |-> a]},
   balance: [Addr -> Val],
   storage: [Addr -> [Slot -> Val]]]

\* What the node serves for BlockNumberOrTag::from(block.number): the block
\* itself, or after a reorg of that height any other chain state.
NumberViews(nd) == IF Reorgs THEN NodeStates ELSE {nd}

\* StorageSnapshotRequest {address, slots: Option<Vec<Bytes>>}.
SlotsRequest == {None} \cup Seq(Slot)

\* AccountDelta.slots: HashMap<Bytes, Option<Bytes>> seen as a total map.
SlotMap == [Slot -> Val \cup {Absent, Cleared}]

AccountDelta ==
  [address: Addr, code: Addr, balance: Val, slots: SlotMap,
   change: {"Creation"}]

SeqSet(s) == {s[i] : i \in DOMAIN s}

LesserOf(x, y) == IF x < y THEN x ELSE y

\* xs.chunks(n): the k-th chunk of a sequence, 1-based.
ChunkOf(xs, n, k) == SubSeq(xs, (k - 1) * n + 1, LesserOf(k * n, Len(xs)))
NumChunks(xs, n)  == (Len(xs) + n - 1) \div n

(***************************************************************************)
(* debug_storageRangeAt(block, 0, address, start, limit) as the node       *)
(* answers it: the non-zero slots from `start` on in trie order, at most   *)
(* StorageRangeLimit of them, and the key of the next one if any.          *)
(***************************************************************************)
StorageRangeAt(nd, a, start) ==
  LET keys == SelectSeq([i \in 1..NumSlots |-> i],
                        LAMBDA s : s >= start /\ nd.storage[a][s] # 0)
  IN [storage |-> SubSeq(keys, 1, LesserOf(StorageRangeLimit, Len(keys))),
      next    |-> IF Len(keys) > StorageRangeLimit
                    THEN keys[StorageRangeLimit + 1] ELSE None]

\* HashMap::insert on a map held as a function with a growing domain.
Insert(m, k, v) == [x \in DOMAIN m \cup {k} |-> IF x = k THEN v ELSE m[x]]

=============================================================================
