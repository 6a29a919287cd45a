------------------------ MODULE BatchAccountExtractor ------------------------
(***************************************************************************)
(* EVMBatchAccountExtractor::get_accounts_at_block (tycho-ethereum,        *)
(* account_extractor/contract.rs): one call, as the task that runs it      *)
(* polls it.  The requests are deduplicated through a HashSet, cut into    *)
(* chunks of MaxBatchSize; per chunk one JSON-RPC batch fetches code and   *)
(* balance of every request, then one storage future per request runs      *)
(* under try_join_all: either batches of eth_getStorageAt of at most       *)
(* StorageMaxBatchSize calls, or the paginated debug_storageRangeAt loop.  *)
(* The deltas are assembled when every future of the chunk is done.        *)
(*                                                                         *)
(* Any RPC may fail.  The node answers debug_storageRangeAt, which names  *)
(* the block by hash, from `node`, and the calls that name it by number    *)
(* from `atNumber`, the same chain unless the height was reorged.  Futures *)
(* are lazy, so the storage futures of a chunk start only after its        *)
(* code/balance batch returned.                                            *)
(* The awaits on the futures of a sent batch are ready at once, so the     *)
(* collection loop after a batch is one step.                              *)
(***************************************************************************)
EXTENDS ExtractorTypes, SequencesExt

CONSTANTS
  MaxBatchSize,         \* max_batch_size = 100 (line 416)
  StorageMaxBatchSize,  \* storage_max_batch_size = 10000 (line 417)
  RpcErr,               \* an error response of one call of a batch
  Pending, Failed, Panicked

VARIABLES
  requests,   \* the requests slice of the call
  node,       \* the chain at the block's hash, as the RPC node serves it
  atNumber,   \* the chain the node serves for the block's number
  unique,     \* unique_requests, in the HashSet's iteration order
  chunk,      \* index of the chunk being processed
  phase,      \* idle | meta | storage | done | failed | panicked
  codes,      \* codes map of batch_fetch_account_code_and_balance
  balances,   \* balances map of the same
  fut,        \* the storage futures of the chunk under try_join_all
  updates,    \* the result map being built
  rpc,        \* the RPC calls issued so far (a history variable)
  dupRpc      \* TRUE once some RPC call was issued a second time

vars == <<requests, node, atNumber, unique, chunk, phase, codes, balances, fut,
          updates, rpc, dupRpc>>

Phases == {"idle", "meta", "storage", "done", "failed", "panicked"}

RpcCall == [m: {"eth_getCode", "eth_getBalance", "eth_getStorageAt",
                "debug_storageRangeAt"}, a: Addr, k: 0..NumSlots]

\* A pinned Waiter of a sent eth_getStorageAt call.
Waiter == [slot: Slot, resp: Val \cup {RpcErr}, taken: BOOLEAN]

\* The state of one fetch_account_storage future.
StorageFuture ==
  [st: {"running", "ok"}, batch: Nat, reqs: Seq(Waiter), slots: SlotMap,
   start: 0..NumSlots]

NewFuture ==
  [st |-> "running", batch |-> 1, reqs |-> <<>>,
   slots |-> [s \in Slot |-> Absent], start |-> 0]

Chunk == ChunkOf(unique, MaxBatchSize, chunk)

-----------------------------------------------------------------------------
\* Issue a sequence of RPC calls, noting a call that was issued before.
Issue(calls) ==
  /\ rpc' = rpc \cup SeqSet(calls)
  /\ dupRpc' = \/ dupRpc
               \/ \E i \in DOMAIN calls : calls[i] \in rpc
               \/ \E i, j \in DOMAIN calls : i # j /\ calls[i] = calls[j]

\* Mutant: the requests are used as given, repeats included.
UniqueOrdersKeepRepeats(reqs) == {reqs}

\* The HashSet round trip of lines 406-411: the distinct requests, in any order.
UniqueOrders(reqs) == SetToSeqs(SeqSet(reqs))

\* Mutant: a zero word is kept as Some(0) instead of None.
StorageValueNoClear(v) == v

\* An eth_getStorageAt answer of 32 zero bytes is a cleared slot.
StorageValue(v) == IF v = 0 THEN Cleared ELSE v

\* The collection loop of lines 314-331 over the Waiters of one batch.
RECURSIVE Collect(_, _, _, _)
Collect(reqs, sb, idx, slots) ==
  IF idx > Len(sb)
  THEN [outcome |-> "ok", reqs |-> reqs, slots |-> slots]
  ELSE IF reqs[idx].taken
  THEN [outcome |-> "panic", reqs |-> reqs, slots |-> slots]
  ELSE IF reqs[idx].resp = RpcErr
  THEN [outcome |-> "err", reqs |-> reqs, slots |-> slots]
  ELSE Collect([reqs EXCEPT ![idx].taken = TRUE], sb, idx + 1,
               [slots EXCEPT ![sb[idx]] = StorageValue(reqs[idx].resp)])

\* Mutant: code and balance taken from each other's map.
DeltaSwapped(r, slots) ==
  [address |-> r.address, code |-> balances[r.address],
   balance |-> codes[r.address], slots |-> slots, change |-> "Creation"]

Delta(r, slots) ==
  [address |-> r.address, code |-> codes[r.address],
   balance |-> balances[r.address], slots |-> slots, change |-> "Creation"]

\* try_join_all resolved: the deltas of the chunk go into updates in
\* chunk order, a later insert for one address replacing an earlier one.
AssembleChunk(fs) ==
  /\ updates' = FoldLeftDomain(
                  LAMBDA u, i : Insert(u, Chunk[i].address, Delta(Chunk[i], fs[i].slots)),
                  updates, Chunk)
  /\ chunk' = chunk + 1
  /\ phase' = IF chunk + 1 > NumChunks(unique, MaxBatchSize) THEN "done" ELSE "meta"
  /\ fut' = <<>>

\* Future i returns Ok(slots); the last one to do so resolves the join.
Complete(i, f) ==
  LET fs == [fut EXCEPT ![i] = [f EXCEPT !.st = "ok"]]
  IN IF \A j \in DOMAIN fs : fs[j].st = "ok"
     THEN AssembleChunk(fs)
     ELSE /\ fut' = fs
          /\ UNCHANGED <<phase, chunk, updates>>

\* Mutant: start_key is not moved to next_key.
AdvanceCursorStuck(i, f, next) ==
  IF next = None
  THEN Complete(i, f)
  ELSE /\ fut' = [fut EXCEPT ![i] = f]
       /\ UNCHANGED <<phase, chunk, updates>>

\* The end of one page of get_storage_range: follow next_key or stop.
AdvanceCursor(i, f, next) ==
  IF next = None
  THEN Complete(i, f)
  ELSE /\ fut' = [fut EXCEPT ![i] = [f EXCEPT !.start = next]]
       /\ UNCHANGED <<phase, chunk, updates>>

-----------------------------------------------------------------------------
Init ==
  /\ requests \in RequestInputs
  /\ node \in NodeStates
  /\ atNumber \in NumberViews(node)
  /\ unique = <<>>
  /\ chunk = 0
  /\ phase = "idle"
  /\ codes = [a \in {} |-> 0]
  /\ balances = [a \in {} |-> 0]
  /\ fut = <<>>
  /\ updates = [a \in {} |-> 0]
  /\ rpc = {}
  /\ dupRpc = FALSE

\* Lines 403-418: deduplicate, then enter the loop over chunks.
Start ==
  /\ phase = "idle"
  /\ \E order \in UniqueOrders(requests) :
       /\ unique' = order
       /\ phase' = IF order = <<>> THEN "done" ELSE "meta"
  /\ chunk' = 1
  /\ UNCHANGED <<requests, node, atNumber, codes, balances, fut, updates, rpc, dupRpc>>

\* batch_fetch_account_code_and_balance, awaited at line 436: one batch of
\* eth_getCode and eth_getBalance for every request of the chunk.  A failed
\* send or a failed call fails the whole call.
FetchCodeAndBalance ==
  /\ phase = "meta"
  /\ LET n     == Len(Chunk)
         addrs == {Chunk[i].address : i \in 1..n}
     IN /\ Issue([i \in 1..2 * n |->
                    IF i <= n THEN [m |-> "eth_getCode", a |-> Chunk[i].address, k |-> 0]
                    ELSE [m |-> "eth_getBalance", a |-> Chunk[i - n].address, k |-> 0]])
        /\ \/ /\ phase' = "failed"
              /\ UNCHANGED <<codes, balances, fut>>
           \/ /\ codes' = [a \in addrs |-> atNumber.code[a]]
              /\ balances' = [a \in addrs |-> atNumber.balance[a]]
              /\ fut' = [i \in 1..n |-> NewFuture]
              /\ phase' = "storage"
  /\ UNCHANGED <<requests, node, atNumber, unique, chunk, updates>>

\* One poll of fetch_account_storage with slots = Some(list): send the next
\* batch of eth_getStorageAt calls (lines 286-312) and collect its answers
\* (lines 314-331).  The Waiters of every batch are pushed onto one vector
\* and read back from index 0.  An empty list returns at once.
FetchSlotBatch(i) ==
  /\ phase = "storage"
  /\ i \in DOMAIN fut
  /\ fut[i].st = "running"
  /\ Chunk[i].slots # None
  /\ LET r  == Chunk[i]
         f  == fut[i]
         nb == NumChunks(r.slots, StorageMaxBatchSize)
         sb == ChunkOf(r.slots, StorageMaxBatchSize, f.batch)
     IN IF nb = 0
        THEN Complete(i, f) /\ UNCHANGED <<rpc, dupRpc>>
        ELSE
        /\ Issue([j \in 1..Len(sb) |->
                    [m |-> "eth_getStorageAt", a |-> r.address, k |-> sb[j]]])
        /\ \/ /\ phase' = "failed"
              /\ UNCHANGED <<fut, chunk, updates>>
           \/ \E ok \in [1..Len(sb) -> BOOLEAN] :
                LET sent == f.reqs \o
                              [j \in 1..Len(sb) |->
                                 [slot |-> sb[j], taken |-> FALSE,
                                  resp |-> IF ok[j] THEN atNumber.storage[r.address][sb[j]]
                                           ELSE RpcErr]]
                    c    == Collect(sent, sb, 1, f.slots)
                    f2   == [f EXCEPT !.batch = @ + 1, !.reqs = c.reqs, !.slots = c.slots]
                IN CASE c.outcome = "panic" ->
                          phase' = "panicked" /\ UNCHANGED <<fut, chunk, updates>>
                     [] c.outcome = "err" ->
                          phase' = "failed" /\ UNCHANGED <<fut, chunk, updates>>
                     [] OTHER ->
                          IF f.batch = nb THEN Complete(i, f2)
                          ELSE fut' = [fut EXCEPT ![i] = f2]
                               /\ UNCHANGED <<phase, chunk, updates>>
  /\ UNCHANGED <<requests, node, atNumber, unique, codes, balances>>

\* One page of get_storage_range (lines 348-391), for slots = None: every
\* returned entry is inserted as Some(value).
FetchStorageRange(i) ==
  /\ phase = "storage"
  /\ i \in DOMAIN fut
  /\ fut[i].st = "running"
  /\ Chunk[i].slots = None
  /\ LET a    == Chunk[i].address
         f    == fut[i]
         page == StorageRangeAt(node, a, f.start)
         got  == SeqSet(page.storage)
     IN /\ Issue(<<[m |-> "debug_storageRangeAt", a |-> a, k |-> f.start]>>)
        /\ \/ /\ phase' = "failed"
              /\ UNCHANGED <<fut, chunk, updates>>
           \/ AdvanceCursor(i, [f EXCEPT !.slots =
                                  [s \in Slot |-> IF s \in got THEN node.storage[a][s]
                                                  ELSE f.slots[s]]],
                            page.next)
  /\ UNCHANGED <<requests, node, atNumber, unique, codes, balances>>

Next ==
  \/ Start
  \/ FetchCodeAndBalance
  \/ \E i \in 1..MaxBatchSize : FetchSlotBatch(i)
  \/ \E i \in 1..MaxBatchSize : FetchStorageRange(i)

\* A step in which no RPC failed.
Progress == Next /\ phase' # "failed"

\* The runtime keeps polling the task and the node keeps answering: a step
\* without an RPC failure that stays possible is taken.  Failures get no
\* fairness: a call need not fail for it to return.
Spec == Init /\ [][Next]_vars /\ WF_vars(Progress)

-----------------------------------------------------------------------------
TypeOK ==
  /\ requests \in Seq([address: Addr, slots: SlotsRequest])
  /\ node \in NodeStates
  /\ atNumber \in NodeStates
  /\ unique \in Seq([address: Addr, slots: SlotsRequest])
  /\ phase \in Phases
  /\ codes \in [DOMAIN codes -> Addr] /\ DOMAIN codes \subseteq Addr
  /\ balances \in [DOMAIN balances -> Val] /\ DOMAIN balances \subseteq Addr
  /\ fut \in Seq(StorageFuture)
  /\ DOMAIN updates \subseteq Addr /\ updates \in [DOMAIN updates -> AccountDelta]
  /\ rpc \subseteq RpcCall
  /\ dupRpc \in BOOLEAN

\* What the call returns, as the abstract contract sees it.
AbsResult ==
  CASE phase = "done"     -> updates
    [] phase = "failed"   -> Failed
    [] phase = "panicked" -> Panicked
    [] OTHER              -> Pending

Abs == INSTANCE AccountExtractor WITH result <- AbsResult

\* The batched extractor implements the AccountExtractor contract: the call
\* returns the code, balance and requested storage of every requested
\* address at the block, or an RPCError; never a partial or mixed-up map,
\* never a panic (chunking, the join, the slot batches and the pagination).
ImplementsAccountExtractor == Abs!Spec

\* Deduplication (spec 8.7): no RPC call is sent twice in one call, however
\* often a request is repeated and however the chunks and pages fall.
NoRedundantRpc == ~dupRpc

\* The call returns: every chunk, slot batch and storage page loop ends
\* (the debug_storageRangeAt cursor advances to an end).
Termination == <>(phase \in {"done", "failed", "panicked"})

=============================================================================
