# TLA+ models of tycho-indexer

This directory holds TLA+ models of the concurrent and order-sensitive parts of
tycho-indexer. TLC checks them.

## The system

Per `spec.md`, the system has these parts:

| Part | Source | What it does |
|---|---|---|
| Account extractor | `src/tycho-ethereum/src/account_extractor/contract.rs` | Snapshots accounts (code, balance, storage) at a block over JSON-RPC. There are two implementations of the `AccountExtractor` trait: `EVMAccountExtractor` (single calls) and `EVMBatchAccountExtractor` (JSON-RPC batches). |
| Message decoder | `src/tycho-indexer/src/extractor/protobuf_deserialisation.rs` | Turns a substreams block message into a typed change-set (`BlockChanges` and older variants). It sorts transactions, resolves collisions and checks protocol types against a registry. |
| Realtime client | `src/tycho-client/src/lib.rs`, `realtime_messages` | A spawned task holds a websocket. It subscribes to the default extractor and forwards `BlockAccountChanges` into a bounded mpsc channel read by the consumer. It keeps a map of active subscriptions. |
| HTTP client | `src/tycho-client/src/lib.rs`, `get_contract_state` | POSTs a `StateRequestBody` to the contract-state endpoint and parses the answer. |
| RPC service | `src/tycho-indexer/src/services/rpc.rs` | The contract-state endpoint. It checks a connection out of a shared pool, resolves the version parameter to a block or timestamp, and reads the contracts through the database gateway. |
| Simulation interface | `src/tycho-common/src/simulation/protocol_sim.rs` | The `ProtocolSim` trait. |

How the parts interact: substreams messages go through the decoder and then to persistence. Ingestion calls the extractor for snapshots. Realtime subscribers receive account changes from the server. The HTTP client calls the RPC service's contract-state endpoint. The realtime client is independent of both.

## Modules

### `ExtractorTypes`

Shared data of the extractor models:
- addresses and slots;
- a node state (code, balance, storage per address);
- `StorageSnapshotRequest`, where slots is `None` (full dump) or a list;
- `AccountDelta`, where a slot is a value, `Cleared` (the `None` of a zero word) or `Absent`;
- `<[T]>::chunks` (`ChunkOf`, `NumChunks`);
- `NumberViews`: the chain the node serves when a call names the block by number (`BlockId::from(block.number)`, line 51; `BlockNumberOrTag::from(block.number)`, lines 213, 227 and 294). Without reorgs (`Reorgs = FALSE`) this is the block itself. After a reorg of that height it may be any chain state. Both extractor models hold it in `atNumber`, next to `node`, the chain at the block's hash that `debug_storageRangeAt` reads (lines 99 and 364).

### `AccountExtractor`: the abstract contract (spec 4.3)

A call either returns the expected map or fails with an RPC error. Nothing else.

The expected map comes from `Expected`. It has one delta per requested address, with that address's code and balance.

Slots are merged over all requests for the address:
- a listed slot is `Cleared` if it is zero, else its value;
- if some request asks for a full dump, every non-zero slot is included.

The trait is declared outside `src/`, so this module is written from the spec.

### `BatchAccountExtractor`: `EVMBatchAccountExtractor::get_accounts_at_block`

The module models one call as the task that polls it. The step sequence is:

1. `Start`: the HashSet dedup (lines 405-411), in any iteration order.
2. For each chunk of `MaxBatchSize`, `FetchCodeAndBalance`: one batch of `eth_getCode` and `eth_getBalance` (lines 198-272). The batch fails as a whole or answers every call.
3. One `StorageFuture` per request of the chunk. The futures interleave as `try_join_all` polls them:
   - `FetchSlotBatch(i)` sends one batch of at most `StorageMaxBatchSize` `eth_getStorageAt` calls (lines 286-312). It then collects the answers (lines 314-331) with `Collect`. `Collect` reads the pinned Waiters of one vector that is shared across batches from index 0, exactly as the code indexes `storage_requests`. Awaiting a Waiter that already completed panics (the `taken` flag).
   - `FetchStorageRange(i)` fetches one page of `debug_storageRangeAt` and follows `next_key` (lines 348-391).
4. When every future is `ok`, `AssembleChunk` inserts the deltas in chunk order (lines 439-462). Any RPC failure ends the call with `failed`.

Further details:
- `rpc` and `dupRpc` are history variables that record the calls issued.
- `AbsResult` maps the phase and `updates` to the contract's result. `Abs == INSTANCE AccountExtractor WITH result <- AbsResult` is the refinement mapping.

### `MCBatchAccountExtractor`

Input sets for the extractor runs:
- `MCSameAddressSameRequest`: repeats of one request per address.
- `MCConflictingRequests`: one address with different slot lists.
- `MCLongSlotLists`: slot lists longer than one batch.

### `SingleAccountExtractor`: `EVMAccountExtractor::get_accounts_at_block`

The single-call variant runs sequentially:

1. `FetchCodeAndBalance` fetches the balances and codes of all requests under `tokio::join!` of two `try_join_all` (lines 52-81). An error of either join fails the call.
2. For each request in turn, `FetchStorageRange` fetches one `debug_storageRangeAt` page (lines 134-167). `NextPage` follows `next_key`.
3. `FinishAccount` inserts the delta and resets `all_slots` and `start_key` for the next request.

A request's slot list only produces a warning (lines 91-97), so `FullDumps` reads every request as `slots = None`. `Abs == INSTANCE AccountExtractor WITH requests <- FullDumps(requests), result <- AbsResult` checks the variant against the contract for the fallback that spec 4.3.a documents. Requests are not deduplicated, so a repeated address is fetched again and inserted again.

`MCSingleAccountExtractor` enumerates every sequence of up to two requests (full dump, `Some([])`, `Some([1])`) over two addresses.

### `RealtimeClient`: the task of `realtime_messages`

The module has three actors.

The **task** is modelled as it runs:
- `Connect`: `expect` panics on failure.
- `SendSubscribe`: a failure is only logged.
- Then one action per arm of the receive loop:
  - `OnBlockAccountChanges`: `tx.send` appends, blocks when the buffer is full (`ResumeSend` finishes it), or panics when the Receiver is gone.
  - `OnNewSubscription`.
  - `OnSubscriptionEnded`: panics on an unknown id.
  - `OnPing`: the Pong `unwrap` panics once the socket is gone.
  - `OnClose`: drops the Sender and returns.
  - `OnIgnored`: deserialisation errors, Pong, other frames and transport errors.
  - `EndOfStream`.

The **consumer** calls `Recv` or drops the Receiver (`DropReceiver`).

The **server** follows the protocol:
- It answers a Subscribe with `NewSubscription`.
- It pushes data only while a subscription is live.
- It may end subscriptions, ping, send other frames, close, or drop the socket at any time.

`toClient` and `toServer` are the ordered streams of the socket. `sentData` and `consumed` are histories.

### `Decoder`: `BlockChanges`, `BlockEntityChanges`, `BlockContractChanges`

The decoder is a pure function, so the module checks it on every message of a bounded set:
- `Init` picks a message type (`kind`) and a message of that type. `WellFormed` says which fields the type has: only `BlockChanges` has storage changes and entrypoints, `BlockEntityChanges` has no contract changes, and `BlockContractChanges` has no entity changes.
- `DecodeMsg` sets `out` to one of the outcomes of the type's conversion.

The three conversions:
- `DecodeBlockChanges` is described below.
- `DecodeBlockEntityChanges` (lines 573-623) is the same without storage changes.
- `DecodeBlockContractChanges` (lines 466-571) decodes only the changes that carry a tx (`if let Some(tx)`) and passes over the others.

`DecodeBlockChanges` follows the code's order:
1. A missing block gives `Empty`.
2. A bad timestamp gives `DecodeError`.
3. Each transaction change is decoded; the code's `ok_or_else` turns a missing tx into `DecodeError`. `DecodeTxWithChanges` (lines 337-464) builds every map of `TxWithChanges`:
   - components, checked against the registry (`DecodeComponent`);
   - account deltas, the last `ContractChange` per address (`DecodeAccountDelta`, lines 35-54: the change type must be known, every slot becomes `Some`);
   - state updates, attribute by attribute (`ChangeTypeOf`, `ApplyAttribute`), with `PutState` as the `entry` overwrite;
   - component balances per (component, token), after the UTF-8 check of the component id (`ComponentIdOf`, `PutNested`);
   - account balances per (account, token), from a second loop over every contract change (`AccountBalancesOf`);
   - entrypoints per component and params per entrypoint id, as sets (`AddToSet`); params without trace data fail (`DecodeTracingParams`).
   `TxFails` collects the conversions that can fail; each fails with `DecodeError`, so their order in the code does not change the outcome.
4. Then the storage changes: the `expect` turns a missing tx into a panic. Otherwise each entry's slots are taken under their address, and a later entry for the address replaces the whole map (`DecodeTxWithStorageChanges`, lines 625-648).
5. Then the sort.

`sort_unstable_by_key` is modelled as every permutation that is ordered by index, because the sort promises nothing about the order of equal indices.

Data is abstracted:
- a transaction is its index;
- a component is its type name;
- an entity change is a component id and attributes;
- a contract change is an address, a change type, its slot keys and its token balances (slot values, code and the balance bytes are left out);
- an entrypoint is its id;
- a storage-changes entry is its tx and, per contract, the set of slots written.

`ProtocolChangesWithTx` and the body of `BlockContractChanges`' loop are the same conversion on messages that lack the other fields.

### `MCDecoder`

The message set: up to two transaction changes and two storage entries. Indices repeat and come in both orders. Component types are registered and unregistered. The entity changes cover scenarios S1 and S2, an `Unspecified` change, and an Update followed by a Deletion of one attribute.

Contract changes, balance changes, entrypoints and params are decoded one transaction at a time, so they vary in messages of a single change (`MCRichChanges`). These cover:
- two contract changes for one address, the second with or without token balances, the same with another address between them, and an `Unspecified` one;
- two balances for one (component, token), balances of two components, and a component id that is no UTF-8;
- a duplicate entrypoint;
- params with and without a component id, and params without trace data.

### `RpcHandler`: `contract_state` and `RpcHandler` (rpc.rs)

The server side of the contract-state query. Several callers are served concurrently.

State, per caller:
- `srv`: idle, waiting in `pool.get()`, holding a connection, or done;
- `req`: the (path chain, body) it sent;
- `reply`: the `HttpResponse`. A 500 also records the cause that `error!` logs; its body is empty.

Shared state:
- `waiters`: the FIFO of the pool's semaphore;
- `free`: the connections left.

This pool bookkeeping is deadpool's, and the release is Rust dropping the connection. It is modelled only so that handlers interleave; no property is stated about it.

Actions:
1. `Arrive` (lines 184-194): actix calls `contract_state`, which awaits `pool.get()`.
2. `GetConn` (line 122): the oldest waiter takes a connection. A failure to create one returns `RpcError::Connection` and gives the permit back.
3. `Query` (lines 124-170 and the reply, 196-202) does three things:
   - `ResolveVersion` (lines 78-100): a parse error returns at once;
   - otherwise it reads `GetContracts`;
   - it answers, and drops the connection back into the pool.

The database gateway is outside `src/`. It is a constant `DbAt` from (chain, version) to the accounts stored there. A version it does not hold is a storage error, and any read may fail.

### `ContractStateQuery`: the HTTP client against the handler

It instances `RpcHandler` and adds `TychoHttpClientImpl::get_contract_state` (lib.rs 59-113):
- `Call` builds the URI, as path segments `ClientPath` with the filters' chain in the query, and POSTs the body.
- `Route` hands the request to `Arrive` only on the handler's route `/v1/{execution_env}/contract_state` (`Routes`, rpc.rs 175 and 185). Any other path gets a 404 with an empty body.
- `Lose`: the request or its response is lost (`HttpClient`).
- `Receive` reads the body and parses it whatever the status. A failed body read is `ParseResponse`.

### `MCRpcHandler`, `MCContractStateQuery`

One chain and two addresses. The gateway holds:
- a block by hash `h1`;
- a block by number `n1`;
- a timestamp `t1`.

Each has different contents, so reading the wrong version shows. Number `n2` is not held. Requests cover every `VersionParam` over these values, with `contract_ids` absent, empty, or `[a1]`.

## Runs

| Run | Config | Expect | What it shows |
|---|---|---|---|
| batch_extractor | `BatchExtractor.cfg` | pass | `ImplementsAccountExtractor` (the batched extractor refines the contract), `NoRedundantRpc` (spec 8.7: no RPC call twice) and `Termination` (the pagination ends), for repeated identical requests over 2 addresses, chunks of 1, slot batches of 2 and pages of 1 slot. |
| batch_slot_chunks | `BatchSlotChunks.cfg` | violation | A 2-slot list with `StorageMaxBatchSize = 1` makes the second batch await the first batch's Waiters: the call panics (finding below). |
| batch_conflicting_requests | `BatchConflictingRequests.cfg` | violation | `[a1, None]` and `[a1, Some([])]` both survive dedup. The HashSet order decides which delta `updates.insert` keeps, and the full dump can be lost. |
| realtime_client | `RealtimeClient.cfg` | pass | See below. |
| single_extractor | `SingleExtractor.cfg` | pass | `ImplementsFullDumpContract`: the single-call extractor returns the full storage, code and balance of each requested address across pages, or fails. `Termination`: it always returns. |
| single_extractor_reorg | `SingleExtractorReorg.cfg` | violation | With `Reorgs = TRUE`, code and balance come from the chain at the block's number while storage comes from the block's hash, so the contract is violated (finding 8). |
| decoder | `Decoder.cfg` | pass | For all three message types, the last delta per component wins (8.2, S1, S2). `AggregatesByKey`: the other maps hold, per key, the last account delta, the last balance per token (for an account, over all its contract changes), every entrypoint and param, and per address the slots of its last storage entry. `MalformedChangeRejected`: an unregistered type (8.3), an `Unspecified` change, a non-UTF-8 component id, or params without trace data fail the whole block. |
| decoder_missing_tx | `DecoderMissingTxRejected.cfg` | violation | `MissingTxRejected` (spec 4.2 step 3): a change without its tx must be a `DecodeError`. `BlockContractChanges` drops such a change and decodes the rest (finding 7). A storage entry without tx panics (finding 6). |
| decoder_sorted_stably | `DecoderSortedStably.cfg` | violation | `SortedStably` (the rest of spec 8.1). Equal indices can be swapped (finding 3), and `block_storage_changes` are never sorted (finding 4). |
| decoder_delta_disjoint | `DecoderDeltaAttributesDisjoint.cfg` | violation | Update then Deletion of one attribute puts it in both sets. |
| rpc_handler | `RpcHandler.cfg` | pass | Two callers share a pool of one connection; 128k distinct states. `AnswerIsStateAtVersion`: every 200 is the stored state at the version spec 6 resolves (`SpecResolve`, written from the spec's text; S6 included), restricted to the requested ids. |
| contract_state_query | `ContractStateQuery.cfg` | violation | `ServedWhenNothingFails`: a call meeting no failure, for a version the gateway holds, must return the accounts. It ends in `ParseResponse` because the client's path misses the handler's route (finding 9). |

The realtime_client run checks three properties:
- `DeliveredInOrder` (spec 8.8): the consumer sees a prefix of what the server sent. While the Sender and Receiver both live, nothing is lost.
- `SubscriptionsAgree`: the active set, updated by the responses in flight, equals the server's live subscriptions.
- `EveryBlockDelivered`: every sent block is consumed unless the task panicked or the Receiver was dropped. A Close keeps what is buffered.

This run uses a channel of capacity 1 (so that the task blocks), 2 data frames, 1 ping, 1 other frame and 1 subscription id.

For the two merged decoder properties, each defect was also checked on its own. On a scratch copy, an invariant for each half was violated.

When the client's path is given the chain segment the route expects, `ServedWhenNothingFails` holds (1.6M distinct states). The contract_state_query violation is therefore due to the path alone.

Each property of a passing run has a mutant in `PROJECT.json`. A mutant is a plausible bug in a mapped definition, and TLC finds it:
- swapped code and balance;
- a zero word kept;
- no dedup;
- a stuck cursor (in both extractors);
- `all_slots` kept across accounts;
- an unbounded channel;
- `try_send`;
- an end of subscription that does not remove;
- a resumed send that loses its message;
- an unchecked storage tx;
- no sort;
- a first-wins insert;
- no registry check;
- a timestamp preferred over the block;
- a pool permit taken without one free;
- a failed connection creation that keeps its permit;
- a parse-error return that keeps its connection.

## Bounds

- **Extractor:** two addresses and two slots allow different slot lists, a full dump that spans two pages (page limit 1) and two chunks (chunk size 1). This reaches every boundary of the batch and chunk arithmetic at sizes 1 and 2.
- **Realtime client:** capacity 1 fills the channel with the second data frame. One ping and one other frame reach every arm.
- **RPC handler:** two callers on one connection are the least that make a handler wait in the pool behind another. Three callers on two connections (every request shape for each) do not finish within the five minutes a run is allowed, so handlers interleave over one permit only. Every `VersionParam` shape over one hash, two numbers (one unknown) and one timestamp covers every arm of the resolution and the `NotFound` path.
- **Decoder:** sequences of length two are the least that can be out of order, collide or repeat an index.

## Fairness

- **Extractor:** weak fairness on steps without an RPC failure, because the runtime keeps polling the future and the node keeps answering. Failures get no fairness.
- **Realtime client:**
  - The task step is weakly fair because tokio polls a ready task.
  - The consumer's `Recv` is weakly fair because the consumer loops on `recv()`.
  - The server reading its socket is weakly fair.
  - The server is not obliged to push, ping or close.
- **Decoder:** `Decode` is weakly fair.
- **RPC handler:** none. The run checks only invariants, and the queueing and release of connections are deadpool's and Rust's drop, not this handler's code.
- **Contract-state query:** `Route`, `Serve` and `Receive` are weakly fair per caller; transport loss is not.

## Findings

1. **contract.rs:315 (code bug).** `storage_requests` is declared outside the slot-batch loop and read from index 0 in every batch. With more than `storage_max_batch_size` slots, the second batch re-awaits completed Waiters and the call panics.
2. **contract.rs:461.** Requests that differ only in their slots are not merged. Which one wins depends on HashSet order.
3. **protobuf_deserialisation.rs:681.** The transaction sort is unstable.
4. **protobuf_deserialisation.rs:683.** Storage changes are not sorted.
5. **protobuf_deserialisation.rs:210.** Updated and deleted attributes can overlap.
6. **protobuf_deserialisation.rs:632.** A storage entry without tx panics.
7. **protobuf_deserialisation.rs:493.** `BlockContractChanges` silently drops a change without tx. Spec 4.2 asks for `DecodeError`, which the other two paths return.
8. **contract.rs:51 (and 213/227/294 in the batched variant).** Code and balance (and `eth_getStorageAt`) name the block by number; `debug_storageRangeAt` names it by hash. If the height is reorged on the node, one `AccountDelta` mixes two blocks. Spec section 1 promises "a consistent snapshot ... at a given block". The check is made on the single-call variant. The batched model reads the same `atNumber` view, but all its runs keep `Reorgs = FALSE`.

9. **lib.rs:78 against rpc.rs:175/185.** The client posts to `{base}/v1/contract_state?chain=…`, as spec 6 and `rpc.rs`'s own `test_msg` endpoint say. The handler is declared on `/v1/{execution_env}/contract_state` and extracts `web::Path<Chain>`. A call through `TychoHttpClientImpl` never reaches the handler. The client parses the body without looking at the status, so the empty 404 (like any 500) surfaces as `ParseResponse`.

## Not modelled (yet) and plan

- **A reorg in the middle of a call.** `atNumber` is chosen once per call. A view that changes between two by-number calls (e.g. balance before, code after the reorg) is not modelled. It would add no new violation beyond finding 8.
- **Decoder data.** Slot values, code, the balance bytes and `balance_float` (NaN on overflow, spec 9) are carried by no property, so they are left out.
- **Error kinds across HTTP.** A 500 carries no body, so the client cannot tell a storage error from a parse error. This is a hazard in `PROJECT.json` without its own run.
- **Chains in the query.** `Block(Number((chain, number)))` takes the chain from the version, while `get_contracts` reads the path's chain, and the contract ids' chains are dropped. What the gateway makes of a mix is storage code outside `src/`, so the model has one chain.
- **`EVMAccountExtractor::get_block_data`** (contract.rs 169-184). It is one RPC read outside the extraction. It panics on a block the node lacks, and it tags every block `Chain::Ethereum`. This is a hazard in `PROJECT.json`.
- **The dto/model `From` conversions** in rpc.rs rename enum variants and copy fields.
- **`ProtocolSim`.** A trait; `GetAmountOutResult::aggregate` is two assignments.
- **The codec.** It is outside `src/`.
