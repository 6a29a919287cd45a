------------------------------- MODULE Decoder -------------------------------
(***************************************************************************)
(* BlockChanges::try_from_message and the conversions it calls            *)
(* (tycho-indexer/src/extractor/protobuf_deserialisation.rs): a substreams *)
(* block message becomes a typed change-set, an ExtractionError, or a      *)
(* panic.  The decoder is a pure function; the module checks its outcomes  *)
(* on every message of a bounded set.  Data is abstracted to what the      *)
(* properties tell apart: a transaction is its index, a component is its   *)
(* protocol type name, an entity change is its component id and its       *)
(* attributes, a contract change its address, change type, slot keys and  *)
(* token balances, a balance change its component id, token and balance,  *)
(* an entrypoint its id, a storage-changes entry its transaction and the  *)
(* slots written per contract.                                            *)
(* Conversions that cannot fail (hashes, addresses, the Bytes of a         *)
(* balance, balance_float, which falls back to NaN) are left out; those    *)
(* that can fail keep their failure: the timestamp, the change type, the   *)
(* protocol type, the UTF-8 of a balance's component id and the trace data *)
(* of entrypoint params.                                                   *)
(***************************************************************************)
EXTENDS Integers, Sequences, SequencesExt

CONSTANTS
  TxIndex,     \* transaction indices that occur (Transaction.index)
  Cids,        \* component ids named by entity changes
  Names,       \* attribute names
  Vals,        \* attribute values
  TypeNames,   \* protocol type names that occur in component changes
  Registry,    \* the caller's protocol_types map (its keys)
  NoTx,        \* an absent optional tx field
  Addrs,       \* contract addresses of contract changes
  Slots,       \* storage slot keys
  Tokens,      \* token addresses of balance changes
  EntryPointIds, \* entrypoint ids
  Traces,      \* RPC trace data of entrypoint params
  BadUtf8,     \* a balance change's component_id bytes that are no UTF-8
  NoTrace,     \* an absent trace_data
  None,        \* an absent optional component_id
  Messages,    \* the block messages decoded
  Kinds        \* which of the three block message types they are sent as

ChangeTypes == {"Creation", "Update", "Deletion", "Unspecified"}

Attribute == [name: Names, change: ChangeTypes, value: Vals]

EntityChanges == [cid: Cids, attrs: Seq(Attribute)]

\* A ContractChange: each slot carries a value, which the properties do
\* not tell apart; token_balances are (token, balance) pairs.
ContractChange ==
  [addr: Addrs, change: ChangeTypes, slots: SUBSET Slots,
   tokens: Seq([token: Tokens, bal: Vals])]

BalanceChange == [cid: Cids \cup {BadUtf8}, token: Tokens, bal: Vals]

EntryPointMsg == [cid: Cids, ep: EntryPointIds]

EntryPointParamsMsg == [ep: EntryPointIds, trace: Traces \cup {NoTrace}, cid: Cids \cup {None}]

TransactionChanges ==
  [tx: TxIndex \cup {NoTx}, components: Seq(TypeNames),
   contracts: Seq(ContractChange), entities: Seq(EntityChanges),
   balances: Seq(BalanceChange), entrypoints: Seq(EntryPointMsg),
   params: Seq(EntryPointParamsMsg)]

\* A ContractStorageChanges: an address and the slots written (each with
\* a value the properties do not tell apart).
ContractStorageChanges == [addr: Addrs, slots: SUBSET Slots]

TransactionStorageChanges == [tx: TxIndex \cup {NoTx}, contracts: Seq(ContractStorageChanges)]

\* block: absent, with a timestamp that is no valid date, or valid.
BlockChangesMsg ==
  [block: {"none", "bad_ts", "ok"}, changes: Seq(TransactionChanges),
   storage: Seq(TransactionStorageChanges)]

ASSUME Messages \subseteq BlockChangesMsg

\* BlockChanges, BlockEntityChanges (protocol changes, no storage changes) and
\* BlockContractChanges (contract and component changes, no entity changes
\* and no storage changes), all as one record type.
MessageKinds == {"BlockChanges", "BlockEntityChanges", "BlockContractChanges"}

ASSUME Kinds \subseteq MessageKinds

\* The fields each message type has: TransactionEntityChanges has no
\* contract changes, TransactionContractChanges no entity changes, and
\* neither has entrypoints.
WellFormed(k, m) ==
  /\ k # "BlockChanges" => m.storage = <<>>
  /\ \A i \in 1..Len(m.changes) :
       LET c == m.changes[i] IN
       /\ k # "BlockChanges" => c.entrypoints = <<>> /\ c.params = <<>>
       /\ k = "BlockEntityChanges" => c.contracts = <<>>
       /\ k = "BlockContractChanges" => c.entities = <<>>

VARIABLES
  kind,  \* the message type
  msg,   \* the message handed to the decoder
  out    \* what try_from_message returned, or that it panicked

vars == <<kind, msg, out>>

Err(reason) == [err |-> reason]

IsErr(x) == "err" \in DOMAIN x

NoMap == [n \in {} |-> 0]

-----------------------------------------------------------------------------
(* The conversions.                                                        *)

\* ChangeType::try_from_message: Unspecified is a DecodeError.
ChangeTypeOf(c) == IF c = "Unspecified" THEN Err("DecodeError") ELSE [ok |-> c]

\* One attribute of ProtocolComponentStateDelta::try_from_message's loop.
ApplyAttribute(acc, a) ==
  LET ct == ChangeTypeOf(a.change)
  IN CASE IsErr(acc) \/ IsErr(ct) -> Err("DecodeError")
       [] ct.ok \in {"Update", "Creation"} ->
            [acc EXCEPT !.updated = (a.name :> a.value) @@ @]
       [] OTHER -> [acc EXCEPT !.deleted = @ \cup {a.name}]

DecodeStateDelta(e) ==
  FoldLeft(ApplyAttribute, [updated |-> NoMap, deleted |-> {}], e.attrs)

\* Mutant: the type name not looked up.
DecodeComponentUnchecked(t) == [type |-> t]

\* Block::try_from_message: the timestamp must make a valid date.
DecodeBlock(b) == IF b = "bad_ts" THEN Err("DecodeError") ELSE [ok |-> b]

\* ProtocolComponent::try_from_message: the type name must be registered.
DecodeComponent(t) ==
  IF t \in Registry THEN [type |-> t] ELSE Err("DecodeError")

\* AccountDelta::try_from_message: the change type must be known; every
\* slot of the message maps to Some(value).  (An empty balance or code
\* becomes None; the model leaves both out.)
DecodeAccountDelta(cc) ==
  LET ct == ChangeTypeOf(cc.change)
  IN IF IsErr(ct) THEN ct ELSE [change |-> ct.ok, slots |-> cc.slots]

\* String::from_utf8 of a balance change's component_id, as TxWithChanges
\* and ComponentBalance::try_from_message both do it.
ComponentIdOf(b) == IF b.cid = BadUtf8 THEN Err("DecodeError") ELSE [ok |-> b.cid]

\* Mutant: a missing trace_data taken as a default instead of an error.
DecodeTracingParamsLenient(p) == [ok |-> p.trace]

\* TracingParams::try_from_message: the trace_data must be present.
DecodeTracingParams(p) == IF p.trace = NoTrace THEN Err("DecodeError") ELSE [ok |-> p.trace]

\* Mutant: the state update inserted only when the component has none yet.
KeepFirstState(m, cid, d) == IF cid \in DOMAIN m THEN m ELSE (cid :> d) @@ m

\* state_updates.entry(..): a later delta for the same component
\* overwrites the earlier one (with a warning).
PutState(m, cid, d) == (cid :> d) @@ m

\* map.entry(k).or_default().insert(k2, v): the inner map of k, created
\* empty, takes v for k2, overwriting an earlier value.
PutNested(m, k, k2, v) ==
  (k :> ((k2 :> v) @@ (IF k \in DOMAIN m THEN m[k] ELSE NoMap))) @@ m

\* map.entry(k).or_default().insert(x) on a HashSet.
AddToSet(m, k, x) == (k :> ({x} \cup (IF k \in DOMAIN m THEN m[k] ELSE {}))) @@ m

\* Mutant: the account balances taken from the deduplicated account
\* updates (the last contract change of each address) instead of from
\* every contract change of the message.
AccountBalancesOfUpdates(ccs) ==
  LET kept == SelectSeq([i \in 1..Len(ccs) |-> i],
                        LAMBDA i : \A j \in i+1..Len(ccs) : ccs[j].addr # ccs[i].addr)
  IN FoldLeft(LAMBDA m, i :
                FoldLeft(LAMBDA m2, tb : PutNested(m2, ccs[i].addr, tb.token, tb.bal),
                         m, ccs[i].tokens),
              NoMap, kept)

\* The second loop over msg.contract_changes: every token balance of every
\* contract change, per (account, token), the later one overwriting.
AccountBalancesOf(ccs) ==
  FoldLeft(LAMBDA m, cc :
             FoldLeft(LAMBDA m2, tb : PutNested(m2, cc.addr, tb.token, tb.bal), m, cc.tokens),
           NoMap, ccs)

\* Some conversion of the change fails: a component type, a contract or
\* state change type, a balance's component id or the params' trace data.
\* Every such failure is a DecodeError, so their order does not matter.
TxFails(c) ==
  \/ \E i \in 1..Len(c.components) : IsErr(DecodeComponent(c.components[i]))
  \/ \E i \in 1..Len(c.contracts) : IsErr(DecodeAccountDelta(c.contracts[i]))
  \/ \E i \in 1..Len(c.entities) : IsErr(DecodeStateDelta(c.entities[i]))
  \/ \E i \in 1..Len(c.balances) : IsErr(ComponentIdOf(c.balances[i]))
  \/ \E i \in 1..Len(c.params) : IsErr(DecodeTracingParams(c.params[i]))

\* TxWithChanges::try_from_message for the change at position pos: the
\* components, account updates (last per address), state updates (last
\* per component), balance changes (last per component and token),
\* account balance changes (last per account and token), entrypoints
\* (a set per component) and entrypoint params (a set per entrypoint id),
\* each loop stopping at an error.
DecodeTxWithChanges(c, pos) ==
  IF TxFails(c) THEN Err("DecodeError")
  ELSE [pos |-> pos, index |-> c.tx,
        accounts |-> FoldLeft(LAMBDA m, cc : (cc.addr :> DecodeAccountDelta(cc)) @@ m,
                              NoMap, c.contracts),
        state |-> FoldLeft(LAMBDA m, e : PutState(m, e.cid, DecodeStateDelta(e)),
                           NoMap, c.entities),
        balances |-> FoldLeft(LAMBDA m, b : PutNested(m, b.cid, b.token, b.bal),
                              NoMap, c.balances),
        accountBalances |-> AccountBalancesOf(c.contracts),
        entrypoints |-> FoldLeft(LAMBDA m, e : AddToSet(m, e.cid, e.ep), NoMap, c.entrypoints),
        params |-> FoldLeft(LAMBDA m, p : AddToSet(m, p.ep, <<p.trace, p.cid>>),
                            NoMap, c.params)]

\* Mutant: a missing tx taken as a default instead of checked.
StorageTxUnchecked(s, pos) == [pos |-> pos, index |-> s.tx, storage |-> NoMap]

\* TxWithStorageChanges::try_from_message: msg.tx.expect(..) panics;
\* otherwise each contract's slots become a map that all_storage_changes
\* takes under its address, a later entry for the address replacing it.
DecodeTxWithStorageChanges(s, pos) ==
  IF s.tx = NoTx THEN Err("Panic")
  ELSE [pos |-> pos, index |-> s.tx,
        storage |-> FoldLeft(LAMBDA m, cs : (cs.addr :> cs.slots) @@ m, NoMap, s.contracts)]

\* sort_unstable_by_key(|u| u.tx.index): some permutation ordered by the
\* index; which one, among equal indices, the algorithm does not promise.
SortUnstableByKey(xs) ==
  { [i \in 1..Len(xs) |-> xs[p[i]]] :
      p \in { q \in Bijection(1..Len(xs), 1..Len(xs)) :
                IsSorted([i \in 1..Len(xs) |-> xs[q[i]]],
                         LAMBDA a, b : a.index <= b.index) } }

\* BlockChanges::try_from_message: the set of its possible outcomes.
DecodeBlockChanges(m) ==
  LET txs == [i \in 1..Len(m.changes) |-> DecodeTxWithChanges(m.changes[i], i)]
      storage == [i \in 1..Len(m.storage) |->
                    DecodeTxWithStorageChanges(m.storage[i], i)]
  IN CASE m.block = "none" -> {Err("Empty")}
       [] IsErr(DecodeBlock(m.block)) -> {Err("DecodeError")}
       [] \E i \in 1..Len(txs) : m.changes[i].tx = NoTx \/ IsErr(txs[i]) ->
            {Err("DecodeError")}
       [] \E i \in 1..Len(storage) : IsErr(storage[i]) -> {Err("Panic")}
       [] OTHER -> {[txs |-> t, storage |-> storage] : t \in SortUnstableByKey(txs)}

\* ProtocolChangesWithTx::try_from_message: components, then entity
\* changes with the overwrite on a repeated component id, then balance
\* changes, the later per (component, token) overwriting with a warning.
\* A TransactionEntityChanges has no contract changes or entrypoints, so
\* this is the conversion of TxWithChanges.
DecodeProtocolChangesWithTx(c, pos) == DecodeTxWithChanges(c, pos)

\* BlockEntityChanges::try_from_message: a change without tx is a
\* DecodeError; the updates are sorted the same way.
DecodeBlockEntityChanges(m) ==
  LET txs == [i \in 1..Len(m.changes) |-> DecodeProtocolChangesWithTx(m.changes[i], i)]
  IN CASE m.block = "none" -> {Err("Empty")}
       [] IsErr(DecodeBlock(m.block)) -> {Err("DecodeError")}
       [] \E i \in 1..Len(txs) : m.changes[i].tx = NoTx \/ IsErr(txs[i]) ->
            {Err("DecodeError")}
       [] OTHER -> {[txs |-> t, storage |-> <<>>] : t \in SortUnstableByKey(txs)}

\* The body of `if let Some(tx) = change.tx` in BlockContractChanges:
\* account updates, components checked against the registry, balance
\* changes and account balance changes, each as in TxWithChanges.  A
\* TransactionContractChanges has no entity changes or entrypoints.
DecodeTxContractChanges(c, pos) == DecodeTxWithChanges(c, pos)

\* BlockContractChanges::try_from_message: changes without tx are passed
\* over; the others are decoded and sorted.
DecodeBlockContractChanges(m) ==
  LET withTx == SelectSeq([i \in 1..Len(m.changes) |-> i],
                          LAMBDA i : m.changes[i].tx # NoTx)
      txs == [j \in 1..Len(withTx) |->
                DecodeTxContractChanges(m.changes[withTx[j]], withTx[j])]
  IN CASE m.block = "none" -> {Err("Empty")}
       [] IsErr(DecodeBlock(m.block)) -> {Err("DecodeError")}
       [] \E j \in 1..Len(txs) : IsErr(txs[j]) -> {Err("DecodeError")}
       [] OTHER -> {[txs |-> t, storage |-> <<>>] : t \in SortUnstableByKey(txs)}

-----------------------------------------------------------------------------
Init ==
  /\ kind \in Kinds
  /\ msg \in {m \in Messages : WellFormed(kind, m)}
  /\ out = Err("pending")

\* The conversion the caller invokes for a message of type k.
Outcomes(k, m) ==
  CASE k = "BlockChanges"         -> DecodeBlockChanges(m)
    [] k = "BlockEntityChanges"   -> DecodeBlockEntityChanges(m)
    [] k = "BlockContractChanges" -> DecodeBlockContractChanges(m)

DecodeMsg ==
  /\ out = Err("pending")
  /\ out' \in Outcomes(kind, msg)
  /\ UNCHANGED <<kind, msg>>

Next == DecodeMsg

\* The call returns.
Spec == Init /\ [][Next]_vars /\ WF_vars(Next)

-----------------------------------------------------------------------------
Decoded == "txs" \in DOMAIN out

IsDeltaOut(d) ==
  /\ DOMAIN d = {"updated", "deleted"}
  /\ DOMAIN d.updated \subseteq Names /\ \A n \in DOMAIN d.updated : d.updated[n] \in Vals
  /\ d.deleted \subseteq Names

IsMapOf(f, K, V) == DOMAIN f \subseteq K /\ \A k \in DOMAIN f : f[k] \in V

IsTxOut(t) ==
  /\ DOMAIN t = {"pos", "index", "accounts", "state", "balances", "accountBalances",
                 "entrypoints", "params"}
  /\ t.pos \in 1..Len(msg.changes) /\ t.index \in TxIndex
  /\ IsMapOf(t.accounts, Addrs, [change: {"Creation", "Update", "Deletion"}, slots: SUBSET Slots])
  /\ DOMAIN t.state \subseteq Cids /\ \A c \in DOMAIN t.state : IsDeltaOut(t.state[c])
  /\ DOMAIN t.balances \subseteq Cids
  /\ \A c \in DOMAIN t.balances : IsMapOf(t.balances[c], Tokens, Vals)
  /\ DOMAIN t.accountBalances \subseteq Addrs
  /\ \A a \in DOMAIN t.accountBalances : IsMapOf(t.accountBalances[a], Tokens, Vals)
  /\ IsMapOf(t.entrypoints, Cids, SUBSET EntryPointIds)
  /\ IsMapOf(t.params, EntryPointIds, SUBSET (Traces \X (Cids \cup {None})))

TypeOK ==
  /\ kind \in Kinds
  /\ msg \in Messages
  /\ \/ out \in [err: {"pending", "Empty", "DecodeError", "Panic"}]
     \/ /\ DOMAIN out = {"txs", "storage"}
        /\ Len(out.txs) <= Len(msg.changes) /\ \A i \in 1..Len(out.txs) : IsTxOut(out.txs[i])
        /\ \A i \in 1..Len(out.storage) :
             /\ DOMAIN out.storage[i] = {"pos", "index", "storage"}
             /\ out.storage[i].pos \in 1..Len(msg.storage) /\ out.storage[i].index \in TxIndex
             /\ IsMapOf(out.storage[i].storage, Addrs, SUBSET Slots)

\* A change without its transaction is a DecodeError (spec 4.2 step 3,
\* spec 7 "decoding is all-or-nothing"): a message with a valid block and a
\* transaction change or a storage-changes entry that misses its tx neither
\* decodes nor panics, whatever its type.
MissesTx(m) ==
  \/ \E i \in 1..Len(m.changes) : m.changes[i].tx = NoTx
  \/ \E i \in 1..Len(m.storage) : m.storage[i].tx = NoTx

MissingTxRejected ==
  msg.block = "ok" /\ MissesTx(msg) => out \in {Err("pending"), Err("DecodeError")}

\* Order preservation (spec 8.1, second half, and spec 4.2 step 5): updates
\* with equal tx.index keep the order of the message ("the sort is
\* stable"), and block_storage_changes are ordered by tx.index as well.
\* The code sorts the updates with sort_unstable_by_key and passes the
\* storage changes on in message order.
SortedStably ==
  Decoded =>
    /\ \A i, j \in 1..Len(out.txs) :
         i < j /\ out.txs[i].index = out.txs[j].index => out.txs[i].pos < out.txs[j].pos
    /\ IsSorted(out.storage, LAMBDA a, b : a.index <= b.index)

\* Collision resolution (spec 8.2, scenarios S1 and S2): in every decoded
\* transaction, a component's state update is the decoding of the LAST
\* entity change for that component, and no component without an entity
\* change has one.
LastEntityChange(c, cid) ==
  LET es == SelectSeq(c.entities, LAMBDA e : e.cid = cid)
  IN IF es = <<>> THEN Err("none") ELSE DecodeStateDelta(es[Len(es)])

CollisionLastWins ==
  Decoded =>
    \A i \in 1..Len(out.txs), cid \in Cids :
      LET last == LastEntityChange(msg.changes[out.txs[i].pos], cid)
      IN IF IsErr(last) THEN cid \notin DOMAIN out.txs[i].state
         ELSE cid \in DOMAIN out.txs[i].state /\ out.txs[i].state[cid] = last

\* Registry enforcement (spec 8.3) and all-or-nothing decoding (spec 7):
\* a component whose protocol type is not in the registry, a contract or
\* state change of type Unspecified, a balance change whose component id
\* is no UTF-8 and entrypoint params without trace data each fail the
\* whole block with a DecodeError, in whichever transaction they are.
\* (Changes without a transaction are the concern of MissingTxRejected.)
Malformed(c) ==
  \/ \E t \in ToSet(c.components) : t \notin Registry
  \/ \E cc \in ToSet(c.contracts) : cc.change = "Unspecified"
  \/ \E e \in ToSet(c.entities) : \E a \in ToSet(e.attrs) : a.change = "Unspecified"
  \/ \E b \in ToSet(c.balances) : b.cid = BadUtf8
  \/ \E p \in ToSet(c.params) : p.trace = NoTrace

MalformedChangeRejected ==
  (/\ msg.block = "ok"
   /\ \E i \in 1..Len(msg.changes) : msg.changes[i].tx # NoTx /\ Malformed(msg.changes[i]))
  => out \in {Err("pending"), Err("DecodeError")}

\* The per-transaction aggregate (spec 3, TxWithChanges; spec 4.2 step 3):
\* in every decoded transaction the account delta of an address is the
\* decoding of its LAST contract change; the balance of a (component,
\* token) is the last balance change for it; the balance of an (account,
\* token) is the last token balance for it over ALL the contract changes
\* of the account, including those whose delta a later one replaced; the
\* entrypoints of a component and the params of an entrypoint id are all
\* those the message lists for it.  In a block's storage changes, the
\* slots of an address are those of its last entry in the transaction.
LastOf(s, Test(_)) == LET t == SelectSeq(s, Test) IN t[Len(t)]

AggregatesByKey ==
  Decoded =>
  /\ \A k \in 1..Len(out.storage) :
       LET cs == msg.storage[out.storage[k].pos].contracts
       IN out.storage[k].storage =
            [a \in {x.addr : x \in ToSet(cs)} |-> LastOf(cs, LAMBDA x : x.addr = a).slots]
  /\ \A i \in 1..Len(out.txs) :
      LET t == out.txs[i]
          c == msg.changes[t.pos]
          tbs == FlattenSeq([k \in 1..Len(c.contracts) |->
                   [l \in 1..Len(c.contracts[k].tokens) |->
                      [addr |-> c.contracts[k].addr] @@ c.contracts[k].tokens[l]]])
      IN /\ DOMAIN t.accounts = {cc.addr : cc \in ToSet(c.contracts)}
         /\ \A a \in DOMAIN t.accounts :
              LET last == LastOf(c.contracts, LAMBDA cc : cc.addr = a)
              IN t.accounts[a] = [change |-> last.change, slots |-> last.slots]
         /\ DOMAIN t.balances = {b.cid : b \in ToSet(c.balances)}
         /\ \A k \in DOMAIN t.balances :
              /\ DOMAIN t.balances[k] = {b.token : b \in ToSet(SelectSeq(c.balances, LAMBDA b : b.cid = k))}
              /\ \A tok \in DOMAIN t.balances[k] :
                   t.balances[k][tok] = LastOf(c.balances, LAMBDA b : b.cid = k /\ b.token = tok).bal
         /\ DOMAIN t.accountBalances = {x.addr : x \in ToSet(tbs)}
         /\ \A a \in DOMAIN t.accountBalances :
              /\ DOMAIN t.accountBalances[a] = {x.token : x \in ToSet(SelectSeq(tbs, LAMBDA x : x.addr = a))}
              /\ \A tok \in DOMAIN t.accountBalances[a] :
                   t.accountBalances[a][tok] = LastOf(tbs, LAMBDA x : x.addr = a /\ x.token = tok).bal
         /\ t.entrypoints = [k \in {e.cid : e \in ToSet(c.entrypoints)} |->
                               {e.ep : e \in ToSet(SelectSeq(c.entrypoints, LAMBDA e : e.cid = k))}]
         /\ t.params = [k \in {p.ep : p \in ToSet(c.params)} |->
                          {<<p.trace, p.cid>> : p \in ToSet(SelectSeq(c.params, LAMBDA p : p.ep = k))}]

\* A ProtocolComponentStateDelta's updated and deleted attributes are
\* disjoint (spec 3, ProtocolComponentStateDelta).
DeltaAttributesDisjoint ==
  Decoded =>
    \A i \in 1..Len(out.txs) : \A cid \in DOMAIN out.txs[i].state :
      DOMAIN out.txs[i].state[cid].updated \cap out.txs[i].state[cid].deleted = {}

====
