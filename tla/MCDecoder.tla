------------------------------ MODULE MCDecoder ------------------------------
(* Block messages for the decoder: up to two TransactionChanges and two    *)
(* storage-changes entries, with indices that repeat and come out of       *)
(* order, registered and unregistered component types, and entity changes  *)
(* that exercise the collision and attribute rules (S1, S2), including an  *)
(* Unspecified change and a Deletion after an Update of one attribute.     *)
(* The other parts of a transaction change (contract changes, balance      *)
(* changes, entrypoints and their params) are decoded one transaction at a *)
(* time, so they vary in messages of one change: repeated addresses whose *)
(* token balances differ, repeated (component, token) balances, a          *)
(* component id that is no UTF-8, duplicate entrypoints and params with    *)
(* and without trace data.                                                 *)
EXTENDS Decoder

Upd(v) == [name |-> "x", change |-> "Update", value |-> v]
Del == [name |-> "x", change |-> "Deletion", value |-> 1]
Unspec == [name |-> "x", change |-> "Unspecified", value |-> 1]

Ent(attrs) == [cid |-> "c1", attrs |-> attrs]

MCEntitySeqs ==
  { <<>>,
    <<Ent(<<Upd(1)>>)>>,
    <<Ent(<<Upd(1)>>), Ent(<<Upd(2)>>)>>,
    <<Ent(<<Del>>), Ent(<<Upd(2)>>)>>,
    <<Ent(<<Unspec>>)>>,
    <<Ent(<<Upd(1), Del>>)>> }

CC(ch, slots, tokens) == [addr |-> "a1", change |-> ch, slots |-> slots, tokens |-> tokens]

CC2 == [addr |-> "a2", change |-> "Update", slots |-> {"s1"}, tokens |-> <<[token |-> "t1", bal |-> 2]>>]

TB(v) == [token |-> "t1", bal |-> v]

MCContractSeqs ==
  { <<>>,
    <<CC("Update", {"s1"}, <<TB(1)>>)>>,
    <<CC("Update", {"s1"}, <<TB(1)>>), CC("Creation", {}, <<>>)>>,
    <<CC("Update", {"s1"}, <<TB(1)>>), CC("Deletion", {}, <<TB(2)>>)>>,
    <<CC("Update", {"s1"}, <<TB(1)>>), CC2, CC("Creation", {}, <<>>)>>,
    <<CC("Unspecified", {}, <<>>)>> }

Bal(cid, v) == [cid |-> cid, token |-> "t1", bal |-> v]

MCBalanceSeqs ==
  { <<>>, <<Bal("c1", 1), Bal("c1", 2)>>, <<Bal("c1", 1), Bal("c2", 2)>>, <<Bal(BadUtf8, 1)>> }

MCEntryPointSeqs == { <<>>, <<[cid |-> "c1", ep |-> "e1"], [cid |-> "c1", ep |-> "e1"]>> }

Par(tr, cid) == [ep |-> "e1", trace |-> tr, cid |-> cid]

MCParamsSeqs == { <<>>, <<Par("r1", "c1"), Par("r1", None)>>, <<Par(NoTrace, "c1")>> }

\* Entity and component changes, the other parts empty.
MCChanges ==
  [tx: {NoTx, 1, 2}, components: {<<>>, <<"known">>, <<"unknown">>},
   contracts: {<<>>}, entities: MCEntitySeqs, balances: {<<>>},
   entrypoints: {<<>>}, params: {<<>>}]

\* Contract, balance and entrypoint changes, with a registered component.
MCRichChanges ==
  [tx: {NoTx, 1}, components: {<<"known">>}, contracts: MCContractSeqs,
   entities: {<<>>}, balances: MCBalanceSeqs, entrypoints: MCEntryPointSeqs,
   params: MCParamsSeqs]

St(tx) == [tx |-> tx, contracts |-> <<>>]

CS(a, slots) == [addr |-> a, slots |-> slots]

\* The last entry writes an address twice, another address between.
MCStorage ==
  {<<>>, <<St(1)>>, <<St(2), St(1)>>, <<St(NoTx)>>,
   <<[tx |-> 1, contracts |-> <<CS("a1", {"s1"}), CS("a2", {}), CS("a1", {})>>]>>}

MCMessages ==
  {[block |-> b, changes |-> <<>>, storage |-> <<>>] : b \in {"none", "bad_ts"}}
  \cup
  [block: {"ok"}, changes: SeqOf(MCChanges, 2), storage: MCStorage]
  \cup
  [block: {"ok"}, changes: {<<c>> : c \in MCRichChanges}, storage: {<<>>}]

====
