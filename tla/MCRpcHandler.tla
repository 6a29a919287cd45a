---------------------------- MODULE MCRpcHandler ----------------------------
(***************************************************************************)
(* The contract-state handler for TLC: one chain, a block known by hash    *)
(* h1, another by number n1, a timestamp t1, each with its own stored      *)
(* accounts, and a number n2 the gateway does not hold.                    *)
(***************************************************************************)
EXTENDS RpcHandler, TLC

CONSTANTS eth, h1, n1, n2, t1, a1, a2, A1h, A2h, A1n, A1t

\* Every version a request can resolve to that the gateway holds, each
\* with different contents so that picking the wrong one shows.
MCDbAt ==
  (<<eth, [hash |-> h1]>> :> (a1 :> A1h @@ a2 :> A2h)) @@
  (<<eth, [number |-> <<eth, n1>>]>> :> (a1 :> A1n)) @@
  (<<eth, [timestamp |-> t1]>> :> (a1 :> A1t))

\* contract_ids: absent, empty, or one id.
MCContractIds == {None, <<>>, <<a1>>}

MCRequests ==
  [chain: Chains,
   body: [contract_ids: MCContractIds, version: VersionParams]]

=============================================================================
