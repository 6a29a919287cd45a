------------------------ MODULE MCContractStateQuery ------------------------
(***************************************************************************)
(* The client against the handler, with the gateway and requests of        *)
(* MCRpcHandler.                                                           *)
(***************************************************************************)
EXTENDS ContractStateQuery, TLC

CONSTANTS eth, h1, n1, n2, t1, a1, a2, A1h, A2h, A1n, A1t

\* As in MCRpcHandler: three held versions with different contents.
MCDbAt ==
  (<<eth, [hash |-> h1]>> :> (a1 :> A1h @@ a2 :> A2h)) @@
  (<<eth, [number |-> <<eth, n1>>]>> :> (a1 :> A1n)) @@
  (<<eth, [timestamp |-> t1]>> :> (a1 :> A1t))

\* The requests of MCRpcHandler, VersionParams spelt out.
MCRequests ==
  LET block == [hash: Hashes \cup {None}, chain: Chains \cup {None},
                number: Numbers \cup {None}]
  IN [chain: Chains,
      body: [contract_ids: {None, <<>>, <<a1>>},
             version: [timestamp: Timestamps \cup {None}, block: block \cup {None}]]]

=============================================================================
