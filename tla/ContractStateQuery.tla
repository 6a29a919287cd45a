-------------------------- MODULE ContractStateQuery --------------------------
(***************************************************************************)
(* TychoHttpClientImpl::get_contract_state (tycho-client, lib.rs) against  *)
(* the contract-state handler of RpcHandler.  Each caller makes one call:  *)
(* the client POSTs the body to "{base}/v1/contract_state?{filters}"; the  *)
(* server's router hands a request to contract_state only on the route     *)
(* "/v1/{execution_env}/contract_state", whose Path<Chain> it extracts,    *)
(* and answers any other path 404 with an empty body.  The client does not *)
(* look at the status: it reads the body and parses it as a               *)
(* StateRequestResponse.  Either leg of the HTTP exchange may be lost.     *)
(***************************************************************************)
EXTENDS Naturals, Sequences

CONSTANTS Callers, PoolSize, Chains, Hashes, Numbers, Timestamps, Addrs,
          None, Requests, DbAt

VARIABLES
  srv, req, waiters, free, reply,  \* the handler, as in RpcHandler
  cpc,         \* per caller: idle | sent | done
  creq,        \* the (filters.chain, body) of the call
  sent,        \* the HTTP request on the wire: path, query and body
  lost,        \* the transport failed on this call
  result       \* what get_contract_state returned

H == INSTANCE RpcHandler

vars == <<srv, req, waiters, free, reply, cpc, creq, sent, lost, result>>

\* The URI the client builds (lines 78-84), as path segments: the base URI
\* is the server's origin and TYCHO_SERVER_VERSION is "v1"; the chain of
\* the filters goes into the query string.
ClientPath == <<"v1", "contract_state">>

\* The route contract_state is declared on (rpc.rs line 175), whose
\* execution_env segment web::Path<Chain> extracts.
Routes(path) ==
  Len(path) = 3 /\ path[1] = "v1" /\ path[2] \in Chains /\ path[3] = "contract_state"

IsOk(x) == "ok" \in DOMAIN x

-----------------------------------------------------------------------------
Init ==
  /\ H!Init
  /\ cpc = [c \in Callers |-> "idle"]
  /\ creq = [c \in Callers |-> None]
  /\ sent = [c \in Callers |-> None]
  /\ lost = [c \in Callers |-> FALSE]
  /\ result = [c \in Callers |-> None]

\* get_contract_state up to http_client.request(req): the warning on
\* missing ids, the URI, the JSON body and the POST.
Call(c) ==
  /\ cpc[c] = "idle"
  /\ \E r \in Requests :
       /\ creq' = [creq EXCEPT ![c] = r]
       /\ sent' = [sent EXCEPT ![c] = [path |-> ClientPath, query |-> r.chain, body |-> r.body]]
  /\ cpc' = [cpc EXCEPT ![c] = "sent"]
  /\ UNCHANGED <<srv, req, waiters, free, reply, lost, result>>

\* The server receives the POST: contract_state on its route, else a 404.
Route(c) ==
  /\ sent[c] # None /\ srv[c] = "idle" /\ reply[c] = None
  /\ LET m == sent[c] IN
       IF Routes(m.path)
       THEN /\ H!Arrive(c)
            /\ req'[c] = [chain |-> m.path[2], body |-> m.body]
       ELSE /\ reply' = [reply EXCEPT ![c] = [status |-> 404]]
            /\ UNCHANGED <<srv, req, waiters, free>>
  /\ UNCHANGED <<cpc, creq, sent, lost, result>>

Serve(c) ==
  /\ H!GetConn(c) \/ H!Query(c)
  /\ UNCHANGED <<cpc, creq, sent, lost, result>>

\* request(req).await fails: the request or its response is lost.
Lose(c) ==
  /\ cpc[c] = "sent"
  /\ lost' = [lost EXCEPT ![c] = TRUE]
  /\ result' = [result EXCEPT ![c] = [err |-> "HttpClient"]]
  /\ cpc' = [cpc EXCEPT ![c] = "done"]
  /\ UNCHANGED <<srv, req, waiters, free, reply, creq, sent>>

\* The response arrives: to_bytes of its body, then serde_json::from_slice
\* as a StateRequestResponse, whatever the status.  Only a 200 has a body
\* that parses; reading the body may fail on the wire.
Receive(c) ==
  /\ cpc[c] = "sent" /\ reply[c] # None
  /\ \/ /\ lost' = [lost EXCEPT ![c] = TRUE]
        /\ result' = [result EXCEPT ![c] = [err |-> "ParseResponse"]]
     \/ /\ result' = [result EXCEPT ![c] =
                        IF reply[c].status = 200 THEN [ok |-> reply[c].accounts]
                        ELSE [err |-> "ParseResponse"]]
        /\ UNCHANGED lost
  /\ cpc' = [cpc EXCEPT ![c] = "done"]
  /\ UNCHANGED <<srv, req, waiters, free, reply, creq, sent>>

Next == \E c \in Callers : Call(c) \/ Route(c) \/ Serve(c) \/ Lose(c) \/ Receive(c)

Spec == Init /\ [][Next]_vars /\ \A c \in Callers : WF_vars(Route(c) \/ Serve(c) \/ Receive(c))

-----------------------------------------------------------------------------
\* A call through the client is served (spec section 6: the client talks
\* to the contract-state endpoint at /{version}/contract_state?{query}):
\* when the transport does not fail, the version resolves, the gateway
\* holds it and the pool and the read do not fail, get_contract_state
\* returns Ok with the accounts stored at that version.
ServedWhenNothingFails ==
  \A c \in Callers :
    LET at == H!SpecResolve(creq[c].body.version) IN
    /\ cpc[c] = "done" /\ ~lost[c]
    /\ ~H!IsErr(at) /\ H!HasVersion(creq[c].chain, at)
    /\ ~(reply[c].status = 500 /\ reply[c].cause \in {"Connection", "Storage"})
    => /\ IsOk(result[c])
       /\ result[c].ok = H!GetContracts(creq[c].chain, H!AddressesOf(creq[c].body), at)

=============================================================================
