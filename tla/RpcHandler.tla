------------------------------ MODULE RpcHandler ------------------------------
(***************************************************************************)
(* The contract-state endpoint of tycho-indexer (services/rpc.rs): actix   *)
(* calls contract_state for every POST routed to it; the handler checks a  *)
(* connection out of the deadpool Pool, resolves the request's             *)
(* VersionParam to a BlockOrTimestamp, reads the contracts through the     *)
(* storage gateway and answers 200 with the accounts or 500 with an empty  *)
(* body.  Requests of several callers are handled concurrently and share   *)
(* PoolSize connections; the pool hands them out in FIFO order (its        *)
(* semaphore is fair) and a connection goes back when the handler returns; *)
(* this bookkeeping is deadpool's, kept so that handlers interleave.       *)
(*                                                                         *)
(* The storage gateway is an external collaborator (spec section 6): it is *)
(* DbAt, a function from (chain, version) to the accounts stored there; a  *)
(* version it does not hold is StorageError::NotFound, and any read may    *)
(* fail.  Byte conversions of accounts (ResponseAccount::from) keep every  *)
(* field, so an account is a model value here.                            *)
(***************************************************************************)
EXTENDS Naturals, Sequences, FiniteSets

CONSTANTS
  Callers,     \* concurrent HTTP callers of the endpoint
  PoolSize,    \* max_size of the deadpool Pool
  Chains,      \* execution environments in the request path
  Hashes, Numbers, Timestamps,
  Addrs,       \* contract addresses
  None,        \* an absent Option
  Requests,    \* the (chain, StateRequestBody) pairs callers send
  DbAt         \* the gateway: [chain, version] -> [stored address -> account]

VARIABLES
  srv,         \* per caller: idle | pool (awaiting pool.get) | conn | done
  req,         \* the request a caller sent
  waiters,     \* callers queued on the pool's semaphore, oldest first
  free,        \* connections the pool can hand out
  reply        \* the HttpResponse sent back, with the logged cause of a 500

vars == <<srv, req, waiters, free, reply>>

BlockParams == [hash: Hashes \cup {None}, chain: Chains \cup {None},
                number: Numbers \cup {None}]

VersionParams == [timestamp: Timestamps \cup {None}, block: BlockParams \cup {None}]

\* BlockOrTimestamp: Block(Hash), Block(Number((chain, number))), Timestamp.
Versions == [hash: Hashes] \cup [number: Chains \X Numbers] \cup [timestamp: Timestamps]

ParseErr(why) == [err |-> "Parse", why |-> why]

IsErr(x) == "err" \in DOMAIN x

-----------------------------------------------------------------------------
\* Mutant: a timestamp is preferred over the block.
ResolveVersionTimestampFirst(v) ==
  CASE v.timestamp # None         -> [timestamp |-> v.timestamp]
    [] v.block = None             -> ParseErr("missing")
    [] v.block.hash # None        -> [hash |-> v.block.hash]
    [] v.block.chain # None /\ v.block.number # None ->
                                     [number |-> <<v.block.chain, v.block.number>>]
    [] OTHER                      -> ParseErr("insufficient")

\* TryFrom<&VersionParam> for BlockOrTimestamp: a block, when given, wins
\* over the timestamp; within it the hash wins over (chain, number).
ResolveVersion(v) ==
  CASE v.block # None /\ v.block.hash # None -> [hash |-> v.block.hash]
    [] v.block # None /\ v.block.chain # None /\ v.block.number # None ->
                                     [number |-> <<v.block.chain, v.block.number>>]
    [] v.block # None             -> ParseErr("insufficient")
    [] v.timestamp # None         -> [timestamp |-> v.timestamp]
    [] OTHER                      -> ParseErr("missing")

\* The contract_ids mapped to addresses, or None for all contracts.
AddressesOf(body) ==
  IF body.contract_ids = None THEN None ELSE {body.contract_ids[i] : i \in DOMAIN body.contract_ids}

\* get_contracts(chain, addresses, Some(&version), true): the stored
\* accounts at the version, restricted to the addresses when given.
GetContracts(chain, addrs, at) ==
  LET stored == DbAt[<<chain, at>>]
      keep   == IF addrs = None THEN DOMAIN stored ELSE addrs \cap DOMAIN stored
  IN [a \in keep |-> stored[a]]

HasVersion(chain, at) == <<chain, at>> \in DOMAIN DbAt

\* The HttpResponse of a handler's result: 200 with the accounts as JSON,
\* or 500 with no body; the error is only logged.
HttpReply(res) ==
  IF IsErr(res) THEN [status |-> 500, cause |-> res.err]
  ELSE [status |-> 200, accounts |-> res]

-----------------------------------------------------------------------------
Init ==
  /\ srv = [c \in Callers |-> "idle"]
  /\ req = [c \in Callers |-> None]
  /\ waiters = <<>>
  /\ free = PoolSize
  /\ reply = [c \in Callers |-> None]

\* A POST reaches contract_state, which calls get_contract_state; it
\* awaits self.db_connection_pool.get().
Arrive(c) ==
  /\ srv[c] = "idle"
  /\ \E r \in Requests :
       /\ req' = [req EXCEPT ![c] = r]
       /\ srv' = [srv EXCEPT ![c] = "pool"]
       /\ waiters' = Append(waiters, c)
  /\ UNCHANGED <<free, reply>>

\* Mutant: the permit is taken without checking one is free.
GetConnUnguarded(c) ==
  /\ srv[c] = "pool"
  /\ waiters # <<>> /\ Head(waiters) = c
  /\ waiters' = Tail(waiters)
  /\ \/ /\ srv' = [srv EXCEPT ![c] = "conn"]
        /\ free' = free - 1
        /\ UNCHANGED reply
     \/ /\ srv' = [srv EXCEPT ![c] = "done"]
        /\ reply' = [reply EXCEPT ![c] = HttpReply([err |-> "Connection"])]
        /\ UNCHANGED free
  /\ UNCHANGED req

\* The oldest waiter gets a permit: an idle or new connection, or a
\* failure to create one, which returns RpcError::Connection (500) and
\* gives the permit back.
GetConn(c) ==
  /\ srv[c] = "pool"
  /\ waiters # <<>> /\ Head(waiters) = c
  /\ free > 0
  /\ waiters' = Tail(waiters)
  /\ \/ /\ srv' = [srv EXCEPT ![c] = "conn"]
        /\ free' = free - 1
        /\ UNCHANGED reply
     \/ /\ srv' = [srv EXCEPT ![c] = "done"]
        /\ reply' = [reply EXCEPT ![c] = HttpReply([err |-> "Connection"])]
        /\ UNCHANGED free
  /\ UNCHANGED req

\* get_contract_state_inner and the reply: resolve the version (a parse
\* error returns at once), read the contracts, answer; the connection is
\* dropped back into the pool as get_contract_state returns.
Query(c) ==
  /\ srv[c] = "conn"
  /\ LET chain == req[c].chain
         body  == req[c].body
         at    == ResolveVersion(body.version)
     IN \/ /\ IsErr(at)
           /\ reply' = [reply EXCEPT ![c] = HttpReply([err |-> "Parse"])]
        \/ /\ ~IsErr(at)
           /\ \/ reply' = [reply EXCEPT ![c] = HttpReply([err |-> "Storage"])]
              \/ /\ HasVersion(chain, at)
                 /\ reply' = [reply EXCEPT ![c] =
                                HttpReply(GetContracts(chain, AddressesOf(body), at))]
  /\ srv' = [srv EXCEPT ![c] = "done"]
  /\ free' = free + 1
  /\ UNCHANGED <<req, waiters>>

Next == \E c \in Callers : Arrive(c) \/ GetConn(c) \/ Query(c)

Spec == Init /\ [][Next]_vars

-----------------------------------------------------------------------------
TypeOK ==
  /\ srv \in [Callers -> {"idle", "pool", "conn", "done"}]
  /\ req \in [Callers -> Requests \cup {None}]
  /\ waiters \in Seq(Callers)
  /\ free \in 0..PoolSize
  /\ \A c \in Callers :
       \/ reply[c] = None
       \/ reply[c] \in [status: {500}, cause: {"Connection", "Parse", "Storage"}]
       \/ reply[c].status = 200 /\ DOMAIN reply[c].accounts \subseteq Addrs

\* Version resolution as spec section 6 states it, precedence by precedence:
\* block.hash, else (chain, number), else the timestamp, else "Missing
\* timestamp or block identifier"; a block given without enough of either
\* is "Insufficient block information".
SpecResolve(v) ==
  LET b == v.block
      full == b # None /\ (b.hash # None \/ (b.chain # None /\ b.number # None))
  IN IF b # None /\ ~full THEN ParseErr("insufficient")
     ELSE IF full /\ b.hash # None THEN [hash |-> b.hash]
     ELSE IF full THEN [number |-> <<b.chain, b.number>>]
     ELSE IF v.timestamp # None THEN [timestamp |-> v.timestamp]
     ELSE ParseErr("missing")

\* Every 200 answer holds exactly the contracts the gateway stores for the
\* request's chain at the version spec section 6 resolves (scenario S6: a
\* hash beats a timestamp), restricted to the requested ids; a request
\* whose version the spec rejects is never answered 200.  Several callers
\* share the pool, so this is about the answer each handler task sends to
\* its own caller.
AnswerIsStateAtVersion ==
  \A c \in Callers : reply[c] # None /\ reply[c].status = 200 =>
    LET at == SpecResolve(req[c].body.version)
    IN /\ ~IsErr(at) /\ HasVersion(req[c].chain, at)
       /\ reply[c].accounts = GetContracts(req[c].chain, AddressesOf(req[c].body), at)

=============================================================================
