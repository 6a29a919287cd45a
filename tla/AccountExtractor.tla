-------------------------- MODULE AccountExtractor --------------------------
(***************************************************************************)
(* What AccountExtractor::get_accounts_at_block promises (spec 4.3): one   *)
(* call either returns, for every requested address, an AccountDelta with  *)
(* the account's code, its balance and the storage it asked for, or fails  *)
(* with an RPCError.  With slots = None the delta holds every non-zero     *)
(* slot; with slots = Some(list) it holds exactly the listed keys, a zero  *)
(* word as None (spec 4.3.b step 3, 8.5).  Two requests for one address   *)
(* are answered together: the delta holds what either asked for (8.6: the *)
(* answer is a function of the requests and the chain, not of hashing).   *)
(***************************************************************************)
EXTENDS ExtractorTypes

CONSTANTS Pending, Failed

VARIABLES requests, node, result

vars == <<requests, node, result>>

AddressesOf(reqs) == {r.address : r \in SeqSet(reqs)}

ExpectedSlots(reqs, nd, a) ==
  LET rs     == {r \in SeqSet(reqs) : r.address = a}
      listed == UNION {SeqSet(r.slots) : r \in {q \in rs : q.slots # None}}
      dumped == \E r \in rs : r.slots = None
      v(s)   == nd.storage[a][s]
  IN [s \in Slot |->
        IF s \in listed THEN (IF v(s) = 0 THEN Cleared ELSE v(s))
        ELSE IF dumped /\ v(s) # 0 THEN v(s)
        ELSE Absent]

Expected(reqs, nd) ==
  [a \in AddressesOf(reqs) |->
     [address |-> a, code |-> nd.code[a], balance |-> nd.balance[a],
      slots |-> ExpectedSlots(reqs, nd, a), change |-> "Creation"]]

Init ==
  /\ requests \in RequestInputs
  /\ node \in NodeStates
  /\ result = Pending

Return ==
  /\ result = Pending
  /\ result' = Expected(requests, node)
  /\ UNCHANGED <<requests, node>>

Fail ==
  /\ result = Pending
  /\ result' = Failed
  /\ UNCHANGED <<requests, node>>

Next == Return \/ Fail

Spec == Init /\ [][Next]_vars

=============================================================================
