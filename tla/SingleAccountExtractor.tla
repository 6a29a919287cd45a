----------------------- MODULE SingleAccountExtractor -----------------------
(***************************************************************************)
(* EVMAccountExtractor::get_accounts_at_block (tycho-ethereum,             *)
(* account_extractor/contract.rs), the variant for nodes without batch     *)
(* RPC.  The balances and codes of all requests are fetched under          *)
(* tokio::join! of two try_join_all; then, request after request, the full *)
(* storage is paged out of debug_storageRangeAt and the delta inserted.    *)
(* A slot list in a request is only warned about: every request is a full  *)
(* dump (spec 4.3.a).  Requests are not deduplicated.                      *)
(***************************************************************************)
EXTENDS ExtractorTypes, SequencesExt

CONSTANTS Pending, Failed

VARIABLES
  requests,   \* the requests slice of the call
  node,       \* the chain at the block's hash, as the RPC node serves it
  atNumber,   \* the chain the node serves for the block's number
  phase,      \* meta | storage | done | failed
  balances,   \* the joined balance results, by request position
  codes,      \* the joined code results, by request position
  idx,        \* the request whose storage is being fetched
  allSlots,   \* all_slots of the running get_storage_range
  startKey,   \* its start_key
  updates     \* the result map being built

vars == <<requests, node, atNumber, phase, balances, codes, idx, allSlots, startKey, updates>>

NoSlots == [s \in Slot |-> Absent]

-----------------------------------------------------------------------------
\* Mutant: the delta built with balance and code exchanged.
AccountDeltaSwapped(i, slots) ==
  [address |-> requests[i].address, code |-> balances[i],
   balance |-> codes[i], slots |-> slots, change |-> "Creation"]

\* Lines 99-110: the delta of request i.
AccountDeltaOf(i, slots) ==
  [address |-> requests[i].address, code |-> codes[i],
   balance |-> balances[i], slots |-> slots, change |-> "Creation"]

\* Mutant: all_slots outlives one call of get_storage_range.
FinishAccountKeepsSlots(slots) ==
  /\ updates' = Insert(updates, requests[idx].address, AccountDeltaOf(idx, slots))
  /\ idx' = idx + 1
  /\ allSlots' = slots
  /\ startKey' = 0
  /\ phase' = IF idx = Len(requests) THEN "done" ELSE "storage"

\* get_storage_range returned: insert the delta, go to the next request
\* with a fresh all_slots, or return Ok(updates) after the last one.
FinishAccount(slots) ==
  /\ updates' = Insert(updates, requests[idx].address, AccountDeltaOf(idx, slots))
  /\ idx' = idx + 1
  /\ allSlots' = NoSlots
  /\ startKey' = 0
  /\ phase' = IF idx = Len(requests) THEN "done" ELSE "storage"

\* Mutant: start_key is not moved to next_key.
NextPageStuck(slots, next) ==
  IF next = None THEN FinishAccount(slots)
  ELSE allSlots' = slots /\ UNCHANGED <<phase, idx, startKey, updates>>

\* Lines 160-164: follow next_key, or break out of the loop.
NextPage(slots, next) ==
  IF next = None THEN FinishAccount(slots)
  ELSE /\ allSlots' = slots
       /\ startKey' = next
       /\ UNCHANGED <<phase, idx, updates>>

-----------------------------------------------------------------------------
Init ==
  /\ requests \in RequestInputs
  /\ node \in NodeStates
  /\ atNumber \in NumberViews(node)
  /\ phase = "meta"
  /\ balances = <<>>
  /\ codes = <<>>
  /\ idx = 1
  /\ allSlots = NoSlots
  /\ startKey = 0
  /\ updates = [a \in {} |-> 0]

\* Lines 53-81: get_balance and get_code of every request at block_id, the
\* block's number, joined; an error of either join fails the call.  With
\* no requests the call returns at once.
FetchCodeAndBalance ==
  /\ phase = "meta"
  /\ \/ /\ phase' = "failed"
        /\ UNCHANGED <<balances, codes>>
     \/ /\ balances' = [i \in DOMAIN requests |-> atNumber.balance[requests[i].address]]
        /\ codes' = [i \in DOMAIN requests |-> atNumber.code[requests[i].address]]
        /\ phase' = IF requests = <<>> THEN "done" ELSE "storage"
  /\ UNCHANGED <<requests, node, atNumber, idx, allSlots, startKey, updates>>

\* One debug_storageRangeAt page of get_storage_range (lines 134-167), at
\* the block's hash, for request idx whatever its slots say (lines 91-97);
\* an error fails the call.  Every returned entry is inserted as Some(value).
FetchStorageRange ==
  /\ phase = "storage"
  /\ LET a    == requests[idx].address
         page == StorageRangeAt(node, a, startKey)
         got  == SeqSet(page.storage)
     IN \/ /\ phase' = "failed"
           /\ UNCHANGED <<idx, allSlots, startKey, updates>>
        \/ NextPage([s \in Slot |-> IF s \in got THEN node.storage[a][s]
                                    ELSE allSlots[s]],
                    page.next)
  /\ UNCHANGED <<requests, node, atNumber, balances, codes>>

Next == FetchCodeAndBalance \/ FetchStorageRange

\* A step in which no RPC failed.
Progress == Next /\ phase' # "failed"

\* The runtime keeps polling the call and the node keeps answering;
\* failures get no fairness.
Spec == Init /\ [][Next]_vars /\ WF_vars(Progress)

-----------------------------------------------------------------------------
TypeOK ==
  /\ requests \in Seq([address: Addr, slots: SlotsRequest])
  /\ atNumber \in NodeStates
  /\ phase \in {"meta", "storage", "done", "failed"}
  /\ balances \in Seq(Val) /\ codes \in Seq(Addr)
  /\ idx \in 1..Len(requests) + 1
  /\ allSlots \in SlotMap
  /\ startKey \in 0..NumSlots
  /\ DOMAIN updates \subseteq Addr /\ updates \in [DOMAIN updates -> AccountDelta]

\* The requests as the single-call variant serves them: all full dumps.
FullDumps(reqs) == [i \in DOMAIN reqs |-> [address |-> reqs[i].address, slots |-> None]]

AbsResult ==
  CASE phase = "done"   -> updates
    [] phase = "failed" -> Failed
    [] OTHER            -> Pending

Abs == INSTANCE AccountExtractor WITH requests <- FullDumps(requests), result <- AbsResult

\* The single-call extractor implements the AccountExtractor contract for
\* its documented fallback (spec 4.3.a): each requested address gets its
\* code, balance and every non-zero slot, or the call fails; repeated
\* addresses, pagination and the join included.
ImplementsFullDumpContract == Abs!Spec

\* The call returns: every storage page loop ends.
Termination == <>(phase \in {"done", "failed"})

=============================================================================
