--------------------------- MODULE ContractManager --------------------------
(***************************************************************************)
(* The contract manager of the engine (core/contract_manager.go): which    *)
(* contracts are on disk, kept in an LRU cache (vm_mgr/utils/lru.go).       *)
(* A contract is named by the key of its request group.                    *)
(*                                                                         *)
(* Like a request group, the manager is a goroutine that owns its state: a *)
(* handler gives its next record, what it sends to the scheduler (out) and *)
(* the code it signals to the request group, if any (signal).              *)
(***************************************************************************)
EXTENDS Naturals, Sequences, SequencesExt

-----------------------------------------------------------------------------
(* The cache: its keys, the most recently used first.                      *)

LruRemove(lru, key) == SelectSeq(lru, LAMBDA k : k # key)

LruMoveToFront(lru, key) == <<key>> \o LruRemove(lru, key)

LruRemoveOldest(lru) == IF lru = <<>> THEN lru ELSE Front(lru)

\* Mutant: a key that is cached already is entered once more.
LruAdd_Twice(lru, key, maxEntries) == <<key>> \o lru

\* A limit of zero means no limit here.
LruAdd(lru, key, maxEntries) ==
    LET added == LruMoveToFront(lru, key)
    IN IF maxEntries # 0 /\ Len(added) > maxEntries
       THEN LruRemoveOldest(added)
       ELSE added

-----------------------------------------------------------------------------
\* What the engine finds in the contract directory when it starts: the first
\* MaxEntries files become entries, the others are removed.
initContractLRU(found, maxEntries) ==
    LET kept == SubSeq(found, 1, IF Len(found) < maxEntries THEN Len(found)
                                                            ELSE maxEntries)
    IN [lru |-> Reverse(kept), files |-> ToSet(kept), eventCh |-> <<>>]

Step(m, out, signal) == [cm |-> m, out |-> out, signal |-> signal]

\* A hit is answered at once, a miss becomes a request to the chain.
handleGetContractReq(m, req) ==
    IF req.group \in ToSet(m.lru)
    THEN Step([m EXCEPT !.lru = LruMoveToFront(@, req.group)], <<>>, <<"OK">>)
    ELSE Step(m, <<req>>, <<>>)

Full(m, maxEntries) == Len(m.lru) = maxEntries

\* If the cache is full the oldest contract goes, also when the new one is
\* cached already.  The removal of its file may fail.
Evicted(m, maxEntries, removed) ==
    IF Full(m, maxEntries)
    THEN [m EXCEPT !.lru = LruRemoveOldest(@),
                   !.files = IF removed THEN @ \ {Last(m.lru)} ELSE @]
    ELSE m

\* handleGetContractResp and processContractResp.  removed: an eviction can
\* delete the file.  stored: with TCP, there are bytes and they can be written;
\* without, the chain has saved the file before it answered.
handleGetContractResp(m, resp, maxEntries, tcp, removed, stored) ==
    LET evicted == Evicted(m, maxEntries, removed)
        added == [evicted EXCEPT !.lru = LruAdd(@, resp.group, maxEntries)]
    IN CASE resp.code = "FAIL" -> Step(m, <<>>, <<"FAIL">>)
         [] resp.code = "OK" /\ Full(m, maxEntries) /\ m.lru = <<>> ->
                Step(m, <<>>, <<"FAIL">>)
         [] resp.code = "OK" /\ Full(m, maxEntries) /\ m.lru # <<>> /\ ~removed ->
                Step(evicted, <<>>, <<"FAIL">>)
         [] OTHER ->
                IF tcp /\ ~stored
                THEN Step(added, <<>>, <<"FAIL">>)
                ELSE Step([added EXCEPT !.files = IF tcp THEN @ \cup {resp.group}
                                                         ELSE @],
                          <<>>, <<"OK">>)

\* Mutant: the file goes, the entry stays.
removeBadContract_KeepEntry(m, msg, removed) ==
    Step([m EXCEPT !.files = @ \ {msg.group}], <<>>, <<>>)

\* The manager's handler of a bad contract: entry and file go.
removeBadContract(m, msg, removed) ==
    IF msg.group \in ToSet(m.lru)
    THEN Step([m EXCEPT !.lru = LruRemove(@, msg.group),
                        !.files = IF removed THEN @ \ {msg.group} ELSE @],
              <<>>, <<>>)
    ELSE Step(m, <<>>, <<>>)

=============================================================================
