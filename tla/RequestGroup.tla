---------------------------- MODULE RequestGroup ----------------------------
(***************************************************************************)
(* The request groups of the contract engine (core/request_group.go): one  *)
(* for each contract.  A group buffers transactions until its contract is  *)
(* on disk, then hands them to processes.                                  *)
(*                                                                         *)
(* The goroutine of a group owns its state, so a handler is an operator    *)
(* from the record of a group to its next record.  What a handler sends is *)
(* collected in `out`, in order.                                           *)
(***************************************************************************)
EXTENDS Naturals, Sequences

CONSTANTS
    Groups,     \* request group keys: chain id, contract name and version
    Txs,        \* transactions
    TxGroup,    \* TxGroup[t]: the group t is for
    TxKind,     \* TxKind[t]: "orig", or "cross" for a cross-contract call
    DeepTxs     \* those whose depth exceeds protocol.CallContractDepth

Kinds == {"orig", "cross"}

ASSUME TxsAssumption ==
    /\ TxGroup \in [Txs -> Groups]
    /\ TxKind \in [Txs -> Kinds]
    /\ DeepTxs \subseteq Txs

\* The messages a group sends: GET_BYTECODE_REQUEST and BadContractResp to the
\* contract manager, ERROR to the scheduler, GetProcessReqMsg to the manager
\* of the original or the cross processes.
GetContractReq(g, t) == [to |-> "cm", type |-> "req", group |-> g, tx |-> t]
BadContract(g) == [to |-> "cm", type |-> "bad", group |-> g]
ErrorResp(t) == [to |-> "sched", type |-> "error", tx |-> t]
GetProcessReq(k) == [to |-> "pm", kind |-> k]

NewRequestGroup ==
    [contractState |-> "empty", getBytecodeTimer |-> FALSE, version |-> 0,
     eventCh |-> <<>>, txCh |-> <<>>, bufCh |-> <<>>,
     queue |-> [k \in Kinds |-> <<>>],              \* txCh of the controllers
     processWaiting |-> [k \in Kinds |-> FALSE],
     out |-> <<>>,
     blocked |-> FALSE]                         \* at "tx := <-r.bufCh" for ever

-----------------------------------------------------------------------------
enqueueCh(r, t) == [r EXCEPT !.queue[TxKind[t]] = Append(@, t)]

returnTxErrorResp(r, t) == [r EXCEPT !.out = Append(@, ErrorResp(t))]

\* created[k] is the number of processes of the group that are neither ready
\* nor busy.
getProcesses(r, k, created) ==
    IF \/ r.processWaiting[k]
       \/ r.contractState # "ready"
       \/ Len(r.queue[k]) <= created[k]
    THEN r
    ELSE [r EXCEPT !.processWaiting[k] = TRUE,
                   !.out = Append(@, GetProcessReq(k))]

\* Mutant: the timer is not started.
sendGetContractReq_NoTimer(r, g, t) ==
    [r EXCEPT !.out = Append(@, GetContractReq(g, t)),
              !.contractState = "waiting"]

sendGetContractReq(r, g, t) ==
    [r EXCEPT !.out = Append(@, GetContractReq(g, t)),
              !.getBytecodeTimer = TRUE,
              !.contractState = "waiting"]

putTxReqToCh(r, t) ==
    IF t \in DeepTxs THEN returnTxErrorResp(r, t) ELSE enqueueCh(r, t)

handleTxReq(r, g, t, created) ==
    CASE r.contractState = "empty" ->
            sendGetContractReq([r EXCEPT !.bufCh = Append(@, t)], g, t)
      [] r.contractState = "waiting" ->
            [r EXCEPT !.bufCh = Append(@, t)]
      [] r.contractState = "ready" /\ t \in DeepTxs ->
            putTxReqToCh(r, t)
      [] OTHER ->
            getProcesses(putTxReqToCh(r, t), TxKind[t], created)

\* The group forgets the contract, and asks for it again if there are
\* transactions; msg.Tx is one the process has put back or has failed.
handleBadContractResp(r, g, msg) ==
    IF r.contractState # "ready" \/ msg.version # r.version
    THEN r
    ELSE LET empty == [r EXCEPT !.out = Append(@, BadContract(g)),
                                !.contractState = "empty"]
         IN IF \A k \in Kinds : r.queue[k] = <<>>
            THEN empty
            ELSE sendGetContractReq(empty, g, msg.tx)

\* Mutant: no retry for the transactions that are left.
handleGetBytecodeErr_NoRetry(r, g) ==
    IF r.bufCh = <<>>
    THEN [r EXCEPT !.contractState = "empty", !.blocked = TRUE]
    ELSE returnTxErrorResp([r EXCEPT !.contractState = "empty",
                                     !.bufCh = Tail(@)], Head(r.bufCh))

\* "tx := <-r.bufCh" never returns when the buffer is empty, for nobody but
\* this goroutine fills it.  The retry names the transaction just answered.
handleGetBytecodeErr(r, g) ==
    LET empty == [r EXCEPT !.contractState = "empty"]
        tx == Head(r.bufCh)
        popped == returnTxErrorResp([empty EXCEPT !.bufCh = Tail(@)], tx)
    IN CASE r.bufCh = <<>>       -> [empty EXCEPT !.blocked = TRUE]
         [] Len(r.bufCh) = 1     -> popped
         [] OTHER                -> sendGetContractReq(popped, g, tx)

\* moveTxs: everything from the buffer to the queues, without a depth test.
moveTxs(r) ==
    [r EXCEPT !.bufCh = <<>>,
              !.queue = [k \in Kinds |->
                  @[k] \o SelectSeq(r.bufCh, LAMBDA t : TxKind[t] = k)]]

handleContractReadyResp(r, g, code, version, created) ==
    LET stopped == [r EXCEPT !.getBytecodeTimer = FALSE]
        ready == [moveTxs(stopped) EXCEPT !.contractState = "ready",
                                          !.version = version]
    IN IF code = "FAIL"
       THEN handleGetBytecodeErr(stopped, g)
       ELSE getProcesses(getProcesses(ready, "orig", created), "cross", created)

handleProcessReadyResp(r, msg, created) ==
    getProcesses([r EXCEPT !.processWaiting[msg.kind] = FALSE], msg.kind, created)

\* The timer has fired: its channel is read and it runs no longer.
handleGetBytecodeTimeout(r, g) ==
    handleGetBytecodeErr([r EXCEPT !.getBytecodeTimer = FALSE], g)

=============================================================================
