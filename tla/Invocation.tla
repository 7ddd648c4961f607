----------------------------- MODULE Invocation -----------------------------
(***************************************************************************)
(* RuntimeInstance.Invoke (runtime.go) with what it waits for: the clients *)
(* of the contract engine, which send the request and bring bytecode       *)
(* requests and errors, and the streams of the sandboxes (RuntimeService). *)
(* A cross-contract call is an Invoke inside another, under the same       *)
(* transaction id.  What the system calls compute is in SysCalls.          *)
(***************************************************************************)
EXTENDS RuntimeService, FiniteSets, SequencesExt

CONSTANTS
    Clients,        \* connections to the contract engine
    TxCap,          \* txSize, 50000
    ByteCodeCap,    \* capacity of byteCodeRespCh, 8
    MaxEngineMsgs,  \* bound on the engine's messages
    OldBlock        \* block version < 2310: batch reads are not answered

Msgs == Txs         \* message objects: one for each Invoke is enough

VARIABLES
    pc,             \* where an Invoke is
    orig, caller,   \* its transaction id, and the Invoke it is called from
    key, obj,       \* uniqueTxKey and dockerVMMsg
    count,          \* counter of GetUniqueTxKey
    notify,         \* the table of the client manager
    engineMsgCh,    \* contractEngineMsgCh, capacity 1
    pool,           \* dockerVMMsgPool
    content,        \* what a message object says: the key of a transaction
    txSendCh, byteCodeRespCh,
    toClient,       \* messages on their way from the engine
    receiver,       \* the message a client is about to hand over
    requests,       \* requests at the engine
    engineSent,     \* how many messages the engine sent
    overdue         \* some Invoke returned with its request still in txSendCh

invokeVars == <<orig, caller, key, obj, count, notify, pool, content>>
engineVars == <<toClient, receiver, requests, engineSent>>
vars == <<serviceVars, pc, invokeVars, engineMsgCh, txSendCh, byteCodeRespCh,
          engineVars, overdue>>

Init ==
    /\ ServiceInit
    /\ pc = [t \in Txs |-> "idle"]
    /\ orig = [t \in Txs |-> t] /\ caller = [t \in Txs |-> t]
    /\ key = [t \in Txs |-> <<>>] /\ obj = [t \in Txs |-> t]
    /\ count = 0 /\ notify = {}
    /\ engineMsgCh = [t \in Txs |-> <<>>]
    /\ pool = Msgs /\ content = [m \in Msgs |-> <<>>]
    /\ txSendCh = <<>> /\ byteCodeRespCh = 0
    /\ toClient = [c \in Clients |-> <<>>] /\ receiver = [c \in Clients |-> <<>>]
    /\ requests = <<>> /\ engineSent = 0
    /\ overdue = FALSE

-----------------------------------------------------------------------------
(* Invoke.                                                                 *)

\* Mutant: the transaction id alone.
GetUniqueTxKey_TxId(t) == <<orig[t], 0>>

GetUniqueTxKey(t) == <<orig[t], count + 1>>

\* No active connection, or the gas does not suffice.
Refuse(t) ==
    /\ pc[t] \in {"idle", "called"}
    /\ pc' = [pc EXCEPT ![t] = "returned"]
    /\ UNCHANGED <<serviceVars, invokeVars, engineMsgCh, txSendCh, byteCodeRespCh,
                   engineVars, overdue>>

\* The request is written into a pooled message; both notifies are registered.
Invoke(t) ==
    /\ pc[t] \in {"idle", "called"}
    /\ \E m \in pool :
        /\ pool' = pool \ {m}
        /\ obj' = [obj EXCEPT ![t] = m]
        /\ content' = [content EXCEPT ![m] = GetUniqueTxKey(t)]
    /\ key' = [key EXCEPT ![t] = GetUniqueTxKey(t)]
    /\ count' = count + 1
    /\ sandboxNotify' = Registered(sandboxNotify, GetUniqueTxKey(t), t)
    /\ notify' = Registered(notify, GetUniqueTxKey(t), t)
    /\ pc' = [pc EXCEPT ![t] = "put"]
    /\ UNCHANGED <<streamVars, sandboxVars, boxVars, faults, orig, caller,
                   engineMsgCh, txSendCh, byteCodeRespCh, engineVars, overdue>>

\* Mutant: the message is returned to the pool once it is in the channel.
PutTxRequest_Pools(t) ==
    /\ pc[t] = "put"
    /\ Len(txSendCh) < TxCap
    /\ txSendCh' = Append(txSendCh, obj[t])
    /\ pool' = pool \cup {obj[t]}
    /\ pc' = [pc EXCEPT ![t] = "wait"]
    /\ UNCHANGED <<serviceVars, orig, caller, key, obj, count, notify, content,
                   engineMsgCh, byteCodeRespCh, engineVars, overdue>>

PutTxRequest(t) ==
    /\ pc[t] = "put"
    /\ Len(txSendCh) < TxCap
    /\ txSendCh' = Append(txSendCh, obj[t])
    /\ pc' = [pc EXCEPT ![t] = "wait"]
    /\ UNCHANGED <<serviceVars, invokeVars, engineMsgCh, byteCodeRespCh, engineVars,
                   overdue>>

\* The deferred functions.
Return(t) ==
    /\ pc' = [pc EXCEPT ![t] = "returned"]
    /\ sandboxNotify' = Deleted(sandboxNotify, key[t])
    /\ notify' = Deleted(notify, key[t])
    /\ pool' = pool \cup {obj[t]}
    /\ overdue' = (overdue \/ obj[t] \in ToSet(txSendCh))

Timeout(t) ==
    /\ pc[t] = "wait"
    /\ Return(t)
    /\ UNCHANGED <<streamVars, sandboxVars, boxVars, faults, orig, caller, key, obj,
                   count, content, engineMsgCh, txSendCh, byteCodeRespCh, engineVars>>

FromEngine(t, type) ==
    /\ pc[t] = "wait"
    /\ engineMsgCh[t] = <<type>>
    /\ engineMsgCh' = [engineMsgCh EXCEPT ![t] = <<>>]
    /\ UNCHANGED <<streamVars, sandboxVars, boxVars, faults, orig, caller, key, obj,
                   count, content, txSendCh, byteCodeRespCh, engineVars>>

GetByteCode(t) ==
    /\ FromEngine(t, "bytecode")
    /\ pc' = [pc EXCEPT ![t] = "bytecode"]
    /\ UNCHANGED <<sandboxNotify, notify, pool, overdue>>

EngineError(t) == FromEngine(t, "error") /\ Return(t)

PutByteCodeResp(t) ==
    /\ pc[t] = "bytecode"
    /\ byteCodeRespCh < ByteCodeCap
    /\ byteCodeRespCh' = byteCodeRespCh + 1
    /\ pc' = [pc EXCEPT ![t] = "wait"]
    /\ UNCHANGED <<serviceVars, invokeVars, engineMsgCh, txSendCh, engineVars, overdue>>

FromSandbox(t, type) ==
    /\ pc[t] = "wait"
    /\ sandboxMsgCh[t] = <<type>>
    /\ sandboxMsgCh' = [sandboxMsgCh EXCEPT ![t] = <<>>]
    /\ UNCHANGED <<streamVars, sandboxVars, sendSysResponse, faults, orig, key, obj,
                   count, content, engineMsgCh, txSendCh, byteCodeRespCh, engineVars>>

TxResponse(t) == FromSandbox(t, "response") /\ Return(t) /\ UNCHANGED caller

Responds(t) ==
    /\ pc' = [pc EXCEPT ![t] = "respond"]
    /\ UNCHANGED <<sandboxNotify, notify, pool, overdue, caller>>

SysCall(t) == FromSandbox(t, "sys") /\ Responds(t)

\* Before 2310 a batch read is left without a response.
GetBatchState(t) ==
    /\ FromSandbox(t, "batch")
    /\ IF OldBlock
       THEN UNCHANGED <<pc, sandboxNotify, notify, pool, overdue, caller>>
       ELSE Responds(t)

\* A cross-contract call that is refused, or whose contract needs no sandbox.
CallOther(t) == FromSandbox(t, "call") /\ Responds(t)

\* One that is an Invoke of its own; it has the transaction id of its caller.
CallContract(t, u) ==
    /\ pc[t] = "wait" /\ sandboxMsgCh[t] = <<"call">>
    /\ pc[u] = "idle"
    /\ sandboxMsgCh' = [sandboxMsgCh EXCEPT ![t] = <<>>]
    /\ pc' = [pc EXCEPT ![t] = "call", ![u] = "called"]
    /\ orig' = [orig EXCEPT ![u] = orig[t]]
    /\ caller' = [caller EXCEPT ![u] = t]
    /\ UNCHANGED <<sandboxNotify, streamVars, sandboxVars, sendSysResponse, faults,
                   key, obj, count, notify, pool, content, engineMsgCh, txSendCh,
                   byteCodeRespCh, engineVars, overdue>>

CallReturns(t) ==
    /\ pc[t] = "call"
    /\ \A u \in Txs \ {t} : caller[u] = t => pc[u] = "returned"
    /\ pc' = [pc EXCEPT ![t] = "respond"]
    /\ UNCHANGED <<serviceVars, invokeVars, engineMsgCh, txSendCh, byteCodeRespCh,
                   engineVars, overdue>>

\* sendSysResponse, that is putResp of the stream that spoke last.
putResp(t) ==
    LET s == sendSysResponse[t] IN
    /\ pc[t] = "respond"
    /\ sendResponseCh[s] = <<>>
    /\ sendResponseCh' = [sendResponseCh EXCEPT ![s] = <<key[t]>>]
    /\ pc' = [pc EXCEPT ![t] = "wait"]
    /\ UNCHANGED <<sandboxNotify, recv, inHand, send, stopSend, stopReceive, up,
                   sandboxVars, boxVars, faults, invokeVars, engineMsgCh, txSendCh,
                   byteCodeRespCh, engineVars, overdue>>

-----------------------------------------------------------------------------
(* The clients of the engine.                                              *)

\* The message is read when it is sent.
SendTx ==
    /\ txSendCh # <<>>
    /\ txSendCh' = Tail(txSendCh)
    /\ requests' = Append(requests, content[Head(txSendCh)])
    /\ UNCHANGED <<serviceVars, pc, invokeVars, engineMsgCh, byteCodeRespCh,
                   toClient, receiver, engineSent, overdue>>

SendTxFails ==
    /\ txSendCh # <<>>
    /\ Fault
    /\ txSendCh' = Tail(txSendCh)
    /\ UNCHANGED <<sandboxNotify, streamVars, sandboxVars, boxVars, pc, invokeVars,
                   engineMsgCh, byteCodeRespCh, engineVars, overdue>>

SendByteCode ==
    /\ byteCodeRespCh > 0
    /\ byteCodeRespCh' = byteCodeRespCh - 1
    /\ UNCHANGED <<serviceVars, pc, invokeVars, engineMsgCh, txSendCh, engineVars,
                   overdue>>

ClientRecv(c) ==
    LET m == Head(toClient[c]) IN
    /\ toClient[c] # <<>>
    /\ receiver[c] = <<>>
    /\ toClient' = [toClient EXCEPT ![c] = Tail(@)]
    /\ \/ /\ Found(notify, m.key) = {}
          /\ UNCHANGED receiver
       \/ \E t \in Found(notify, m.key) :
             receiver' = [receiver EXCEPT ![c] = <<t, m.type>>]
    /\ UNCHANGED <<serviceVars, pc, invokeVars, engineMsgCh, txSendCh,
                   byteCodeRespCh, requests, engineSent, overdue>>

contractEngineMsgNotify(c) ==
    /\ receiver[c] # <<>>
    /\ engineMsgCh[receiver[c][1]] = <<>>
    /\ engineMsgCh' = [engineMsgCh EXCEPT ![receiver[c][1]] = <<receiver[c][2]>>]
    /\ receiver' = [receiver EXCEPT ![c] = <<>>]
    /\ UNCHANGED <<serviceVars, pc, invokeVars, txSendCh, byteCodeRespCh, toClient,
                   requests, engineSent, overdue>>

-----------------------------------------------------------------------------
(* The engine.                                                             *)

\* A request reaches a sandbox that is free.
Assign(s) ==
    /\ requests # <<>>
    /\ sandbox[s].st = "idle"
    /\ sandbox' = [sandbox EXCEPT ![s] = [st |-> "run", key |-> Head(requests)]]
    /\ requests' = Tail(requests)
    /\ UNCHANGED <<sandboxNotify, streamVars, fromSandbox, calls, boxVars, faults,
                   pc, invokeVars, engineMsgCh, txSendCh, byteCodeRespCh, toClient,
                   receiver, engineSent, overdue>>

\* The engine asks for bytecode or reports an error.
EngineSends(t, c) ==
    /\ key[t] # <<>>
    /\ obj[t] \notin ToSet(txSendCh)
    /\ pc[t] # "put"
    /\ engineSent < MaxEngineMsgs
    /\ engineSent' = engineSent + 1
    /\ \E type \in {"bytecode", "error"} :
        toClient' = [toClient EXCEPT ![c] = Append(@, [key |-> key[t], type |-> type])]
    /\ UNCHANGED <<serviceVars, pc, invokeVars, engineMsgCh, txSendCh,
                   byteCodeRespCh, receiver, requests, overdue>>

\* A connection breaks; what was under way is lost.
ClientBreaks(c) ==
    /\ toClient[c] # <<>>
    /\ Fault
    /\ toClient' = [toClient EXCEPT ![c] = <<>>]
    /\ UNCHANGED <<sandboxNotify, streamVars, sandboxVars, boxVars, pc, invokeVars,
                   engineMsgCh, txSendCh, byteCodeRespCh, receiver, requests,
                   engineSent, overdue>>

-----------------------------------------------------------------------------
Progress(t) ==
    \/ Refuse(t) \/ Invoke(t) \/ Timeout(t)
    \/ PutTxRequest(t) \/ GetByteCode(t) \/ EngineError(t) \/ PutByteCodeResp(t)
    \/ TxResponse(t) \/ SysCall(t) \/ GetBatchState(t) \/ CallOther(t)
    \/ CallReturns(t) \/ putResp(t)

Serve(s) ==
    \/ RecvMsg(s) \/ sandboxMsgNotify(s) \/ RecvFails(s) \/ RecvStops(s)
    \/ SendResp(s) \/ SendFails(s) \/ SendStops(s)

Rest == <<pc, invokeVars, engineMsgCh, txSendCh, byteCodeRespCh, engineVars, overdue>>

Next ==
    \/ \E t \in Txs : Progress(t)
    \/ \E t, u \in Txs : CallContract(t, u)
    \/ SendTx \/ SendTxFails \/ SendByteCode
    \/ \E c \in Clients : ClientRecv(c) \/ contractEngineMsgNotify(c) \/ ClientBreaks(c)
    \/ \E t \in Txs, c \in Clients : EngineSends(t, c)
    \/ \E s \in Streams : Assign(s)
    \/ \E s \in Streams : /\ Serve(s) \/ SendTooLarge(s) \/ Ask(s) \/ Answer(s)
                             \/ StreamBreaks(s)
                          /\ UNCHANGED Rest

Spec == Init /\ [][Next]_vars

-----------------------------------------------------------------------------
(* Properties.                                                             *)

Running(t) == pc[t] \notin {"idle", "called", "returned"}

\* The two tables hold exactly the Invokes that run, each under its own key,
\* although a cross-contract call runs under the transaction id of its caller:
\* what is said about a transaction reaches its Invoke, and nothing is left
\* behind when it returns.
TablesMatch ==
    LET live == {<<key[t], t>> : t \in {u \in Txs : Running(u)}}
    IN notify = live /\ sandboxNotify = live

\* The request of an Invoke that runs says what this Invoke wrote: no other one
\* has got the same message from the pool and written over it.
RequestIsOwn ==
    \A t \in Txs : Running(t) => content[obj[t]] = key[t]

\* A response goes to the sandbox that waits for it, although it is sent to the
\* stream that spoke last.  (An Invoke that times out before its request is sent
\* gives the message back while it is in the channel; after that a transaction
\* may run in two sandboxes.)
RespondsToAsker ==
    overdue \/ \A s \in Streams : sendResponseCh[s] # <<>> =>
        sandbox[s].st = "dead" \/ sandbox[s] = [st |-> "ask", key |-> sendResponseCh[s][1]]

\* The receiving goroutine of a stream never waits to hand over a message: the
\* channel of the Invoke has room, whether it still runs or not.
StreamNeverWaits ==
    overdue \/ \A s \in Streams :
        recv[s] = "notify" => sandboxMsgCh[inHand[s][1]] = <<>>

\* An Invoke that has a response never waits to put it, where it would not look
\* at timeoutC: its stream has room for it, even when the stream has ended.
ResponseHasRoom ==
    overdue \/ \A t \in Txs :
        pc[t] = "respond" => sendResponseCh[sendSysResponse[t]] = <<>>

=============================================================================
