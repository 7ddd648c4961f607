--------------------------- MODULE RuntimeService ---------------------------
(***************************************************************************)
(* The chain's service for the sandboxes (rpc/runtime_service.go): one     *)
(* stream for each sandbox, with a goroutine that hands what the sandbox   *)
(* says to the Invoke it is meant for and one that sends the responses.    *)
(* The sandbox, which serves one transaction at a time and waits for the   *)
(* response to every system call, is external.                             *)
(***************************************************************************)
EXTENDS Naturals, Sequences

CONSTANTS
    Txs,            \* calls of Invoke
    Streams,        \* sandboxes
    MaxCalls,       \* bound on the system calls of a sandbox
    MaxFaults       \* bound on the faults

VARIABLES
    sandboxNotify,      \* the registered notifies: pairs of key and Invoke
    recv, inHand,       \* recvRoutine and the message it is about to hand over
    send,               \* sendRoutine
    sendResponseCh,     \* capacity 1
    stopSend, stopReceive,  \* streams whose channel is closed
    up,                 \* streams that work
    fromSandbox,        \* messages on their way from a sandbox
    sandbox, calls,     \* what a sandbox does, and its calls so far
    sandboxMsgCh,       \* of an Invoke, capacity 1
    sendSysResponse,    \* the stream an Invoke responds to, if any
    faults

streamVars == <<recv, inHand, send, sendResponseCh, stopSend, stopReceive, up>>
sandboxVars == <<fromSandbox, sandbox, calls>>
boxVars == <<sandboxMsgCh, sendSysResponse>>
serviceVars == <<sandboxNotify, streamVars, sandboxVars, boxVars, faults>>

ServiceInit ==
    /\ sandboxNotify = {}
    /\ recv = [s \in Streams |-> "run"] /\ inHand = [s \in Streams |-> <<>>]
    /\ send = [s \in Streams |-> "run"]
    /\ sendResponseCh = [s \in Streams |-> <<>>]
    /\ stopSend = {} /\ stopReceive = {} /\ up = Streams
    /\ fromSandbox = [s \in Streams |-> <<>>]
    /\ sandbox = [s \in Streams |-> [st |-> "idle", key |-> <<>>]]
    /\ calls = [s \in Streams |-> 0]
    /\ sandboxMsgCh = [t \in Txs |-> <<>>]
    /\ sendSysResponse = [t \in Txs |-> <<>>]
    /\ faults = 0

Fault == faults < MaxFaults /\ faults' = faults + 1

-----------------------------------------------------------------------------
(* The tables of notifies, here and in the client manager.                 *)

Registered(table, key, t) == {p \in table : p[1] # key} \cup {<<key, t>>}

Deleted(table, key) == {p \in table : p[1] # key}

Found(table, key) == {p[2] : p \in {q \in table : q[1] = key}}

-----------------------------------------------------------------------------
(* recvRoutine.                                                            *)

\* sandboxMsgNotify sets sendSysResponse before it sends to the channel.
RecvMsg(s) ==
    LET m == Head(fromSandbox[s]) IN
    /\ recv[s] = "run"
    /\ fromSandbox[s] # <<>>
    /\ fromSandbox' = [fromSandbox EXCEPT ![s] = Tail(@)]
    /\ \/ /\ Found(sandboxNotify, m.key) = {}
          /\ UNCHANGED <<recv, inHand, sendSysResponse>>
       \/ \E t \in Found(sandboxNotify, m.key) :
             /\ recv' = [recv EXCEPT ![s] = "notify"]
             /\ inHand' = [inHand EXCEPT ![s] = <<t, m.type>>]
             /\ sendSysResponse' = [sendSysResponse EXCEPT ![t] = s]
    /\ UNCHANGED <<sandboxNotify, send, sendResponseCh, stopSend, stopReceive, up,
                   sandbox, calls, sandboxMsgCh, faults>>

sandboxMsgNotify(s) ==
    /\ recv[s] = "notify"
    /\ sandboxMsgCh[inHand[s][1]] = <<>>
    /\ sandboxMsgCh' = [sandboxMsgCh EXCEPT ![inHand[s][1]] = <<inHand[s][2]>>]
    /\ recv' = [recv EXCEPT ![s] = "run"]
    /\ inHand' = [inHand EXCEPT ![s] = <<>>]
    /\ UNCHANGED <<sandboxNotify, send, sendResponseCh, stopSend, stopReceive, up,
                   sandboxVars, sendSysResponse, faults>>

RecvFails(s) ==
    /\ recv[s] = "run"
    /\ s \notin up
    /\ recv' = [recv EXCEPT ![s] = "ended"]
    /\ stopSend' = stopSend \cup {s}
    /\ UNCHANGED <<sandboxNotify, inHand, send, sendResponseCh, stopReceive, up,
                   sandboxVars, boxVars, faults>>

RecvStops(s) ==
    /\ recv[s] = "run"
    /\ s \in stopReceive
    /\ recv' = [recv EXCEPT ![s] = "ended"]
    /\ UNCHANGED <<sandboxNotify, inHand, send, sendResponseCh, stopSend,
                   stopReceive, up, sandboxVars, boxVars, faults>>

-----------------------------------------------------------------------------
(* sendRoutine.                                                            *)

\* The sandbox goes on when the response is for what it asked.
SendResp(s) ==
    /\ send[s] = "run"
    /\ sendResponseCh[s] # <<>>
    /\ s \in up
    /\ sendResponseCh' = [sendResponseCh EXCEPT ![s] = <<>>]
    /\ sandbox' = IF sandbox[s] = [st |-> "ask", key |-> sendResponseCh[s][1]]
                  THEN [sandbox EXCEPT ![s].st = "run"] ELSE sandbox
    /\ UNCHANGED <<sandboxNotify, recv, inHand, send, stopSend, stopReceive, up,
                   fromSandbox, calls, boxVars, faults>>

\* ResourceExhausted: the response is dropped and the stream goes on.
SendTooLarge(s) ==
    /\ send[s] = "run"
    /\ sendResponseCh[s] # <<>>
    /\ Fault
    /\ sendResponseCh' = [sendResponseCh EXCEPT ![s] = <<>>]
    /\ UNCHANGED <<sandboxNotify, recv, inHand, send, stopSend, stopReceive, up,
                   sandboxVars, boxVars>>

SendFails(s) ==
    /\ send[s] = "run"
    /\ sendResponseCh[s] # <<>>
    /\ s \notin up
    /\ sendResponseCh' = [sendResponseCh EXCEPT ![s] = <<>>]
    /\ send' = [send EXCEPT ![s] = "ended"]
    /\ stopReceive' = stopReceive \cup {s}
    /\ UNCHANGED <<sandboxNotify, recv, inHand, stopSend, up, sandboxVars, boxVars,
                   faults>>

SendStops(s) ==
    /\ send[s] = "run"
    /\ s \in stopSend
    /\ send' = [send EXCEPT ![s] = "ended"]
    /\ UNCHANGED <<sandboxNotify, recv, inHand, sendResponseCh, stopSend,
                   stopReceive, up, sandboxVars, boxVars, faults>>

-----------------------------------------------------------------------------
(* The sandbox.                                                            *)

SandboxSays(s, type) ==
    /\ sandbox[s].st = "run"
    /\ fromSandbox' = [fromSandbox EXCEPT
            ![s] = Append(@, [key |-> sandbox[s].key, type |-> type])]
    /\ UNCHANGED <<sandboxNotify, streamVars, boxVars, faults>>

Ask(s) ==
    /\ calls[s] < MaxCalls
    /\ \E type \in {"sys", "batch", "call"} : SandboxSays(s, type)
    /\ sandbox' = [sandbox EXCEPT ![s].st = "ask"]
    /\ calls' = [calls EXCEPT ![s] = @ + 1]

Answer(s) ==
    /\ SandboxSays(s, "response")
    /\ sandbox' = [sandbox EXCEPT ![s].st = "idle"]
    /\ UNCHANGED calls

\* The sandbox is killed or the connection breaks; what was under way is lost.
StreamBreaks(s) ==
    /\ s \in up
    /\ Fault
    /\ up' = up \ {s}
    /\ fromSandbox' = [fromSandbox EXCEPT ![s] = <<>>]
    /\ sandbox' = [sandbox EXCEPT ![s].st = "dead"]
    /\ UNCHANGED <<sandboxNotify, recv, inHand, send, sendResponseCh, stopSend,
                   stopReceive, calls, boxVars>>

=============================================================================
