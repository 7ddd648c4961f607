--------------------------- MODULE ClientManager ---------------------------
(***************************************************************************)
(* The connections from the chain to the contract engine: the client       *)
(* manager (rpc/contract_engine_client_manager.go), its clients            *)
(* (rpc/contract_engine_client.go) and the instance managers of the chains *)
(* (instance_manager.go), which all share one client manager.              *)
(*                                                                         *)
(* A client has a goroutine that sends, one that receives, and one that    *)
(* closes its connection; the goroutine that establishes or re-establishes *)
(* a connection starts the client and enters it into the map.              *)
(***************************************************************************)
EXTENDS Naturals, Sequences, FiniteSets, SequencesExt

CONSTANTS
    Chains,         \* instance managers in the process
    Total,          \* GetMaxConnectionFromConfig
    EventCap,       \* eventSize, 100
    TxCap,          \* txSize, 50000
    MaxTxs,         \* bound on the requests
    MaxFaults       \* bound on the faults

\* One index for each first connection, each one a fault ends and each one that
\* is ended by Stop.
Ids == 0 .. (2 * Total + Total * MaxFaults)

VARIABLES
    chain,          \* where StartVM and StopVM of a chain are
    startOnce,      \* sync.Once of Start
    listening,      \* the goroutine of listen runs
    stop, index, aliveClientMap, eventCh,
    txSendCh,       \* how many messages txSendCh and byteCodeRespCh hold
    starter,        \* the goroutine that connects a client
    sender,         \* sendMsgRoutine
    receiver,       \* receiveMsgRoutine
    stopSend, stopReceive,  \* clients whose channel is closed
    stream,         \* clients whose stream is up
    engineUp,       \* the engine accepts connections
    lost,           \* messages a client took and could not send
    puts, faults

mgrVars == <<chain, startOnce, listening, stop>>
mapVars == <<index, aliveClientMap, eventCh>>
clientVars == <<starter, sender, receiver, stopSend, stopReceive, stream>>
msgVars == <<txSendCh, puts, lost>>
envVars == <<engineUp, faults>>
vars == <<mgrVars, mapVars, clientVars, msgVars, envVars>>

Init ==
    /\ chain = [c \in Chains |-> "new"]
    /\ startOnce = "no" /\ listening = FALSE /\ stop = FALSE
    /\ index = 0 /\ aliveClientMap = {} /\ eventCh = <<>>
    /\ txSendCh = 0 /\ puts = 0
    /\ starter = [i \in Ids |-> "none"]
    /\ sender = [i \in Ids |-> "off"] /\ receiver = [i \in Ids |-> "off"]
    /\ stopSend = {} /\ stopReceive = {} /\ stream = {}
    /\ lost = [i \in Ids |-> 0]
    /\ engineUp \in BOOLEAN
    /\ faults = 0

Fault == faults < MaxFaults /\ faults' = faults + 1

First == 0 .. Total - 1

-----------------------------------------------------------------------------
(* The instance managers.                                                  *)

\* StartVM; the first Start of the client manager runs establishConnections.
StartVM(c) ==
    /\ chain[c] = "new"
    /\ chain' = [chain EXCEPT ![c] = "starting"]
    /\ IF startOnce = "no"
       THEN /\ startOnce' = "running"
            /\ index' = Total
            /\ starter' = [i \in Ids |-> IF i \in First THEN "loop" ELSE "none"]
       ELSE UNCHANGED <<startOnce, index, starter>>
    /\ UNCHANGED <<listening, stop, aliveClientMap, eventCh, sender, receiver,
                   stopSend, stopReceive, stream, msgVars, envVars>>

\* wg.Wait() returns and listen is started; the callers of Start go on.
Established ==
    /\ startOnce = "running"
    /\ \A i \in First : starter[i] = "done"
    /\ startOnce' = "done" /\ listening' = TRUE
    /\ UNCHANGED <<chain, stop, mapVars, clientVars, msgVars, envVars>>

StartReturns(c) ==
    /\ chain[c] = "starting"
    /\ startOnce = "done"
    /\ chain' = [chain EXCEPT ![c] = "started"]
    /\ UNCHANGED <<startOnce, listening, stop, mapVars, clientVars, msgVars, envVars>>

\* StopVM and closeAllConnections, for all chains.  The engine ends the stream
\* of a client that has closed its side.
StopVM(c) ==
    /\ chain[c] \in {"starting", "started"}
    /\ chain' = [chain EXCEPT ![c] = "stopped"]
    /\ stop' = TRUE
    /\ stream' = stream \ aliveClientMap
    /\ UNCHANGED <<startOnce, listening, mapVars, starter, sender, receiver,
                   stopSend, stopReceive, msgVars, envVars>>

-----------------------------------------------------------------------------
(* establishConnections and reconnect.                                     *)

\* At the first connections the return skips wg.Done().
TestStop(i) ==
    /\ starter[i] = "loop"
    /\ starter' = [starter EXCEPT ![i] = IF stop THEN "quit" ELSE "dial"]
    /\ UNCHANGED <<mgrVars, mapVars, sender, receiver, stopSend, stopReceive,
                   stream, msgVars, envVars>>

\* newClient.Start(): the three goroutines run.
StartClient(i) ==
    /\ starter[i] = "dial"
    /\ engineUp
    /\ starter' = [starter EXCEPT ![i] = "add"]
    /\ sender' = [sender EXCEPT ![i] = "run"]
    /\ receiver' = [receiver EXCEPT ![i] = "run"]
    /\ stream' = stream \cup {i}
    /\ UNCHANGED <<mgrVars, mapVars, stopSend, stopReceive, msgVars, envVars>>

\* Mutant: no second attempt.
StartFails_GivesUp(i) ==
    /\ starter[i] = "dial"
    /\ ~engineUp
    /\ starter' = [starter EXCEPT ![i] = "quit"]
    /\ UNCHANGED <<mgrVars, mapVars, sender, receiver, stopSend, stopReceive,
                   stream, msgVars, envVars>>

\* After retryConnectDuration it tries again.
StartFails(i) ==
    /\ starter[i] = "dial"
    /\ ~engineUp
    /\ starter' = [starter EXCEPT ![i] = "loop"]
    /\ UNCHANGED <<mgrVars, mapVars, sender, receiver, stopSend, stopReceive,
                   stream, msgVars, envVars>>

AddClient(i) ==
    /\ starter[i] = "add"
    /\ starter' = [starter EXCEPT ![i] = "done"]
    /\ aliveClientMap' = aliveClientMap \cup {i}
    /\ UNCHANGED <<mgrVars, index, eventCh, sender, receiver, stopSend, stopReceive,
                   stream, msgVars, envVars>>

\* Mutant: the client with the event's index is forgotten, and not replaced.
Listen_NoReconnect ==
    /\ listening
    /\ eventCh # <<>>
    /\ aliveClientMap' = aliveClientMap \ {Head(eventCh)}
    /\ eventCh' = Tail(eventCh)
    /\ UNCHANGED <<mgrVars, index, clientVars, msgVars, envVars>>

\* listen: dropConnection, and a goroutine with the next index.
Listen ==
    /\ listening
    /\ eventCh # <<>>
    /\ aliveClientMap' = aliveClientMap \ {Head(eventCh)}
    /\ eventCh' = Tail(eventCh)
    /\ starter' = [starter EXCEPT ![index] = "loop"]
    /\ index' = index + 1
    /\ UNCHANGED <<mgrVars, sender, receiver, stopSend, stopReceive, stream,
                   msgVars, envVars>>

-----------------------------------------------------------------------------
(* A client.                                                               *)

PutTxRequest ==
    /\ puts < MaxTxs
    /\ txSendCh < TxCap
    /\ puts' = puts + 1
    /\ txSendCh' = txSendCh + 1
    /\ UNCHANGED <<mgrVars, mapVars, clientVars, lost, envVars>>

SendMsg(i) ==
    /\ sender[i] = "run"
    /\ txSendCh > 0
    /\ i \in stream
    /\ txSendCh' = txSendCh - 1
    /\ UNCHANGED <<mgrVars, mapVars, clientVars, puts, lost, envVars>>

\* ResourceExhausted: the message is too large and dropped, the client goes on.
SendTooLarge(i) ==
    /\ sender[i] = "run"
    /\ txSendCh > 0
    /\ Fault
    /\ txSendCh' = txSendCh - 1
    /\ UNCHANGED <<mgrVars, mapVars, clientVars, puts, lost, engineUp>>

\* Mutant: the goroutine goes on with the next message.
SendFails_GoesOn(i) ==
    /\ sender[i] = "run"
    /\ txSendCh > 0
    /\ IF i \in stream THEN Fault ELSE UNCHANGED faults
    /\ txSendCh' = txSendCh - 1
    /\ lost' = [lost EXCEPT ![i] = @ + 1]
    /\ stopReceive' = stopReceive \cup {i}
    /\ UNCHANGED <<mgrVars, mapVars, starter, sender, receiver, stopSend, stream,
                   puts, engineUp>>

\* The stream has ended, or the message could not be sent for another reason.
SendFails(i) ==
    /\ sender[i] = "run"
    /\ txSendCh > 0
    /\ IF i \in stream THEN Fault ELSE UNCHANGED faults
    /\ txSendCh' = txSendCh - 1
    /\ lost' = [lost EXCEPT ![i] = @ + 1]
    /\ stopReceive' = stopReceive \cup {i}
    /\ sender' = [sender EXCEPT ![i] = "ended"]
    /\ UNCHANGED <<mgrVars, mapVars, starter, receiver, stopSend, stream, puts,
                   engineUp>>

SenderStops(i) ==
    /\ sender[i] = "run"
    /\ i \in stopSend
    /\ sender' = [sender EXCEPT ![i] = "ended"]
    /\ UNCHANGED <<mgrVars, mapVars, starter, receiver, stopSend, stopReceive,
                   stream, msgVars, envVars>>

\* The goroutine that waits for either channel closes the connection.
CloseConn(i) ==
    /\ i \in stream
    /\ i \in stopSend \cup stopReceive
    /\ stream' = stream \ {i}
    /\ UNCHANGED <<mgrVars, mapVars, starter, sender, receiver, stopSend,
                   stopReceive, msgVars, envVars>>

ReceiveFails(i) ==
    /\ receiver[i] = "run"
    /\ i \notin stream
    /\ stopSend' = stopSend \cup {i}
    /\ receiver' = [receiver EXCEPT ![i] = "report"]
    /\ UNCHANGED <<mgrVars, mapVars, starter, sender, stopReceive, stream, msgVars,
                   envVars>>

\* stopReceive is seen between two messages.
ReceiverStops(i) ==
    /\ receiver[i] = "run"
    /\ i \in stopReceive
    /\ receiver' = [receiver EXCEPT ![i] = "report"]
    /\ UNCHANGED <<mgrVars, mapVars, starter, sender, stopSend, stopReceive,
                   stream, msgVars, envVars>>

\* The deferred PutEvent of the receiving goroutine.
PutEvent(i) ==
    /\ receiver[i] = "report"
    /\ Len(eventCh) < EventCap
    /\ eventCh' = Append(eventCh, i)
    /\ receiver' = [receiver EXCEPT ![i] = "ended"]
    /\ UNCHANGED <<mgrVars, index, aliveClientMap, starter, sender, stopSend,
                   stopReceive, stream, msgVars, envVars>>

-----------------------------------------------------------------------------
(* The engine.                                                             *)

Break(i) ==
    /\ i \in stream
    /\ Fault
    /\ stream' = stream \ {i}
    /\ UNCHANGED <<mgrVars, mapVars, starter, sender, receiver, stopSend,
                   stopReceive, msgVars, engineUp>>

EngineStops ==
    /\ engineUp
    /\ Fault
    /\ engineUp' = FALSE
    /\ stream' = {}
    /\ UNCHANGED <<mgrVars, mapVars, starter, sender, receiver, stopSend,
                   stopReceive, msgVars>>

EngineStarts ==
    /\ ~engineUp
    /\ engineUp' = TRUE
    /\ UNCHANGED <<mgrVars, mapVars, clientVars, msgVars, faults>>

-----------------------------------------------------------------------------
Connect(i) == TestStop(i) \/ StartClient(i) \/ StartFails(i) \/ AddClient(i)

Sender(i) == SendMsg(i) \/ SendFails(i) \/ SenderStops(i)

Receiver(i) == ReceiveFails(i) \/ ReceiverStops(i) \/ PutEvent(i)

Next ==
    \/ \E c \in Chains : StartVM(c) \/ StartReturns(c) \/ StopVM(c)
    \/ Established \/ Listen
    \/ \E i \in Ids : Connect(i) \/ Sender(i) \/ SendTooLarge(i) \/ CloseConn(i)
                      \/ Receiver(i) \/ Break(i)
    \/ PutTxRequest
    \/ EngineStops \/ EngineStarts

Spec == Init /\ [][Next]_vars

\* Every goroutine that can take a step does; the engine is started again.
Fairness ==
    /\ \A c \in Chains : WF_vars(StartReturns(c))
    /\ WF_vars(Established) /\ WF_vars(Listen) /\ WF_vars(EngineStarts)
    /\ \A i \in Ids : /\ WF_vars(Connect(i)) /\ WF_vars(Sender(i))
                      /\ WF_vars(CloseConn(i)) /\ WF_vars(Receiver(i))

FairSpec == Spec /\ Fairness

-----------------------------------------------------------------------------
(* Properties.                                                             *)

\* A connection is being made, used, or about to be replaced.
Kept(i) ==
    \/ starter[i] \in {"loop", "dial"}
    \/ receiver[i] \in {"run", "report"}
    \/ i \in ToSet(eventCh)

\* Until Stop the manager has neither fewer nor more connections under way than
\* configured, however send and receive errors of a client coincide, clients
\* end before they are entered into the map or before listen runs: every end is
\* followed by exactly one reconnect.
ConnectionsKept ==
    startOnce # "no" /\ ~stop => Cardinality({i \in Ids : Kept(i)}) = Total

\* A client that ends takes at most one message with it: its sender stops at
\* the first error, and what is left goes through another client.
OneLossPerClient == \A i \in Ids : lost[i] <= 1

Serving(i) == sender[i] = "run" /\ receiver[i] = "run" /\ i \in stream

\* When the faults are over and Stop is not called, all connections work in the
\* end, and the map of alive clients has them.
Recovers ==
    startOnce # "no" ~>
        [](stop \/ \E s \in SUBSET aliveClientMap :
                        Cardinality(s) = Total /\ \A i \in s : Serving(i))

\* StartVM returns, unless Stop comes while the first connections are made.
StartVMReturns ==
    \A c \in Chains : chain[c] = "starting" ~> chain[c] # "starting" \/ stop

=============================================================================
