-------------------------- MODULE ContractDelivery --------------------------
(***************************************************************************)
(* How a transaction meets its contract: the chain's RPC service, the      *)
(* request scheduler, the request groups and the contract manager, joined  *)
(* by the channels they send to each other on.  The processes that launch  *)
(* contracts are modelled as far as they take transactions and report bad  *)
(* contracts; ProcessPool models them in full.                             *)
(***************************************************************************)
EXTENDS RequestGroup, ContractManager, FiniteSets, FiniteSetsExt

CONSTANTS
    Procs,          \* processes
    Conns,          \* streams of the chain's clients
    EventCap,       \* capacity of a request group's eventCh, 100
    Settings        \* how the engine may be started and used: the limit of
                    \* the cache, MaxFileSize / 15; the protocol; the contract
                    \* files left of an earlier life; the transactions it is
                    \* sent; a bound on the faults

VARIABLES
    maxEntries,     \* contractsLRU.MaxEntries
    load,           \* the transactions the chain sends
    maxFaults,      \* how many faults are possible
    tcp,            \* ChainRPCProtocol == TCP: bytecode comes in the response
    requestGroups,  \* the scheduler's map: the groups that were created
    group,          \* the request groups
    cm,             \* the contract manager
    serviceCh,      \* eventCh of the ChainRPCService: messages to the chain
    conn,           \* the streams
    chainReq,       \* bytecode requests that a running Invoke is to answer
    pm,             \* requests and exit messages of the process managers
    proc,           \* the processes
    issued,         \* transactions sent by the chain
    answered,       \* those whose Invoke got a result or an ERROR
    lost,           \* those whose ERROR was lost with a stream
    ioFailed,       \* a file could not be removed or written
    faults          \* faults so far

config == <<maxEntries, tcp, load, maxFaults>>
engineVars == <<requestGroups, group, cm>>
chainVars == <<serviceCh, conn, chainReq>>
procVars == <<pm, proc>>
txVars == <<issued, answered, lost>>
faultVars == <<ioFailed, faults>>
vars == <<config, engineVars, chainVars, procVars, txVars, faultVars>>

-----------------------------------------------------------------------------
NoProc == [at |-> "off"]

Init ==
    /\ \E s \in Settings :
        /\ maxEntries = s.maxEntries
        /\ load = s.load
        /\ maxFaults = s.maxFaults
        /\ tcp = s.tcp
        /\ cm = initContractLRU(s.found, s.maxEntries)
    /\ requestGroups = {}
    /\ group = [g \in Groups |-> NewRequestGroup]
    /\ serviceCh = <<>>
    /\ conn = [c \in Conns |-> "up"]
    /\ chainReq = <<>>
    /\ pm = {}
    /\ proc = [p \in Procs |-> NoProc]
    /\ issued = {} /\ answered = {} /\ lost = {}
    /\ ioFailed = FALSE
    /\ faults = 0

Fault == faults < maxFaults /\ faults' = faults + 1

-----------------------------------------------------------------------------
(* The scheduler.  It passes each message on in the order it got them and  *)
(* keeps nothing but the map of groups, so its channels are one with those *)
(* of the receivers.                                                       *)

\* PutMsg and handleTxReq: creates the group if there is none.
ScheduleTx(groups, t) ==
    /\ requestGroups' = requestGroups \cup {TxGroup[t]}
    /\ group' = [groups EXCEPT ![TxGroup[t]].txCh =
                                    Append(@, [type |-> "tx", tx |-> t])]

\* handleGetContractReq and handleErrResp: to the chain.
ScheduleToChain(msgs) == serviceCh' = serviceCh \o msgs

\* handleGetContractResp: to the contract manager.
ScheduleResponse(m, g, code) ==
    cm' = [m EXCEPT !.eventCh =
                Append(@, [type |-> "resp", group |-> g, code |-> code])]

-----------------------------------------------------------------------------
(* The chain RPC service and the chain behind it.                          *)

Connected == \E c \in Conns : conn[c] = "up"

\* recvMsgRoutine: a TX_REQUEST goes to the scheduler.
RecvTxRequest(t) ==
    /\ t \in load \ issued
    /\ Connected
    /\ issued' = issued \cup {t}
    /\ ScheduleTx(group, t)
    /\ UNCHANGED <<config, cm, chainVars, procVars, answered, lost, faultVars>>

Errors(msg) == {t \in {msg.tx} : msg.type = "error"}

\* sendMsgRoutine.  The chain drops a bytecode request when the Invoke it is
\* addressed to has returned.
SendMsg(c) ==
    /\ conn[c] = "up"
    /\ serviceCh # <<>>
    /\ LET msg == Head(serviceCh)
       IN /\ answered' = answered \cup Errors(msg)
          /\ chainReq' = IF msg.type = "req" /\ msg.tx \notin answered
                         THEN Append(chainReq, msg)
                         ELSE chainReq
    /\ serviceCh' = Tail(serviceCh)
    /\ UNCHANGED <<config, engineVars, conn, procVars, issued, lost, faultVars>>

\* The send goroutine of a broken stream may still take a message; Send fails,
\* the message is lost and the goroutine ends.
SendFails(c) ==
    /\ conn[c] = "broken"
    /\ serviceCh # <<>>
    /\ lost' = lost \cup Errors(Head(serviceCh))
    /\ serviceCh' = Tail(serviceCh)
    /\ conn' = [conn EXCEPT ![c] = "off"]
    /\ UNCHANGED <<config, engineVars, chainReq, procVars, issued, answered,
                   faultVars>>

\* The receive goroutine has closed stopSendCh.
StopSend(c) ==
    /\ conn[c] = "broken"
    /\ conn' = [conn EXCEPT ![c] = "off"]
    /\ UNCHANGED <<config, engineVars, serviceCh, chainReq, procVars, txVars,
                   faultVars>>

\* A stream breaks.
Break(c) ==
    /\ conn[c] = "up"
    /\ Fault
    /\ conn' = [conn EXCEPT ![c] = "broken"]
    /\ UNCHANGED <<config, engineVars, serviceCh, chainReq, procVars, txVars,
                   ioFailed>>

\* A new stream of a client that reconnected: DockerVMCommunicate.
Connect(c) ==
    /\ conn[c] = "off"
    /\ conn' = [conn EXCEPT ![c] = "up"]
    /\ UNCHANGED <<config, engineVars, serviceCh, chainReq, procVars, txVars,
                   faultVars>>

\* The file of the contract, in the directory that is mounted into the engine.
saveBytesToDisk(g, fails) == [cm EXCEPT !.files = IF fails THEN @ ELSE @ \cup {g}]

\* The archive is unpacked in a directory of its own; any step of this may fail.
extractContract(g, fails) ==
    [ok |-> ~fails, cm |-> IF tcp THEN cm ELSE saveBytesToDisk(g, fails)]

\* The chain's side of a bytecode request.  missing: the Invoke has no bytecode,
\* it is read from the chain's database.  Otherwise the answer is OK even when the
\* file could not be saved.
handleGetByteCodeRequest(g, missing, fails) ==
    IF missing
    THEN [code |-> IF extractContract(g, fails).ok THEN "OK" ELSE "FAIL",
          cm |-> extractContract(g, fails).cm]
    ELSE [code |-> "OK", cm |-> IF tcp THEN cm ELSE saveBytesToDisk(g, fails)]

\* The Invoke that was asked answers, and recvMsgRoutine passes the answer on.
ChainAnswers(i) ==
    /\ Connected
    /\ \E missing \in BOOLEAN :
        LET r == handleGetByteCodeRequest(chainReq[i].group, missing, FALSE)
        IN ScheduleResponse(r.cm, chainReq[i].group, r.code)
    /\ chainReq' = RemoveAt(chainReq, i)
    /\ UNCHANGED <<config, requestGroups, group, serviceCh, conn, procVars,
                   txVars, faultVars>>

\* The chain cannot read, unpack or save the bytecode; or the answer is lost with
\* the stream after the file was written.
ChainFails(i) ==
    /\ Fault
    /\ \E missing \in BOOLEAN :
        LET r == handleGetByteCodeRequest(chainReq[i].group, missing, TRUE)
        IN \/ ScheduleResponse(r.cm, chainReq[i].group, r.code)
           \/ cm' = handleGetByteCodeRequest(chainReq[i].group, missing, FALSE).cm
    /\ chainReq' = RemoveAt(chainReq, i)
    /\ UNCHANGED <<config, requestGroups, group, serviceCh, conn, procVars,
                   txVars, ioFailed>>

\* An answer to a request of the engine's earlier life.
StaleAnswer(g) ==
    /\ Fault
    /\ ScheduleResponse(handleGetByteCodeRequest(g, FALSE, FALSE).cm, g, "OK")
    /\ UNCHANGED <<config, requestGroups, group, chainVars, procVars, txVars,
                   ioFailed>>

-----------------------------------------------------------------------------
(* The contract manager.                                                   *)

\* sendContractReadySignal: the group exists unless the engine was restarted.
sendContractReadySignal(g, codes) ==
    IF g \in requestGroups
    THEN [group EXCEPT ![g].txCh =
            @ \o [i \in DOMAIN codes |-> [type |-> "ready", code |-> codes[i]]]]
    ELSE group

\* removed, stored: removing and writing files work unless there is a fault.
ManageContracts ==
    /\ cm.eventCh # <<>>
    /\ \E removed, stored \in BOOLEAN :
        /\ IF removed /\ stored THEN UNCHANGED faultVars
                                ELSE ioFailed' = TRUE /\ Fault
        /\ LET msg == Head(cm.eventCh)
               m == [cm EXCEPT !.eventCh = Tail(@)]
               step == CASE msg.type = "req" -> handleGetContractReq(m, msg)
                         [] msg.type = "resp" ->
                              handleGetContractResp(m, msg, maxEntries, tcp,
                                                    removed, stored)
                         [] msg.type = "bad" -> removeBadContract(m, msg, removed)
           IN /\ cm' = step.cm
              /\ ScheduleToChain(step.out)
              /\ group' = sendContractReadySignal(msg.group, step.signal)
    /\ UNCHANGED <<config, requestGroups, conn, chainReq, procVars, txVars>>

-----------------------------------------------------------------------------
(* The request groups.                                                     *)

ProcsOf(g, k) == {p \in Procs : /\ proc[p].at # "off"
                                /\ proc[p].group = g
                                /\ proc[p].kind = k}

\* processNum - readyOrBusyProcessNum, for both kinds.
Created(g) == [k \in Kinds |->
                 Cardinality({p \in ProcsOf(g, k) : proc[p].at = "launching"})]

\* time.Now().UnixNano(): a version no process or message still refers to.
FreshVersion(g) ==
    LET used == {group[g].version}
                \cup {proc[p].version : p \in UNION {ProcsOf(g, k) : k \in Kinds}}
                \cup {group[g].eventCh[i].version :
                        i \in {j \in DOMAIN group[g].eventCh :
                                    group[g].eventCh[j].type = "bad"}}
    IN Min(1..(Cardinality(used) + 1) \ used)

\* A handler has made r of the group g: what it sends is delivered.
GroupStep(g, r) ==
    LET sent(to) == SelectSeq(r.out, LAMBDA m : m.to = to)
    IN /\ ~group[g].blocked
       /\ group' = [group EXCEPT ![g] = [r EXCEPT !.out = <<>>]]
       /\ cm' = [cm EXCEPT !.eventCh = @ \o sent("cm")]
       /\ ScheduleToChain(sent("sched"))
       /\ pm' = pm \cup {[type |-> "get", group |-> g, kind |-> m.kind] :
                            m \in ToSet(sent("pm"))}
       /\ UNCHANGED <<config, requestGroups, conn, chainReq, proc, txVars,
                      faultVars>>

\* A message from the channel for transactions.
GroupTx(g) ==
    /\ group[g].txCh # <<>>
    /\ LET msg == Head(group[g].txCh)
           r == [group[g] EXCEPT !.txCh = Tail(@)]
       IN \/ /\ msg.type = "tx"
             /\ GroupStep(g, handleTxReq(r, g, msg.tx, Created(g)))
          \/ /\ msg.type = "ready"
             /\ GroupStep(g, handleContractReadyResp(r, g, msg.code,
                                            FreshVersion(g), Created(g)))

\* A message from the event channel.
GroupEvent(g) ==
    /\ group[g].eventCh # <<>>
    /\ LET msg == Head(group[g].eventCh)
           r == [group[g] EXCEPT !.eventCh = Tail(@)]
       IN \/ /\ msg.type = "bad"
             /\ GroupStep(g, handleBadContractResp(r, g, msg))
          \/ /\ msg.type = "process"
             /\ GroupStep(g, handleProcessReadyResp(r, msg, Created(g)))

\* The bytecode timer fires.
GroupTimeout(g) ==
    /\ group[g].getBytecodeTimer
    /\ GroupStep(g, handleGetBytecodeTimeout(group[g], g))

-----------------------------------------------------------------------------
(* The process managers and the processes.                                 *)

\* A sender to the event channel of a group waits until there is room.
EventRoom(g) == Len(group[g].eventCh) < EventCap

ProcessReady(k) == [type |-> "process", kind |-> k]

\* A request is answered by a new process, which reads the version of the
\* contract file before it launches it.
Allocate(p) ==
    /\ proc[p].at = "off"
    /\ \E req \in {m \in pm : m.type = "get" /\ EventRoom(m.group)} :
        /\ proc' = [proc EXCEPT ![p] =
                        [at |-> "launching", group |-> req.group,
                         kind |-> req.kind, version |-> group[req.group].version]]
        /\ group' = [group EXCEPT ![req.group].eventCh =
                        Append(@, ProcessReady(req.kind))]
        /\ pm' = pm \ {req}
    /\ UNCHANGED <<config, requestGroups, cm, chainVars, txVars, faultVars>>

\* A group whose last process has exited is told.
HandleExit ==
    /\ \E msg \in {m \in pm : m.type = "exit" /\ EventRoom(m.group)} :
        /\ pm' = pm \ {msg}
        /\ group' = IF ProcsOf(msg.group, msg.kind) = {}
                    THEN [group EXCEPT ![msg.group].eventCh =
                                Append(@, ProcessReady(msg.kind))]
                    ELSE group
    /\ UNCHANGED <<config, requestGroups, cm, chainVars, proc, txVars, faultVars>>

\* launchProcess starts the contract's file.
LaunchSucceeds(p) ==
    /\ proc[p].at = "launching"
    /\ proc[p].group \in cm.files
    /\ proc' = [proc EXCEPT ![p].at = "running"]
    /\ UNCHANGED <<config, engineVars, chainVars, pm, txVars, faultVars>>

\* The process ends; its manager is told.
Exit(p) ==
    /\ proc' = [proc EXCEPT ![p] = NoProc]
    /\ pm' = pm \cup {[type |-> "exit", group |-> proc[p].group,
                       kind |-> proc[p].kind]}

Queue(p) == group[proc[p].group].queue[proc[p].kind]

\* The groups after p has taken its first transaction.
Taken(p) == [group EXCEPT ![proc[p].group].queue[proc[p].kind] = Tail(@)]

\* The groups after p has taken a transaction and reported a bad contract.
Reported(p, version) ==
    [Taken(p) EXCEPT ![proc[p].group].eventCh =
        Append(@, [type |-> "bad", tx |-> Head(Queue(p)), version |-> version])]

\* Mutant: the transaction of a contract that is not there is dropped.
LaunchNotExist_Drop(p) ==
    /\ proc[p].at = "launching"
    /\ proc[p].group \notin cm.files
    /\ EventRoom(proc[p].group)
    /\ Exit(p)
    /\ Queue(p) # <<>>
    /\ group' = Reported(p, proc[p].version)
    /\ UNCHANGED <<config, requestGroups, cm, chainVars, txVars, faultVars>>

\* ContractNotExistError: the process puts a transaction back and reports.
LaunchNotExist(p) ==
    /\ proc[p].at = "launching"
    /\ proc[p].group \notin cm.files
    /\ EventRoom(proc[p].group)
    /\ Exit(p)
    /\ IF Queue(p) = <<>>
       THEN UNCHANGED <<requestGroups, group>>
       ELSE ScheduleTx(Reported(p, proc[p].version), Head(Queue(p)))
    /\ UNCHANGED <<config, cm, chainVars, txVars, faultVars>>

\* A process fails a transaction, reports a bad contract and exits.
FailTx(p, version) ==
    /\ EventRoom(proc[p].group)
    /\ Exit(p)
    /\ ScheduleToChain(<<ErrorResp(Head(Queue(p)))>>)
    /\ group' = Reported(p, version)
    /\ UNCHANGED <<config, requestGroups, cm, conn, chainReq, txVars, ioFailed>>

\* ContractExecError: without a transaction the process just exits.
LaunchFails(p) ==
    /\ proc[p].at = "launching"
    /\ proc[p].group \in cm.files
    /\ Fault
    /\ \/ /\ Queue(p) # <<>>
          /\ FailTx(p, proc[p].version)
       \/ /\ Queue(p) = <<>>
          /\ Exit(p)
          /\ UNCHANGED <<config, engineVars, chainVars, txVars, ioFailed>>

\* The sandbox runs a transaction; the result goes to the chain directly.
Execute(p) ==
    /\ proc[p].at = "running"
    /\ Queue(p) # <<>>
    /\ answered' = answered \cup {Head(Queue(p))}
    /\ group' = Taken(p)
    /\ UNCHANGED <<config, requestGroups, cm, chainVars, procVars, issued, lost,
                   faultVars>>

\* The sandbox ends while it runs an init or upgrade.  The report carries the
\* group's version of that moment, not the one that was launched.
InitFails(p) ==
    /\ proc[p].at = "running"
    /\ Queue(p) # <<>>
    /\ Fault
    /\ FailTx(p, group[proc[p].group].version)

\* An init or upgrade answers with an error: handleTxResp ends the sandbox, and
\* the process, which is ready then, reports the contract.
InitErrors(p) ==
    /\ proc[p].at = "running"
    /\ Queue(p) # <<>>
    /\ EventRoom(proc[p].group)
    /\ Fault
    /\ Exit(p)
    /\ answered' = answered \cup {Head(Queue(p))}
    /\ group' = Reported(p, group[proc[p].group].version)
    /\ UNCHANGED <<config, requestGroups, cm, chainVars, issued, lost, ioFailed>>

\* An idle process is closed, or changed to another contract.
Retire(p) ==
    /\ proc[p].at = "running"
    /\ Queue(p) = <<>>
    /\ Exit(p)
    /\ UNCHANGED <<config, engineVars, chainVars, txVars, faultVars>>

-----------------------------------------------------------------------------
Next ==
    \/ \E t \in Txs : RecvTxRequest(t)
    \/ \E c \in Conns : \/ SendMsg(c) \/ SendFails(c) \/ StopSend(c)
                        \/ Break(c) \/ Connect(c)
    \/ \E i \in DOMAIN chainReq : ChainAnswers(i) \/ ChainFails(i)
    \/ \E g \in Groups : StaleAnswer(g)
    \/ ManageContracts
    \/ \E g \in Groups : GroupTx(g) \/ GroupEvent(g) \/ GroupTimeout(g)
    \/ HandleExit
    \/ \E p \in Procs : \/ Allocate(p) \/ LaunchSucceeds(p) \/ LaunchNotExist(p)
                        \/ LaunchFails(p) \/ Execute(p) \/ InitFails(p)
                        \/ InitErrors(p) \/ Retire(p)

\* Every goroutine that can run does in the end.  A group's select picks among
\* ready channels at random, so that each of them gets its turn.
Fairness ==
    /\ \A c \in Conns : WF_vars(SendMsg(c)) /\ WF_vars(StopSend(c)) /\ WF_vars(Connect(c))
    /\ WF_vars(\E i \in DOMAIN chainReq : ChainAnswers(i))
    /\ WF_vars(ManageContracts)
    /\ \A g \in Groups : /\ WF_vars(GroupTx(g)) /\ WF_vars(GroupEvent(g))
                         /\ WF_vars(GroupTimeout(g))
    /\ WF_vars(HandleExit)
    /\ \A p \in Procs :
        /\ WF_vars(Allocate(p))
        /\ WF_vars(LaunchSucceeds(p)) /\ WF_vars(LaunchNotExist(p))
        /\ WF_vars(Execute(p)) /\ WF_vars(Retire(p))

Spec == Init /\ [][Next]_vars

FairSpec == Spec /\ Fairness

-----------------------------------------------------------------------------
(* Properties.                                                             *)

Messages(ch) == ToSet(ch)

CountIn(seq, t) == Cardinality({i \in DOMAIN seq : seq[i] = t})

\* ERROR messages for t among the messages of a channel.
ErrorsIn(ch, t) ==
    Cardinality({i \in DOMAIN ch : ch[i].type = "error" /\ ch[i].tx = t})

\* How often t is somewhere: in a channel, in a group, or answered.
Occurrences(t) ==
    LET g == TxGroup[t]
    IN CountIn(group[g].txCh, [type |-> "tx", tx |-> t])
       + CountIn(group[g].bufCh, t)
       + CountIn(group[g].queue["orig"], t) + CountIn(group[g].queue["cross"], t)
       + ErrorsIn(serviceCh, t)
       + Cardinality({t} \cap answered) + Cardinality({t} \cap lost)

\* Every transaction sent to the engine is in exactly one place: none is
\* dropped and none is run or answered twice, whatever the contract's fate:
\* evicted, bad, failed or timed out while transactions are buffered
\* (handleTxReq, handleContractReadyResp, handleGetBytecodeErr and the
\* process's return of a transaction).
TxInOnePlace ==
    \A t \in Txs : Occurrences(t) = Cardinality({t} \cap issued)

\* A group that waits for its contract has its timer running, and only then
\* are there transactions in bufCh: whatever sequence of late, failed and
\* repeated answers it gets, a buffered transaction never waits without a
\* limit (sendGetContractReq, handleContractReadyResp).
BufferedIsTimed ==
    \A g \in Groups :
        /\ group[g].getBytecodeTimer <=> group[g].contractState = "waiting"
        /\ group[g].bufCh # <<>> => group[g].contractState = "waiting"

\* The cache never holds more than MaxEntries contracts and none twice, also
\* when an answer comes for a contract that is cached already; a limit of zero
\* keeps it empty (handleGetContractResp, Cache.Add).
CacheBounded ==
    /\ Len(cm.lru) <= maxEntries
    /\ Cardinality(ToSet(cm.lru)) = Len(cm.lru)

\* With TCP, where the manager alone writes and removes files, the disk holds
\* exactly the cached contracts as long as its file operations succeed: the
\* limit of the cache is a limit of the disk.
DiskMatchesCache == tcp /\ ~ioFailed => cm.files = ToSet(cm.lru)

\* A process has reported the contract of g as bad or missing.
BadReported(g) == \E msg \in Messages(group[g].eventCh) : msg.type = "bad"

\* Every transaction is executed or answered with an error in the end, whatever
\* streams break, answers are lost, late or for another request, and timers
\* fire; unless its group comes to the receive from an empty bufCh or a process
\* reports the contract.  From there on a group can act for ever on the answer
\* to its request before last, and launch a file that is just being removed.
TxAnswered ==
    \A t \in Txs :
        t \in issued ~> \/ t \in answered \cup lost
                        \/ group[TxGroup[t]].blocked
                        \/ BadReported(TxGroup[t])

=============================================================================
