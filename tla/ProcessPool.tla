---------------------------- MODULE ProcessPool ----------------------------
(***************************************************************************)
(* The process pool: the process manager, its processes and their          *)
(* sandboxes, and the request groups that ask for processes.               *)
(*                                                                         *)
(* A request group appears here with one tx controller whose contract is   *)
(* ready (core/request_group.go): its channel of transactions, whether it  *)
(* waits for the process manager, and whether its goroutine is inside      *)
(* getProcesses.  Transactions are counted.                                *)
(***************************************************************************)
EXTENDS ProcessManager

CONSTANTS
    UserQueue,      \* the queue of the user manager at the start
    Load,           \* Load[g]: transactions that will reach group g (bound)
    MaxFaults,      \* how many faults the environment may cause (bound)
    LaunchErrors,   \* what may go wrong when a sandbox is launched
    MayCrash,       \* a sandbox may end by itself
    MayFailInit,    \* an init or upgrade may fail
    MayOutrun       \* the exit of a sandbox may be handled before the call
                    \* that killed it has updated the state of the process

ASSUME PoolAssumption ==
    /\ UserQueue \in Seq(Users)
    /\ Elements(UserQueue) = Users /\ Len(UserQueue) = Cardinality(Users)
    /\ Load \in [Groups -> Nat] /\ MaxFaults \in Nat
    /\ LaunchErrors \subseteq ExitErrors
    /\ {MayCrash, MayFailInit, MayOutrun} \subseteq BOOLEAN

VARIABLES
    inflight,       \* transactions on their way from the scheduler to a group
    txCh,           \* transactions in the channel that processes read
    processWaiting, \* controller.processWaiting
    asking,         \* the group's goroutine is in getProcesses
    faults          \* faults the environment may still cause

groupVars == <<inflight, txCh, processWaiting, asking>>
vars == <<procVars, pmVars, groupVars, faults>>

TypeOK ==
    /\ ProcTypeOK
    /\ PMTypeOK
    /\ inflight \in [Groups -> Nat]
    /\ txCh \in [Groups -> Nat]
    /\ processWaiting \in [Groups -> BOOLEAN]
    /\ asking \in [Groups -> BOOLEAN]
    /\ faults \in Nat

Init ==
    /\ ProcInit
    /\ PMInit(UserQueue)
    /\ inflight = Load
    /\ txCh = [g \in Groups |-> 0]
    /\ processWaiting = [g \in Groups |-> FALSE]
    /\ asking = [g \in Groups |-> FALSE]
    /\ faults = MaxFaults

-----------------------------------------------------------------------------
(* Request groups.                                                         *)

\* handleTxReq: the transaction goes to txCh, then getProcesses, which returns
\* at once while the controller waits.
handleTxReq(g) ==
    /\ ~asking[g]
    /\ inflight[g] > 0
    /\ inflight' = [inflight EXCEPT ![g] = @ - 1]
    /\ txCh' = [txCh EXCEPT ![g] = @ + 1]
    /\ asking' = [asking EXCEPT ![g] = ~processWaiting[g]]
    /\ UNCHANGED <<procVars, pmVars, processWaiting, faults>>

handleProcessReadyResp(g) ==
    /\ ~asking[g]
    /\ replies[g] > 0
    /\ replies' = [replies EXCEPT ![g] = @ - 1]
    /\ processWaiting' = [processWaiting EXCEPT ![g] = FALSE]
    /\ asking' = [asking EXCEPT ![g] = TRUE]
    /\ UNCHANGED <<procVars, cacheVars, waitingRequestGroups, eventCh,
                   allocateIdleCh, allocateNewCh, cleanTimer, freeUsers, user, op,
                   request, allocated, create, inflight, txCh, faults>>

\* getProcesses reads the numbers under the read lock of the process manager.
getProcesses(g) ==
    /\ asking[g]
    /\ AtRest /\ EventRoom
    /\ LET readyOrBusy == {n \in processGroups[g] :
                             processState[object[n]] \in {"ready", "busy"}}
           need == txCh[g] - ( Cardinality(processGroups[g])
                               - Cardinality(readyOrBusy) )
       IN  IF need > 0
             THEN /\ eventCh' = Append(eventCh, [type |-> "get", group |-> g,
                                                 num |-> need])
                  /\ processWaiting' = [processWaiting EXCEPT ![g] = TRUE]
             ELSE UNCHANGED <<eventCh, processWaiting>>
    /\ asking' = [asking EXCEPT ![g] = FALSE]
    /\ UNCHANGED <<procVars, cacheVars, waitingRequestGroups, allocateIdleCh,
                   allocateNewCh, cleanTimer, freeUsers, user, replies, op, request,
                   allocated, create, inflight, txCh, faults>>

-----------------------------------------------------------------------------
(* The listener of a process, where it takes transactions or calls the     *)
(* process manager.                                                        *)

\* Mutant: the receive does not wait for a transaction.
Take_Empty(g) == txCh' = [txCh EXCEPT ![g] = @ - 1]

Take(g) ==
    /\ txCh[g] > 0
    /\ txCh' = [txCh EXCEPT ![g] = @ - 1]

\* handleTxRequest: the transaction is sent to the sandbox, or it is too old
\* and dropped.
handleTxRequest(p) ==
    /\ listener[p] = "run" /\ processState[p] = "ready" /\ Unlocked(p)
    /\ Take(requestGroup[p])
    /\ StartTx(p) \/ UNCHANGED procVars
    /\ UNCHANGED <<pmVars, inflight, processWaiting, asking, faults>>

handleTxResp(p, failed) ==
    /\ failed => MayFailInit /\ faults > 0
    /\ HandleTxResp(p, failed)
    /\ faults' = IF failed THEN faults - 1 ELSE faults
    /\ UNCHANGED <<pmVars, groupVars>>

\* handleTimeout of a ready process, where ChangeProcessState has pm.lock.
ChangeStateToIdle(p) ==
    /\ listener[p] = "idling"
    /\ Ready
    /\ IF processName[p] \in busyProcesses
         THEN /\ ChangeToIdle(processName[p])
              /\ listener' = [listener EXCEPT ![p] = "idled"]
         ELSE /\ UNCHANGED pmVars
              /\ listener' = [listener EXCEPT ![p] = "run"]
    /\ UNCHANGED <<processState, processName, requestGroup, sandbox, watched, exitCh,
                   cmdReadyCh, updateCh, selected, arg, call, groupVars, faults>>

\* handleIdleTxRequest: the listener takes a transaction from the channel it
\* selected and evaluates the argument of ChangeProcessState...
handleIdleTxRequest(p) ==
    /\ listener[p] = "idle"
    /\ Take(selected[p])
    /\ listener' = [listener EXCEPT ![p] = "waking"]
    /\ arg' = [arg EXCEPT ![p] = processName[p]]
    /\ UNCHANGED <<processState, processName, requestGroup, sandbox, watched, exitCh,
                   cmdReadyCh, updateCh, selected, call, pmVars, inflight,
                   processWaiting, asking, faults>>

\* Mutant: ChangeProcessState does not take pm.lock.
ChangeStateToBusy_Unlocked(p) ==
    /\ listener[p] = "waking"
    /\ IF arg[p] \in IdleNames
         THEN /\ ChangeToBusy(arg[p])
              /\ listener' = [listener EXCEPT ![p] = "woken"]
              /\ UNCHANGED <<selected, inflight>>
         ELSE /\ UNCHANGED pmVars
              /\ listener' = [listener EXCEPT ![p] = Branch(processState[p])]
              /\ selected' = [selected EXCEPT ![p] = requestGroup[p]]
              /\ inflight' = [inflight EXCEPT ![selected[p]] = @ + 1]
    /\ arg' = [arg EXCEPT ![p] = AnyName]
    /\ UNCHANGED <<processState, processName, requestGroup, sandbox, watched, exitCh,
                   cmdReadyCh, updateCh, call, txCh, processWaiting, asking, faults>>

\* ... gets pm.lock: when the name is not idle any more the transaction goes
\* back to the scheduler...
ChangeStateToBusy(p) ==
    /\ listener[p] = "waking"
    /\ AtRest
    /\ IF arg[p] \in IdleNames
         THEN /\ ChangeToBusy(arg[p])
              /\ listener' = [listener EXCEPT ![p] = "woken"]
              /\ UNCHANGED <<selected, inflight>>
         ELSE /\ UNCHANGED pmVars
              /\ listener' = [listener EXCEPT ![p] = Branch(processState[p])]
              /\ selected' = [selected EXCEPT ![p] = requestGroup[p]]
              /\ inflight' = [inflight EXCEPT ![selected[p]] = @ + 1]
    /\ arg' = [arg EXCEPT ![p] = AnyName]
    /\ UNCHANGED <<processState, processName, requestGroup, sandbox, watched, exitCh,
                   cmdReadyCh, updateCh, call, txCh, processWaiting, asking, faults>>

\* ... and so it does after the state was updated.
EndIdleTxRequest(p) ==
    /\ BecomeReady(p)
    /\ inflight' = [inflight EXCEPT ![selected[p]] = @ + 1]
    /\ UNCHANGED <<pmVars, txCh, processWaiting, asking, faults>>

\* handleProcessExit, cases that release the process.  A transaction that
\* waits in the channel is answered when the contract cannot be executed, and
\* given back when its file does not exist.  All but a closing process report
\* the exit under the name and the group the process has now.
ReleaseProcess(p) ==
    /\ Release(p)
    /\ EventRoom
    /\ LET g == requestGroup[p]
           pops == LaunchError(p) /\ txCh[g] > 0
       IN  /\ txCh' = [txCh EXCEPT ![g] = IF pops THEN @ - 1 ELSE @]
           /\ inflight' = [inflight EXCEPT ![g] =
                             IF pops /\ exitCh[p] = "notExist" THEN @ + 1 ELSE @]
           /\ eventCh' = IF processState[p] = "closing" THEN eventCh
                         ELSE Append(eventCh, [type |-> "exit", group |-> g,
                                               name |-> processName[p]])
    /\ UNCHANGED <<cacheVars, waitingRequestGroups, allocateIdleCh, allocateNewCh,
                   cleanTimer, freeUsers, user, replies, op, request, allocated,
                   create, processWaiting, asking, faults>>

\* The exit of a sandbox that is being killed may be handled before the end of
\* the call only when MayOutrun says so.
handleProcessExit(p) ==
    /\ MayOutrun \/ call[p].at # "killed"
    /\ \/ ReleaseProcess(p)
       \/ Relaunch(p) /\ UNCHANGED <<pmVars, groupVars, faults>>

-----------------------------------------------------------------------------
(* The environment.                                                        *)

\* DockerVMCommunicate finds the process by its name and sets the stream.
Register(p) ==
    /\ AtRest
    /\ processName[p] \in Cached /\ object[processName[p]] = p
    /\ SetStream(p)
    /\ UNCHANGED <<pmVars, groupVars, faults>>

LaunchFault(p) ==
    /\ faults > 0
    /\ \E e \in LaunchErrors : LaunchFails(p, e)
    /\ faults' = faults - 1
    /\ UNCHANGED <<pmVars, groupVars>>

Crash(p) ==
    /\ MayCrash /\ faults > 0
    /\ SandboxEnds(p, TRUE)
    /\ faults' = faults - 1
    /\ UNCHANGED <<pmVars, groupVars>>

-----------------------------------------------------------------------------
\* Steps of the goroutines and the sandbox of one process.
ProcessStep(p) ==
    \/ /\ \/ Launch(p) \/ LaunchResumes(p) \/ SandboxEnds(p, FALSE)
          \/ Update(p) \/ ListenerKills(p) \/ BecomeIdle(p)
          \/ BusyTimeout(p) \/ ReadyTimeout(p)
       /\ UNCHANGED <<pmVars, groupVars, faults>>
    \/ Register(p) \/ handleTxRequest(p) \/ handleTxResp(p, FALSE)
    \/ ChangeStateToIdle(p) \/ handleIdleTxRequest(p) \/ ChangeStateToBusy(p)
    \/ EndIdleTxRequest(p) \/ handleProcessExit(p)

\* Steps of a call the process manager makes on a process.
CallStep(p) ==
    \/ /\ \/ CallCheck(p) /\ ~SameContract(p)
          \/ CallReset(p, CHOOSE n \in FreshNames : TRUE) /\ FreshNames # {}
          \/ CallKill(p)
       /\ UNCHANGED <<pmVars, groupVars, faults>>
    \/ /\ MeetSameProcess(p) \/ ChangeSucceeds(p) \/ CloseSucceeds(p)
       /\ UNCHANGED <<groupVars, faults>>

\* Steps of the process manager's event loop.
ManagerStep ==
    /\ \/ handleGetProcessReq \/ CreateForRequest \/ PickIdleProcesses
       \/ EndGetProcessReq \/ handleAllocateIdleProcesses \/ EndAllocateIdle
       \/ handleAllocateNewProcesses \/ CreateForWaiting \/ handleSandboxExitMsg
       \/ handleCleanIdleProcesses \/ EndClean
    /\ UNCHANGED <<groupVars, faults>>

GroupStep(g) == handleTxReq(g) \/ handleProcessReadyResp(g) \/ getProcesses(g)

FaultStep(p) == LaunchFault(p) \/ Crash(p) \/ handleTxResp(p, TRUE)

\* A panic ends the engine.
Next ==
    /\ op # "panic"
    /\ \/ \E p \in Procs : ProcessStep(p) \/ CallStep(p) \/ FaultStep(p)
       \/ ManagerStep
       \/ \E g \in Groups : GroupStep(g)

Spec == Init /\ [][Next]_vars

\* Goroutines that can go on do so: the handlers of the process manager and the
\* calls they make, a listener on its way to release p.lock, the launch of a
\* sandbox and the handling of its end.  A signalled sandbox ends.  Nothing is
\* assumed of timers, transactions, responses and registrations.
Prompt(p) ==
    /\ op # "panic"
    /\ \/ BecomeIdle(p) \/ ListenerKills(p) \/ Launch(p) \/ LaunchResumes(p)
       \/ SandboxEnds(p, FALSE)
    /\ UNCHANGED <<pmVars, groupVars, faults>>

Fairness ==
    /\ WF_vars(ManagerStep)
    /\ \A p \in Procs : /\ WF_vars(CallStep(p))
                         /\ WF_vars(Prompt(p))
                         /\ WF_vars(handleProcessExit(p))
                         /\ WF_vars(ChangeStateToBusy(p))
                         /\ WF_vars(EndIdleTxRequest(p))

FairSpec == Spec /\ Fairness
-----------------------------------------------------------------------------
(* Safety.                                                                 *)

IsDistinct(s) == \A i, j \in DOMAIN s : s[i] = s[j] => i = j

\* The indexes of the process manager agree whatever its handlers, and the
\* processes that call ChangeProcessState between them, do to a process: a name
\* is idle or busy but not both, it is in the group of exactly one contract, and
\* no process is cached under two names.
CacheConsistent ==
    /\ IsDistinct(idleProcesses)
    /\ IdleNames \cap busyProcesses = {}
    /\ \A g \in Groups : processGroups[g] \subseteq Cached
    /\ \A n \in Cached : \E g \in Groups : n \in processGroups[g]
    /\ \A g, h \in Groups : g # h => processGroups[g] \cap processGroups[h] = {}
    /\ \A m, n \in Cached : object[m] = object[n] => m = n

\* The manager never holds more processes than maxProcessNum, those it is about
\* to create included.
WithinLimit ==
    Len(idleProcesses) + Cardinality(busyProcesses) + Len(create) <= MaxProcessNum

\* No two cached processes run under one Linux user, and none runs under a user
\* that is free to be given to the next process.
UsersExclusive ==
    /\ IsDistinct(freeUsers)
    /\ \A n \in Cached : user[object[n]] \notin Elements(freeUsers)
    /\ \A m, n \in Cached : user[object[m]] = user[object[n]] => m = n

\* GetAvailableUser, which waits without a limit and is called with pm.lock
\* held, always finds a user.
UserAvailable == Len(create) <= Len(freeUsers)

\* The state of a process and the index it is in agree, but for the moment
\* between ChangeProcessState and the update of the process's own state.
StatesAgree ==
    /\ \A n \in IdleNames : LET p == object[n] IN
         processState[p] = "idle" \/ listener[p] = "idled"
    /\ \A n \in busyProcesses : LET p == object[n] IN
         processState[p] \notin {"idle", "closing"} \/ listener[p] = "woken"

\* handleTimeout takes p.lock and then pm.lock, ChangeSandbox and CloseSandbox
\* take p.lock with pm.lock held: the two never wait for each other, because the
\* processes the manager calls are idle and stay so until it gives pm.lock back.
NoLockCycle == \A p \in Procs : call[p].at = "checked" => listener[p] # "idling"

\* A group that waits for the process manager, and so sends no further request,
\* is not forgotten: its request is queued or handled, or it is in
\* waitingRequestGroups, or a reply is on its way.
WaitingIsKnown ==
    \A g \in Groups : processWaiting[g] =>
       \/ \E m \in Elements(eventCh) : m.type = "get" /\ m.group = g
       \/ request # NoRequest /\ request.group = g
       \/ g \in Elements(waitingRequestGroups)
       \/ replies[g] > 0
       \/ op = "panic"

\* No sandbox outlives its process: one whose process the manager has forgotten
\* is being killed.
NoOrphanSandbox ==
    \A p \in Procs : sandbox[p] \in {"launching", "up", "registered"} =>
       \E n \in Cached : object[n] = p

\* The send on updateCh in updateProcessState never blocks SetStream, which
\* holds p.lock there.
UpdateChHasRoom == \A p \in Procs : sandbox[p] = "up" => ~updateCh[p]

-----------------------------------------------------------------------------
(* The inductive invariant behind CacheConsistent, WithinLimit,            *)
(* UsersExclusive and UserAvailable.                                       *)

\* The sandbox is gone for good: no token to kill it with, no relaunch ahead.
Dead(p) ==
    /\ sandbox[p] = "off" /\ ~cmdReadyCh[p]
    /\ listener[p] = "off" \/ processState[p] \notin {"created", "changing"}

\* ChangeSandbox is past resetContext.
Resetting(p) == call[p].at \in {"killing", "killed"} /\ call[p].to # Close

\* The names a call found the process under are those it is cached under.
Matches(p) ==
    /\ call[p].oldName \in IdleNames
    /\ object[call[p].oldName] = p
    /\ call[p].oldName \in processGroups[call[p].oldGroup]

\* Which work is open while which handler runs.
HandlerInv ==
    /\ op \in {"get", "change"} => request.type = "get"
    /\ op \notin {"get", "allocateNew"} => create = << >>
    /\ op = "allocateNew" => create # << >>
    /\ op \in {"rest", "get", "allocateNew"} => CallsReturned

\* What is known of a process with a call in progress.
CallOK(p) ==
    /\ \E n \in Cached : object[n] = p
    /\ Matches(p) \/ Dead(p)
    /\ call[p].at = "killed" => Matches(p)
    /\ call[p].at \in {"killing", "killed"} => processState[p] = "idle"
    /\ Resetting(p) => requestGroup[p] = call[p].to /\ processName[p] \notin Cached
    /\ ~Resetting(p) => /\ processName[p] = call[p].oldName
                        /\ requestGroup[p] = call[p].oldGroup

CallInv == \A p \in Procs : call[p] # NoCall => CallOK(p)

\* Names are unique, and a cached process is found under its own name unless it
\* is being changed or its change failed on a sandbox that was gone.
NameInv ==
    /\ \A p, q \in Procs : InUse(p) /\ InUse(q) /\ processName[p] = processName[q]
                             => p = q
    /\ \A p \in Procs : InUse(p) /\ processName[p] \in Cached =>
          /\ object[processName[p]] = p
          /\ processName[p] \in processGroups[requestGroup[p]]
    /\ \A n \in Cached : \/ processName[object[n]] = n
                         \/ Dead(object[n])
                         \/ Resetting(object[n])

\* An exit message names a process of its group, as far as it is still cached.
ExitMsgInv ==
    \A m \in Elements(eventCh) : m.type = "exit" =>
       /\ m.name \in Cached => m.name \in processGroups[m.group]
       /\ \A p \in Procs : InUse(p) /\ processName[p] = m.name
                             => requestGroup[p] = m.group

\* Every user is free or with a cached process.
UserCount ==
    Len(freeUsers) + Len(idleProcesses) + Cardinality(busyProcesses) = Len(UserQueue)

FiniteCaches ==
    IsFiniteSet(busyProcesses) /\ \A g \in Groups : IsFiniteSet(processGroups[g])

\* The conjunction is preserved by every step of the pool, also when sandboxes
\* crash, launches fail and an exit is handled in the middle of a call.
PoolInv ==
    /\ TypeOK /\ FiniteCaches
    /\ HandlerInv /\ CallInv /\ NameInv /\ ExitMsgInv
    /\ CacheConsistent /\ WithinLimit /\ UsersExclusive /\ UserCount

-----------------------------------------------------------------------------
(* Liveness.                                                               *)

\* Every handler of the process manager ends and gives pm.lock back, whatever
\* the processes it changes or closes are doing.
LockReleased == []<>AtRest

\* A process that was told to change its sandbox launches the new one.
ChangeCompletes ==
    \A p \in Procs : processState[p] = "changing" ~> processState[p] = "created"

=============================================================================
