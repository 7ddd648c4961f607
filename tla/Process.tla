------------------------------ MODULE Process ------------------------------
(***************************************************************************)
(* The Process objects of the contract engine (core/process.go): each one  *)
(* drives a sandbox, an operating-system process that runs one contract.   *)
(*                                                                         *)
(* This module holds the state of all Process objects and the steps that   *)
(* involve nothing but one object and its sandbox.  The steps that call    *)
(* the process manager are composed in ProcessPool.                        *)
(***************************************************************************)
EXTENDS Naturals

CONSTANTS
    Procs,      \* identities of Process objects (a released one is reused)
    Names,      \* process names (an unreferenced one is reused)
    Groups      \* request group keys: chain id, contract name and version

VARIABLES
    processState,   \* p.processState
    processName,    \* p.processName
    requestGroup,   \* p.requestGroup, and with it chainID, contractName...
    sandbox,        \* the operating-system process behind p.cmd
    watched,        \* startProcess is past "cmdReadyCh <- true", it will Wait
    exitCh,         \* the error startProcess offers on p.exitCh, or "none"
    cmdReadyCh,     \* p.cmdReadyCh (capacity 1) holds its token
    updateCh,       \* p.updateCh (capacity 1) holds its token
    listener,       \* where the goroutine of listenProcess is
    selected,       \* the group whose txCh the idle select waits on
    arg,            \* the name handleIdleTxRequest passes to ChangeProcessState
    call            \* a ChangeSandbox or CloseSandbox call in progress on p

procVars == <<processState, processName, requestGroup, sandbox, watched,
              exitCh, cmdReadyCh, updateCh, listener, selected, arg, call>>

-----------------------------------------------------------------------------
ProcessStates == {"created", "ready", "busy", "idle", "changing", "closing",
                  "timeout"}

\* off: there is none.  up: started.  registered: its REGISTER message set
\* the stream.  signalled: killProcess sent a signal.  zombie: it ended while
\* nobody waits for its end.
SandboxStates == {"off", "launching", "up", "registered", "signalled", "zombie"}

\* What launchProcess returns: ContractNotExistError, ContractExecError, or
\* any other error, the end of the sandbox included.
ExitErrors == {"notExist", "execError", "other"}

\* off: not started, or returned.  run, idle, wait: at the select of the
\* ready or busy, the idle, and the last branch.  idling, idled: in
\* handleTimeout, before and after ChangeProcessState.  waking, woken: in
\* handleIdleTxRequest, before and after ChangeProcessState.  killing: in
\* killProcess, at "<-cmdReadyCh".
ListenerStates == {"off", "run", "idle", "wait", "idling", "idled", "waking",
                   "woken", "killing"}

Close == "close"    \* the target of CloseSandbox, in the place of a group

NoCall == [at |-> "none"]

\* enter: not begun.  checked: saw the idle state without the lock.  killing:
\* holds p.lock, in killProcess.  killed: holds p.lock, the signal is sent.
Calls == {NoCall} \cup
         [at : {"enter", "checked", "killing", "killed"}, to : Groups \cup {Close},
          oldName : Names, oldGroup : Groups]

ProcTypeOK ==
    /\ processState \in [Procs -> ProcessStates]
    /\ processName \in [Procs -> Names]
    /\ requestGroup \in [Procs -> Groups]
    /\ sandbox \in [Procs -> SandboxStates]
    /\ watched \in [Procs -> BOOLEAN]
    /\ exitCh \in [Procs -> ExitErrors \cup {"none"}]
    /\ cmdReadyCh \in [Procs -> BOOLEAN]
    /\ updateCh \in [Procs -> BOOLEAN]
    /\ listener \in [Procs -> ListenerStates]
    /\ selected \in [Procs -> Groups]
    /\ arg \in [Procs -> Names]
    /\ call \in [Procs -> Calls]

AnyName == CHOOSE n \in Names : TRUE

ProcInit ==
    /\ processState = [p \in Procs |-> "created"]
    /\ processName = [p \in Procs |-> AnyName]
    /\ requestGroup = [p \in Procs |-> CHOOSE g \in Groups : TRUE]
    /\ sandbox = [p \in Procs |-> "off"]
    /\ watched = [p \in Procs |-> FALSE]
    /\ exitCh = [p \in Procs |-> "none"]
    /\ cmdReadyCh = [p \in Procs |-> FALSE]
    /\ updateCh = [p \in Procs |-> FALSE]
    /\ listener = [p \in Procs |-> "off"]
    /\ selected = [p \in Procs |-> CHOOSE g \in Groups : TRUE]
    /\ arg = [p \in Procs |-> AnyName]
    /\ call = [p \in Procs |-> NoCall]

-----------------------------------------------------------------------------
(* Helpers.                                                                *)

\* p.lock is free: neither a listener's handler nor a call from the process
\* manager holds it between two steps of the model.
Unlocked(p) ==
    /\ listener[p] \notin {"idling", "idled", "killing"}
    /\ call[p].at \notin {"killing", "killed"}

\* The branch listenProcess takes at its next iteration, by the state.
Branch(state) ==
    CASE state \in {"ready", "busy"} -> "run"
      [] state = "idle"              -> "idle"
      [] OTHER                       -> "wait"

Selectable == {"ready", "busy", "idle"}

\* Mutant: every update to a state with a branch of its own wakes it.
Wakes_Always(p, state) == state \in Selectable

\* updateProcessState wakes the last branch of listenProcess when a state
\* with a branch of its own is entered from one without.
Wakes(p, state) == processState[p] \notin Selectable /\ state \in Selectable

\* Mutant: the signal is not sent.
Signalled_Lost(box) == box

\* The effect on the sandbox of a signal that reaches it.
Signalled(box) == IF box \in {"up", "registered"} THEN "signalled" ELSE box

-----------------------------------------------------------------------------
(* The sandbox and the goroutine of startProcess.                          *)

\* launchProcess starts the command.  When cmdReadyCh still holds the token of
\* an earlier launch the goroutine blocks there and does not wait for the end
\* of the sandbox.
Launch(p) ==
    /\ sandbox[p] = "launching"
    /\ sandbox' = [sandbox EXCEPT ![p] = "up"]
    /\ watched' = [watched EXCEPT ![p] = ~cmdReadyCh[p]]
    /\ cmdReadyCh' = [cmdReadyCh EXCEPT ![p] = TRUE]
    /\ UNCHANGED <<processState, processName, requestGroup, exitCh, updateCh,
                   listener, selected, arg, call>>

\* The blocked goroutine goes on once killProcess took the token, and cmd.Wait
\* returns when the sandbox has ended already.
LaunchResumes(p) ==
    /\ sandbox[p] \in {"up", "registered", "signalled", "zombie"}
    /\ ~watched[p] /\ ~cmdReadyCh[p]
    /\ watched' = [watched EXCEPT ![p] = TRUE]
    /\ cmdReadyCh' = [cmdReadyCh EXCEPT ![p] = TRUE]
    /\ IF sandbox[p] = "zombie"
         THEN /\ sandbox' = [sandbox EXCEPT ![p] = "off"]
              /\ exitCh' = [exitCh EXCEPT ![p] = "other"]
         ELSE UNCHANGED <<sandbox, exitCh>>
    /\ UNCHANGED <<processState, processName, requestGroup, updateCh, listener,
                   selected, arg, call>>

\* The command cannot be started; startProcess reports the error.
LaunchFails(p, e) ==
    /\ sandbox[p] = "launching"
    /\ sandbox' = [sandbox EXCEPT ![p] = "off"]
    /\ exitCh' = [exitCh EXCEPT ![p] = e]
    /\ UNCHANGED <<processState, processName, requestGroup, watched, cmdReadyCh,
                   updateCh, listener, selected, arg, call>>

\* The sandbox ends, because of a signal or (crash) by itself; cmd.Wait returns
\* and startProcess offers the result on exitCh.  These are one step: a signal
\* sent between them has the effect of one sent before.
SandboxEnds(p, crash) ==
    /\ sandbox[p] \in IF crash THEN {"up", "registered"} ELSE {"signalled"}
    /\ IF watched[p]
         THEN /\ sandbox' = [sandbox EXCEPT ![p] = "off"]
              /\ exitCh' = [exitCh EXCEPT ![p] = "other"]
         ELSE /\ sandbox' = [sandbox EXCEPT ![p] = "zombie"]
              /\ UNCHANGED exitCh
    /\ UNCHANGED <<processState, processName, requestGroup, watched, cmdReadyCh,
                   updateCh, listener, selected, arg, call>>

\* The REGISTER message of the sandbox; the caller has found p by its name.
SetStream(p) ==
    /\ sandbox[p] = "up"
    /\ Unlocked(p)
    /\ Wakes(p, "ready") => ~updateCh[p]
    /\ sandbox' = [sandbox EXCEPT ![p] = "registered"]
    /\ processState' = [processState EXCEPT ![p] = "ready"]
    /\ updateCh' = [updateCh EXCEPT ![p] = @ \/ Wakes(p, "ready")]
    /\ UNCHANGED <<processName, requestGroup, watched, exitCh, cmdReadyCh,
                   listener, selected, arg, call>>

-----------------------------------------------------------------------------
(* The listener.                                                           *)

\* case <-p.updateCh: go round the loop and look at the state again.
Update(p) ==
    /\ listener[p] = "wait"
    /\ updateCh[p]
    /\ updateCh' = [updateCh EXCEPT ![p] = FALSE]
    /\ listener' = [listener EXCEPT ![p] = Branch(processState[p])]
    /\ selected' = [selected EXCEPT ![p] = requestGroup[p]]
    /\ UNCHANGED <<processState, processName, requestGroup, sandbox, watched,
                   exitCh, cmdReadyCh, arg, call>>

\* handleTxRequest accepts a tx: ready to busy.
StartTx(p) ==
    /\ listener[p] = "run" /\ processState[p] = "ready" /\ Unlocked(p)
    /\ processState' = [processState EXCEPT ![p] = "busy"]
    /\ UNCHANGED <<processName, requestGroup, sandbox, watched, exitCh,
                   cmdReadyCh, updateCh, listener, selected, arg, call>>

\* handleTxResp: busy to ready.  failed: an init or upgrade that failed, after
\* which the sandbox is killed.
HandleTxResp(p, failed) ==
    /\ listener[p] = "run" /\ processState[p] = "busy" /\ Unlocked(p)
    /\ sandbox[p] \in {"registered", "signalled"}
    /\ processState' = [processState EXCEPT ![p] = "ready"]
    /\ listener' = [listener EXCEPT ![p] = IF failed THEN "killing" ELSE @]
    /\ UNCHANGED <<processName, requestGroup, sandbox, watched, exitCh,
                   cmdReadyCh, updateCh, selected, arg, call>>

\* handleTimeout of a busy process: busy to timeout, and kill the sandbox.
BusyTimeout(p) ==
    /\ listener[p] = "run" /\ processState[p] = "busy" /\ Unlocked(p)
    /\ processState' = [processState EXCEPT ![p] = "timeout"]
    /\ listener' = [listener EXCEPT ![p] = "killing"]
    /\ UNCHANGED <<processName, requestGroup, sandbox, watched, exitCh,
                   cmdReadyCh, updateCh, selected, arg, call>>

\* killProcess called by the listener takes the token and sends the signal; an
\* error (the sandbox is gone) is only logged.
ListenerKills(p) ==
    /\ listener[p] = "killing"
    /\ cmdReadyCh[p]
    /\ cmdReadyCh' = [cmdReadyCh EXCEPT ![p] = FALSE]
    /\ sandbox' = [sandbox EXCEPT ![p] = Signalled(@)]
    /\ listener' = [listener EXCEPT ![p] = Branch(processState[p])]
    /\ UNCHANGED <<processState, processName, requestGroup, watched, exitCh,
                   updateCh, selected, arg, call>>

\* Mutant: the state is updated before the process manager agreed.
ReadyTimeout_Early(p) ==
    /\ listener[p] = "run" /\ processState[p] = "ready" /\ Unlocked(p)
    /\ listener' = [listener EXCEPT ![p] = "idling"]
    /\ processState' = [processState EXCEPT ![p] = "idle"]
    /\ UNCHANGED <<processName, requestGroup, sandbox, watched, exitCh, cmdReadyCh,
                   updateCh, selected, arg, call>>

\* handleTimeout of a ready process takes p.lock before it calls the process
\* manager...
ReadyTimeout(p) ==
    /\ listener[p] = "run" /\ processState[p] = "ready" /\ Unlocked(p)
    /\ listener' = [listener EXCEPT ![p] = "idling"]
    /\ UNCHANGED <<processState, processName, requestGroup, sandbox, watched,
                   exitCh, cmdReadyCh, updateCh, selected, arg, call>>

\* ... and its own state follows when the process manager has moved it.
BecomeIdle(p) ==
    /\ listener[p] = "idled"
    /\ processState' = [processState EXCEPT ![p] = "idle"]
    /\ listener' = [listener EXCEPT ![p] = "idle"]
    /\ selected' = [selected EXCEPT ![p] = requestGroup[p]]
    /\ UNCHANGED <<processName, requestGroup, sandbox, watched, exitCh,
                   cmdReadyCh, updateCh, arg, call>>

\* The end of handleIdleTxRequest once the process manager has moved p.
BecomeReady(p) ==
    /\ listener[p] = "woken"
    /\ Unlocked(p)
    /\ processState' = [processState EXCEPT ![p] = "ready"]
    /\ updateCh' = [updateCh EXCEPT ![p] = @ \/ Wakes(p, "ready")]
    /\ listener' = [listener EXCEPT ![p] = "run"]
    /\ UNCHANGED <<processName, requestGroup, sandbox, watched, exitCh,
                   cmdReadyCh, selected, arg, call>>

-----------------------------------------------------------------------------
(* handleProcessExit.  It takes no lock: it may run while a call from the  *)
(* process manager holds p.lock.                                           *)

ExitReceived(p) == exitCh[p] # "none" /\ listener[p] \in {"run", "idle", "wait"}

LaunchError(p) == exitCh[p] \in {"notExist", "execError"}

\* Mutant: the state stays changing.
Relaunch_KeepsState(p) ==
    /\ ExitReceived(p)
    /\ ~LaunchError(p)
    /\ processState[p] \in {"created", "changing"}
    /\ exitCh' = [exitCh EXCEPT ![p] = "none"]
    /\ sandbox' = [sandbox EXCEPT ![p] = "launching"]
    /\ listener' = [listener EXCEPT ![p] = "wait"]
    /\ UNCHANGED <<processState, processName, requestGroup, watched, cmdReadyCh,
                   updateCh, selected, arg, call>>

\* Case 3, the sandbox ended before it registered, and case 7, it was changed
\* to another contract: the sandbox is launched again.
Relaunch(p) ==
    /\ ExitReceived(p)
    /\ ~LaunchError(p)
    /\ processState[p] \in {"created", "changing"}
    /\ processState' = [processState EXCEPT ![p] = "created"]
    /\ exitCh' = [exitCh EXCEPT ![p] = "none"]
    /\ sandbox' = [sandbox EXCEPT ![p] = "launching"]
    /\ listener' = [listener EXCEPT ![p] = "wait"]
    /\ UNCHANGED <<processName, requestGroup, watched, cmdReadyCh, updateCh,
                   selected, arg, call>>

\* Cases 1, 2, 4, 5, 6, 8 and 9: the listener returns.
Release(p) ==
    /\ ExitReceived(p)
    /\ LaunchError(p) \/ processState[p] \notin {"created", "changing"}
    /\ processState' = [processState EXCEPT ![p] =
                          IF @ \in {"busy", "timeout"} THEN "created" ELSE @]
    /\ exitCh' = [exitCh EXCEPT ![p] = "none"]
    /\ listener' = [listener EXCEPT ![p] = "off"]
    /\ UNCHANGED <<processName, requestGroup, sandbox, watched, cmdReadyCh,
                   updateCh, selected, arg, call>>

-----------------------------------------------------------------------------
(* ChangeSandbox and CloseSandbox, called with pm.lock held.               *)

\* The first look at the state, without p.lock.
CallCheck(p) ==
    /\ call[p].at = "enter"
    /\ call' = [call EXCEPT ![p] =
                  IF processState[p] = "idle" THEN [@ EXCEPT !.at = "checked"]
                                              ELSE NoCall]
    /\ UNCHANGED <<processState, processName, requestGroup, sandbox, watched,
                   exitCh, cmdReadyCh, updateCh, listener, selected, arg>>

\* The second look, with p.lock; ChangeSandbox then runs resetContext.
CallReset(p, name) ==
    /\ call[p].at = "checked"
    /\ Unlocked(p)
    /\ IF processState[p] = "idle"
         THEN /\ call' = [call EXCEPT ![p].at = "killing"]
              /\ IF call[p].to = Close
                   THEN UNCHANGED <<processName, requestGroup>>
                   ELSE /\ processName' = [processName EXCEPT ![p] = name]
                        /\ requestGroup' = [requestGroup EXCEPT ![p] = call[p].to]
         ELSE /\ call' = [call EXCEPT ![p] = NoCall]
              /\ UNCHANGED <<processName, requestGroup>>
    /\ UNCHANGED <<processState, sandbox, watched, exitCh, cmdReadyCh, updateCh,
                   listener, selected, arg>>

\* killProcess takes the token and sends the signal.  When the sandbox is gone
\* the signal fails and the call returns the error; the context stays reset.
CallKill(p) ==
    /\ call[p].at = "killing"
    /\ cmdReadyCh[p]
    /\ cmdReadyCh' = [cmdReadyCh EXCEPT ![p] = FALSE]
    /\ sandbox' = [sandbox EXCEPT ![p] = Signalled(@)]
    /\ call' = [call EXCEPT ![p] = IF sandbox[p] = "off" THEN NoCall
                                   ELSE [@ EXCEPT !.at = "killed"]]
    /\ UNCHANGED <<processState, processName, requestGroup, watched, exitCh,
                   updateCh, listener, selected, arg>>

\* The call succeeds: the state is updated and p.lock released.
CallDone(p) ==
    /\ call[p].at = "killed"
    /\ processState' = [processState EXCEPT ![p] =
                          IF call[p].to = Close THEN "closing" ELSE "changing"]
    /\ call' = [call EXCEPT ![p] = NoCall]
    /\ UNCHANGED <<processName, requestGroup, sandbox, watched, exitCh,
                   cmdReadyCh, updateCh, listener, selected, arg>>

-----------------------------------------------------------------------------
\* NewProcess, and Start in a goroutine of its own.
NewProcess(p, g, name) ==
    /\ processState' = [processState EXCEPT ![p] = "created"]
    /\ processName' = [processName EXCEPT ![p] = name]
    /\ requestGroup' = [requestGroup EXCEPT ![p] = g]
    /\ sandbox' = [sandbox EXCEPT ![p] = "launching"]
    /\ watched' = [watched EXCEPT ![p] = FALSE]
    /\ exitCh' = [exitCh EXCEPT ![p] = "none"]
    /\ cmdReadyCh' = [cmdReadyCh EXCEPT ![p] = FALSE]
    /\ updateCh' = [updateCh EXCEPT ![p] = FALSE]
    /\ listener' = [listener EXCEPT ![p] = "wait"]
    /\ selected' = [selected EXCEPT ![p] = g]
    /\ arg' = [arg EXCEPT ![p] = AnyName]
    /\ call' = [call EXCEPT ![p] = NoCall]
=============================================================================
