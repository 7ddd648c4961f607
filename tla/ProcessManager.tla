--------------------------- MODULE ProcessManager ---------------------------
(***************************************************************************)
(* The process manager (core/process_manager.go): the caches of idle and   *)
(* busy processes, the request groups that wait for a process, and the     *)
(* handlers of its event loop.                                             *)
(*                                                                         *)
(* A handler holds pm.lock from its first to its last step.  What its      *)
(* goroutines do concurrently (creating processes, ChangeSandbox and       *)
(* CloseSandbox calls) are separate steps; op tells which handler runs.    *)
(***************************************************************************)
EXTENDS Process, Integers, Sequences, FiniteSets

CONSTANTS
    Contract,       \* Contract[g]: the contract name and version of group g
    Users,          \* the Linux users of the user manager
    MaxProcessNum,  \* pm.maxProcessNum
    ReleaseTarget,  \* int(pm.releaseRate * float64(pm.maxProcessNum))
    \* Bounds.  The channels hold 50000 events, 50000 signals and 100 replies.
    EventBound,     \* messages in eventCh
    SignalBound,    \* signals in allocateIdleCh and in allocateNewCh
    ReplyBound      \* replies a group has not read when a handler starts

ASSUME ConstantsAssumption ==
    /\ Procs # {} /\ Names # {} /\ Groups # {} /\ Users # {}
    /\ Close \notin Groups
    /\ EventBound \in Nat /\ SignalBound \in Nat /\ ReplyBound \in Nat
    /\ MaxProcessNum \in Nat /\ ReleaseTarget \in 0 .. MaxProcessNum
    /\ IsFiniteSet(Users)

\* BatchCreateUsers makes GetMaxUserNum users, one for each process that the
\* two process managers may hold.
ASSUME UsersAssumption == Cardinality(Users) >= MaxProcessNum

VARIABLES
    idleProcesses,          \* names, in the order of the linked hash map
    busyProcesses,          \* names
    object,                 \* the Process a cached name is mapped to
    processGroups,          \* the names cached for each group
    waitingRequestGroups,   \* groups, in the order of the linked hash map
    eventCh,                \* GetProcessReqMsg and SandboxExitMsg messages
    allocateIdleCh,         \* number of signals in the channel
    allocateNewCh,          \* number of signals in the channel
    cleanTimer,             \* the timer is running or has fired
    freeUsers,              \* the queue of userManager
    user,                   \* p.user
    replies,                \* GetProcessRespMsg in the eventCh of each group
    op,                     \* the handler that runs, "rest" or "panic"
    request,                \* the GetProcessReqMsg being handled
    allocated,              \* processes the handler has allocated or closed
    create                  \* groups a process is still to be created for

pmVars == <<idleProcesses, busyProcesses, object, processGroups,
            waitingRequestGroups, eventCh, allocateIdleCh, allocateNewCh,
            cleanTimer, freeUsers, user, replies, op, request, allocated, create>>

-----------------------------------------------------------------------------
Elements(s) == {s[i] : i \in DOMAIN s}

\* Remove of the linked hash map: s holds x at most once.
Without(s, x) ==
    IF x \in Elements(s)
      THEN LET i == CHOOSE i \in DOMAIN s : s[i] = x
           IN  [j \in 1 .. Len(s) - 1 |-> IF j < i THEN s[j] ELSE s[j + 1]]
      ELSE s

Lesser(a, b) == IF a < b THEN a ELSE b

IdleNames == Elements(idleProcesses)
Cached == IdleNames \cup busyProcesses

Messages == [type : {"get"}, group : Groups, num : Nat]
            \cup [type : {"exit"}, group : Groups, name : Names]
NoRequest == [type |-> "none"]
Handlers == {"rest", "get", "change", "allocateIdle", "allocateNew", "clean",
             "panic"}

AnyProc == CHOOSE p \in Procs : TRUE
AnyUser == CHOOSE u \in Users : TRUE

PMTypeOK ==
    /\ idleProcesses \in Seq(Names)
    /\ busyProcesses \subseteq Names
    /\ object \in [Names -> Procs]
    /\ processGroups \in [Groups -> SUBSET Names]
    /\ waitingRequestGroups \in Seq(Groups)
    /\ eventCh \in Seq(Messages)
    /\ allocateIdleCh \in Nat
    /\ allocateNewCh \in Nat
    /\ cleanTimer \in BOOLEAN
    /\ freeUsers \in Seq(Users)
    /\ user \in [Procs -> Users]
    /\ replies \in [Groups -> Nat]
    /\ op \in Handlers
    /\ request \in Messages \cup {NoRequest}
    /\ allocated \in Nat
    /\ create \in Seq(Groups)

\* users: the queue after BatchCreateUsers.
PMInit(users) ==
    /\ idleProcesses = << >>
    /\ busyProcesses = {}
    /\ object = [n \in Names |-> AnyProc]
    /\ processGroups = [g \in Groups |-> {}]
    /\ waitingRequestGroups = << >>
    /\ eventCh = << >>
    /\ allocateIdleCh = 0
    /\ allocateNewCh = 0
    /\ cleanTimer = TRUE
    /\ freeUsers = users
    /\ user = [p \in Procs |-> AnyUser]
    /\ replies = [g \in Groups |-> 0]
    /\ op = "rest"
    /\ request = NoRequest
    /\ allocated = 0
    /\ create = << >>

-----------------------------------------------------------------------------
(* Helpers.                                                                *)

\* Mutant: the idle processes are not counted.
getAvailableProcessNum_BusyOnly == MaxProcessNum - Cardinality(busyProcesses)

getAvailableProcessNum ==
    MaxProcessNum - Len(idleProcesses) - Cardinality(busyProcesses)

\* A Process object that is not garbage.
InUse(p) ==
    \/ listener[p] # "off" \/ sandbox[p] # "off"
    \/ \E n \in Cached : object[n] = p

FreeProcs == {p \in Procs : ~InUse(p)}

\* generateProcessName counts up, so no two processes ever share a name.  Here
\* a name that nothing refers to any more may be given again.
FreshNames ==
    {n \in Names \ Cached :
       /\ \A p \in Procs : InUse(p) => processName[p] # n
       /\ \A p \in Procs : listener[p] = "waking" => arg[p] # n
       /\ \A m \in Elements(eventCh) : m.type = "exit" => m.name # n}

\* removeFromProcessGroup(g, n) removes the last process of the group.
Emptied(g, n) == processGroups[g] # {} /\ processGroups[g] \ {n} = {}

\* Mutant: the process stays in its group.
removeProcessFromCache_KeepsGroup(g, n) ==
    /\ busyProcesses' = busyProcesses \ {n}
    /\ idleProcesses' = Without(idleProcesses, n)
    /\ object' = [object EXCEPT ![n] = AnyProc]
    /\ UNCHANGED <<processGroups, waitingRequestGroups, replies>>

\* removeProcessFromCache; a group that is emptied also leaves the waiting
\* groups and is told so (removeFromWaitingGroup).
removeProcessFromCache(g, n) ==
    /\ busyProcesses' = busyProcesses \ {n}
    /\ idleProcesses' = Without(idleProcesses, n)
    /\ object' = [object EXCEPT ![n] = AnyProc]
    /\ processGroups' = [processGroups EXCEPT ![g] = @ \ {n}]
    /\ IF Emptied(g, n)
         THEN /\ waitingRequestGroups' = Without(waitingRequestGroups, g)
              /\ replies' = [replies EXCEPT ![g] = @ + 1]
         ELSE UNCHANGED <<waitingRequestGroups, replies>>

\* Mutant: the user is not released.
closeSandbox_KeepsUser(g, n) ==
    IF n \in Cached
      THEN removeProcessFromCache(g, n) /\ UNCHANGED <<freeUsers, op>>
      ELSE /\ op' = "panic"
           /\ UNCHANGED <<freeUsers, busyProcesses, idleProcesses, object,
                          processGroups, waitingRequestGroups, replies>>

\* closeSandbox: releaseUser, then removeProcessFromCache.  releaseUser calls
\* a method of the process it looks up, and there may be none.
closeSandbox(g, n) ==
    IF n \in Cached
      THEN /\ freeUsers' = Append(freeUsers, user[object[n]])
           /\ removeProcessFromCache(g, n)
           /\ UNCHANGED op
      ELSE /\ op' = "panic"
           /\ UNCHANGED <<freeUsers, busyProcesses, idleProcesses, object,
                          processGroups, waitingRequestGroups, replies>>

\* Mutant: the user stays in the queue.
createNewProcess_KeepsUser(g) ==
    /\ FreeProcs # {} /\ FreshNames # {}
    /\ freeUsers # << >>
    /\ LET p == CHOOSE p \in FreeProcs : TRUE
           n == CHOOSE n \in FreshNames : TRUE
       IN  /\ NewProcess(p, g, n)
           /\ user' = [user EXCEPT ![p] = Head(freeUsers)]
           /\ busyProcesses' = busyProcesses \cup {n}
           /\ object' = [object EXCEPT ![n] = p]
           /\ processGroups' = [processGroups EXCEPT ![g] = @ \cup {n}]
    /\ UNCHANGED <<idleProcesses, freeUsers>>

\* createNewProcess and addProcessToCache.
createNewProcess(g) ==
    /\ FreeProcs # {} /\ FreshNames # {}
    /\ freeUsers # << >>
    /\ LET p == CHOOSE p \in FreeProcs : TRUE
           n == CHOOSE n \in FreshNames : TRUE
       IN  /\ NewProcess(p, g, n)
           /\ user' = [user EXCEPT ![p] = Head(freeUsers)]
           /\ freeUsers' = Tail(freeUsers)
           /\ busyProcesses' = busyProcesses \cup {n}
           /\ object' = [object EXCEPT ![n] = p]
           /\ processGroups' = [processGroups EXCEPT ![g] = @ \cup {n}]
    /\ UNCHANGED idleProcesses

\* Start ChangeSandbox or CloseSandbox on the processes that target maps.
Begin(target) ==
    call' = [p \in Procs |->
               IF p \in DOMAIN target
                 THEN [at |-> "enter", to |-> target[p],
                       oldName |-> processName[p], oldGroup |-> requestGroup[p]]
                 ELSE call[p]]

procVarsButCall == <<processState, processName, requestGroup, sandbox, watched,
                     exitCh, cmdReadyCh, updateCh, listener, selected, arg>>
cacheVars == <<idleProcesses, busyProcesses, object, processGroups>>

\* pm.lock is free.
AtRest == op = "rest"

\* A handler starts.
Ready == AtRest /\ \A g \in Groups : replies[g] <= ReplyBound

EventRoom == Len(eventCh) < EventBound

CallsReturned == \A p \in Procs : call[p] = NoCall

-----------------------------------------------------------------------------
(* handleGetProcessReq.  No caller sends a request for 0 processes.        *)

handleGetProcessReq ==
    /\ Ready
    /\ eventCh # << >> /\ Head(eventCh).type = "get"
    /\ eventCh' = Tail(eventCh)
    /\ request' = Head(eventCh)
    /\ op' = "get"
    /\ LET k == Lesser(request'.num, getAvailableProcessNum)
       IN  create' = [i \in 1 .. k |-> request'.group]
    /\ UNCHANGED <<procVars, cacheVars, waitingRequestGroups, allocateIdleCh,
                   allocateNewCh, cleanTimer, freeUsers, user, replies, allocated>>

\* 1. allocate processes that can be launched
CreateForRequest ==
    /\ op = "get" /\ create # << >>
    /\ createNewProcess(Head(create))
    /\ create' = Tail(create)
    /\ allocated' = allocated + 1
    /\ UNCHANGED <<waitingRequestGroups, eventCh, allocateIdleCh, allocateNewCh,
                   cleanTimer, replies, op, request>>

\* 2. allocate processes from idle processes
PickIdleProcesses ==
    /\ op = "get" /\ create = << >>
    /\ LET k == Lesser(request.num - allocated, Len(idleProcesses))
       IN  Begin([p \in {object[idleProcesses[i]] : i \in 1 .. k} |-> request.group])
    /\ op' = "change"
    /\ UNCHANGED <<procVarsButCall, cacheVars, waitingRequestGroups, eventCh,
                   allocateIdleCh, allocateNewCh, cleanTimer, freeUsers, user,
                   replies, request, allocated, create>>

\* Mutant: a group that got nothing is not put into waitingRequestGroups.
EndGetProcessReq_Forgets ==
    /\ op = "change" /\ CallsReturned
    /\ replies' = IF allocated = 0 THEN replies
                  ELSE [replies EXCEPT ![request.group] = @ + 1]
    /\ op' = "rest" /\ request' = NoRequest /\ allocated' = 0
    /\ UNCHANGED <<procVars, cacheVars, waitingRequestGroups, eventCh,
                   allocateIdleCh, allocateNewCh, cleanTimer, freeUsers, user,
                   create>>

\* The group waits when it got nothing, else it is told.
EndGetProcessReq ==
    /\ op = "change" /\ CallsReturned
    /\ LET g == request.group IN
       IF allocated = 0
         THEN /\ waitingRequestGroups' =
                   IF g \in Elements(waitingRequestGroups)
                     THEN waitingRequestGroups
                     ELSE Append(waitingRequestGroups, g)
              /\ UNCHANGED replies
         ELSE /\ replies' = [replies EXCEPT ![g] = @ + 1]
              /\ UNCHANGED waitingRequestGroups
    /\ op' = "rest" /\ request' = NoRequest /\ allocated' = 0
    /\ UNCHANGED <<procVars, cacheVars, eventCh, allocateIdleCh, allocateNewCh,
                   cleanTimer, freeUsers, user, create>>

-----------------------------------------------------------------------------
(* handleAllocateIdleProcesses                                             *)

handleAllocateIdleProcesses ==
    /\ Ready
    /\ allocateIdleCh > 0
    /\ allocateIdleCh' = allocateIdleCh - 1
    /\ LET k == Lesser(Len(waitingRequestGroups), Len(idleProcesses))
           Pick(i) == object[idleProcesses[i]]
       IN  /\ Begin([p \in {Pick(i) : i \in 1 .. k} |->
                       waitingRequestGroups[CHOOSE i \in 1 .. k : Pick(i) = p]])
           /\ op' = IF k = 0 THEN "rest" ELSE "allocateIdle"
    /\ UNCHANGED <<procVarsButCall, cacheVars, waitingRequestGroups, eventCh,
                   allocateNewCh, cleanTimer, freeUsers, user, replies, request,
                   allocated, create>>

EndAllocateIdle ==
    /\ op = "allocateIdle" /\ CallsReturned
    /\ op' = "rest"
    /\ UNCHANGED <<procVars, cacheVars, waitingRequestGroups, eventCh,
                   allocateIdleCh, allocateNewCh, cleanTimer, freeUsers, user,
                   replies, request, allocated, create>>

-----------------------------------------------------------------------------
(* handleAllocateNewProcesses.  A negative number of available processes   *)
(* would make wg.Add panic.                                                *)

handleAllocateNewProcesses ==
    /\ Ready
    /\ allocateNewCh > 0
    /\ allocateNewCh' = allocateNewCh - 1
    /\ LET k == Lesser(Len(waitingRequestGroups), getAvailableProcessNum)
       IN  /\ create' = SubSeq(waitingRequestGroups, 1, k)
           /\ op' = IF k < 0 THEN "panic" ELSE IF k = 0 THEN "rest"
                    ELSE "allocateNew"
    /\ UNCHANGED <<procVars, cacheVars, waitingRequestGroups, eventCh,
                   allocateIdleCh, cleanTimer, freeUsers, user, replies, request,
                   allocated>>

\* The group gets two replies: the process, and that it waits no more.
CreateForWaiting ==
    /\ op = "allocateNew"
    /\ LET g == Head(create)
       IN  /\ createNewProcess(g)
           /\ waitingRequestGroups' = Without(waitingRequestGroups, g)
           /\ replies' = [replies EXCEPT ![g] = @ + 2]
    /\ create' = Tail(create)
    /\ op' = IF create' = << >> THEN "rest" ELSE op
    /\ UNCHANGED <<eventCh, allocateIdleCh, allocateNewCh, cleanTimer, request,
                   allocated>>

-----------------------------------------------------------------------------
(* handleSandboxExitMsg and handleCleanIdleProcesses                       *)

handleSandboxExitMsg ==
    /\ Ready
    /\ allocateNewCh < SignalBound
    /\ eventCh # << >> /\ Head(eventCh).type = "exit"
    /\ eventCh' = Tail(eventCh)
    /\ closeSandbox(Head(eventCh).group, Head(eventCh).name)
    /\ allocateNewCh' = IF op' = "panic" THEN allocateNewCh ELSE allocateNewCh + 1
    /\ UNCHANGED <<procVars, allocateIdleCh, cleanTimer, user, request, allocated,
                   create>>

\* With nothing to release the handler returns before startTimer.
handleCleanIdleProcesses ==
    /\ Ready
    /\ allocateNewCh < SignalBound
    /\ cleanTimer
    /\ cleanTimer' = FALSE
    /\ LET k == Lesser(ReleaseTarget - getAvailableProcessNum, Len(idleProcesses))
       IN  /\ Begin([p \in {object[idleProcesses[i]] : i \in 1 .. k} |-> Close])
           /\ op' = IF k <= 0 THEN "rest" ELSE "clean"
    /\ UNCHANGED <<procVarsButCall, cacheVars, waitingRequestGroups, eventCh,
                   allocateIdleCh, allocateNewCh, freeUsers, user, replies,
                   request, allocated, create>>

EndClean ==
    /\ op = "clean" /\ CallsReturned
    /\ op' = "rest" /\ allocated' = 0
    /\ allocateNewCh' = IF allocated > 0 THEN allocateNewCh + 1 ELSE allocateNewCh
    /\ cleanTimer' = TRUE
    /\ UNCHANGED <<procVars, cacheVars, waitingRequestGroups, eventCh,
                   allocateIdleCh, freeUsers, user, replies, request, create>>

-----------------------------------------------------------------------------
(* What the goroutines of a handler do around the calls.                   *)

SameContract(p) ==
    call[p].to # Close /\ Contract[requestGroup[p]] = Contract[call[p].to]

\* "meet the same idle process": no call is made, the process counts as
\* allocated.  A group that waited is told twice.
MeetSameProcess(p) ==
    /\ call[p].at = "enter" /\ SameContract(p)
    /\ call' = [call EXCEPT ![p] = NoCall]
    /\ LET g == call[p].to IN
       IF op = "allocateIdle"
         THEN /\ waitingRequestGroups' = Without(waitingRequestGroups, g)
              /\ replies' = [replies EXCEPT ![g] = @ + 2]
              /\ UNCHANGED allocated
         ELSE /\ allocated' = allocated + 1
              /\ UNCHANGED <<waitingRequestGroups, replies>>
    /\ UNCHANGED <<procVarsButCall, cacheVars, eventCh, allocateIdleCh,
                   allocateNewCh, cleanTimer, freeUsers, user, op, request, create>>

\* ChangeSandbox returned: the process moves from its old name and group to
\* the new ones.  A group that waited is told twice.
ChangeSucceeds(p) ==
    /\ call[p].at = "killed" /\ call[p].to # Close
    /\ CallDone(p)
    /\ LET g == call[p].to
           n == call[p].oldName
           o == call[p].oldGroup
           waited == op = "allocateIdle"
           emptied == Emptied(o, n)
           left == IF waited THEN Without(waitingRequestGroups, g)
                             ELSE waitingRequestGroups
       IN  /\ idleProcesses' = Without(idleProcesses, n)
           /\ busyProcesses' = (busyProcesses \ {n}) \cup {processName[p]}
           /\ object' = [object EXCEPT ![n] = AnyProc, ![processName[p]] = p]
           /\ processGroups' = [processGroups EXCEPT ![o] = @ \ {n},
                                                     ![g] = @ \cup {processName[p]}]
           /\ waitingRequestGroups' = IF emptied THEN Without(left, o) ELSE left
           /\ replies' = [h \in Groups |->
                            replies[h] + (IF waited /\ h = g THEN 2 ELSE 0)
                                       + (IF emptied /\ h = o THEN 1 ELSE 0)]
           /\ allocated' = IF waited THEN allocated ELSE allocated + 1
    /\ UNCHANGED <<eventCh, allocateIdleCh, allocateNewCh, cleanTimer, freeUsers,
                   user, op, request, create>>

\* CloseSandbox returned: the process is forgotten and its user given back.
CloseSucceeds(p) ==
    /\ call[p].at = "killed" /\ call[p].to = Close
    /\ CallDone(p)
    /\ closeSandbox(requestGroup[p], processName[p])
    /\ allocated' = allocated + 1
    /\ UNCHANGED <<eventCh, allocateIdleCh, allocateNewCh, cleanTimer, user,
                   request, create>>

-----------------------------------------------------------------------------
(* ChangeProcessState, called by the listener of a process.                *)

\* Mutant: the process stays in idleProcesses.
ChangeToBusy_KeepsIdle(n) ==
    /\ n \in IdleNames
    /\ busyProcesses' = busyProcesses \cup {n}
    /\ UNCHANGED <<idleProcesses, object, processGroups, waitingRequestGroups,
                   eventCh, allocateIdleCh, allocateNewCh, cleanTimer, freeUsers,
                   user, replies, op, request, allocated, create>>

\* toBusy
ChangeToBusy(n) ==
    /\ n \in IdleNames
    /\ busyProcesses' = busyProcesses \cup {n}
    /\ idleProcesses' = Without(idleProcesses, n)
    /\ UNCHANGED <<object, processGroups, waitingRequestGroups, eventCh,
                   allocateIdleCh, allocateNewCh, cleanTimer, freeUsers, user,
                   replies, op, request, allocated, create>>

\* not toBusy: addProcessToIdle, which wakes the allocation when a group waits.
ChangeToIdle(n) ==
    /\ n \in busyProcesses
    /\ allocateIdleCh < SignalBound
    /\ LET g == requestGroup[object[n]]
           waits == g \in Elements(waitingRequestGroups)
       IN  /\ idleProcesses' = Append(idleProcesses, n)
           /\ busyProcesses' = busyProcesses \ {n}
           /\ waitingRequestGroups' = IF waits THEN Without(waitingRequestGroups, g)
                                               ELSE waitingRequestGroups
           /\ replies' = [replies EXCEPT ![g] = IF waits THEN @ + 1 ELSE @]
           /\ allocateIdleCh' = IF waitingRequestGroups' # << >>
                                  THEN allocateIdleCh + 1 ELSE allocateIdleCh
    /\ UNCHANGED <<object, processGroups, eventCh, allocateNewCh, cleanTimer,
                   freeUsers, user, op, request, allocated, create>>
=============================================================================
