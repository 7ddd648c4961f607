-------------------------- MODULE ProcessPoolTypes --------------------------
(***************************************************************************)
(* Type correctness of ProcessPool for every number of processes, groups,  *)
(* users and transactions and every bound.                                 *)
(***************************************************************************)
EXTENDS ProcessPoolStepTypes

\* Of how many of the requested processes can be made.
LEMMA AvailableType ==
    ASSUME TypeOK, FiniteCaches
    PROVE  /\ Len(idleProcesses) \in Nat /\ Cardinality(busyProcesses) \in Nat
           /\ getAvailableProcessNum \in Int
           /\ Len(waitingRequestGroups) \in Nat
           /\ \A i \in 1 .. Len(idleProcesses) :
                 idleProcesses[i] \in IdleNames /\ object[idleProcesses[i]] \in Procs
           /\ \A i \in 1 .. Len(waitingRequestGroups) :
                 waitingRequestGroups[i] \in Groups
<1>1. Cardinality(busyProcesses) \in Nat
  BY FS_CardinalityType DEF FiniteCaches
<1>2. idleProcesses \in Seq(Names) /\ waitingRequestGroups \in Seq(Groups)
      /\ object \in [Names -> Procs]
  BY DEF TypeOK, PMTypeOK
<1>3. getAvailableProcessNum \in Int
  BY <1>1, <1>2, ConstantsAssumption DEF getAvailableProcessNum
<1>4. \A i \in 1 .. Len(idleProcesses) :
         idleProcesses[i] \in IdleNames /\ object[idleProcesses[i]] \in Procs
  BY <1>2 DEF IdleNames, Elements
<1> QED BY <1>1, <1>2, <1>3, <1>4

\* The request a handler works on.
LEMMA RequestType ==
    ASSUME TypeInv, op \in {"get", "change"}
    PROVE  request.group \in Groups /\ request.num \in Nat
<1>1. request \in Messages \cup {NoRequest} /\ request.type = "get"
  BY DEF TypeInv, TypeOK, PMTypeOK, HandlerInv
<1> QED BY <1>1 DEF Messages, NoRequest

\* Steps of the event loop of the process manager.
LEMMA ManagerTypeInv ==
    ASSUME TypeInv, ManagerStep
    PROVE  TypeInv'
<1>0. TypeOK /\ ProcTypeOK /\ PMTypeOK /\ FiniteCaches /\ HandlerInv
  BY DEF TypeInv, TypeOK
<1>c. inflight' \in [Groups -> Nat] /\ txCh' \in [Groups -> Nat]
      /\ processWaiting' \in [Groups -> BOOLEAN] /\ asking' \in [Groups -> BOOLEAN]
      /\ faults' \in Nat
  BY <1>0 DEF ManagerStep, groupVars, TypeOK
<1>s. SUFFICES ProcTypeOK' /\ PMTypeOK' /\ FiniteCaches' /\ HandlerInv'
  BY <1>c DEF TypeInv, TypeOK
<1>1. CASE handleGetProcessReq
  <2>1. Head(eventCh) \in Messages /\ eventCh' \in Seq(Messages)
    BY <1>0, <1>1 DEF handleGetProcessReq, PMTypeOK
  <2>2. Head(eventCh).group \in Groups /\ Head(eventCh).num \in Nat
        /\ Head(eventCh).type = "get"
    BY <1>1, <2>1, Zenon DEF handleGetProcessReq, Messages
  <2>3. create' \in Seq(Groups)
    <3> DEFINE k == Lesser(Head(eventCh).num, getAvailableProcessNum)
    <3>1. k \in Int
      BY <1>0, <2>2, AvailableType DEF Lesser
    <3>2. create' = [i \in 1 .. k |-> Head(eventCh).group]
      BY <1>1 DEF handleGetProcessReq
    <3> HIDE DEF k
    <3>3. CASE k \in Nat
      BY <2>2, <3>2, <3>3
    <3>4. CASE k \notin Nat
      <4>1. 1 .. k = {}
        BY <3>1, <3>4
      <4>2. create' = << >>
        BY <3>2, <4>1
      <4> QED BY <4>2
    <3> QED BY <3>3, <3>4
  <2>4. PMTypeOK' /\ ProcTypeOK' /\ FiniteCaches'
    BY <1>0, <1>1, <2>1, <2>3, Zenon
    DEF handleGetProcessReq, procVars, cacheVars, PMTypeOK, FiniteCaches,
        ProcTypeOK, Handlers
  <2>5. HandlerInv'
    BY <1>0, <1>1, SMTT(30)
    DEF handleGetProcessReq, procVars, HandlerInv, CallsReturned, Ready, AtRest
  <2> QED BY <2>4, <2>5
<1>2. CASE CreateForRequest
  <2>1. Head(create) \in Groups /\ Tail(create) \in Seq(Groups)
    BY <1>0, <1>2 DEF CreateForRequest, PMTypeOK
  <2>2. createNewProcess(Head(create))
    BY <1>2 DEF CreateForRequest
  <2>3. /\ ProcTypeOK'
        /\ user' \in [Procs -> Users] /\ freeUsers' \in Seq(Users)
        /\ idleProcesses' \in Seq(Names)
        /\ busyProcesses' \subseteq Names /\ FiniteCaches'
        /\ object' \in [Names -> Procs]
        /\ processGroups' \in [Groups -> SUBSET Names]
        /\ CallsReturned => CallsReturned'
    BY <1>0, <2>1, <2>2, CreateType
  <2>4. PMTypeOK'
    BY <1>0, <1>2, <2>1, <2>3, SMTT(30) DEF CreateForRequest, PMTypeOK
  <2>5. HandlerInv'
    BY <1>0, <1>2, <2>3 DEF CreateForRequest, HandlerInv
  <2> QED BY <2>3, <2>4, <2>5
<1>3. CASE PickIdleProcesses
  <2> DEFINE k == Lesser(request.num - allocated, Len(idleProcesses))
             T == {object[idleProcesses[i]] : i \in 1 .. k}
             t == [p \in T |-> request.group]
  <2>1. request.group \in Groups /\ request.num \in Nat
    BY <1>3, RequestType, SMTT(30) DEF PickIdleProcesses
  <2>2. k \in Int /\ k <= Len(idleProcesses)
    BY <1>0, <2>1, AvailableType, SMTT(30) DEF Lesser, PMTypeOK
  <2>3. T \in SUBSET Procs /\ t \in [T -> Groups \cup {Close}]
    <3> HIDE DEF k
    <3> QED BY <1>0, <2>1, <2>2, AvailableType, SMTT(30)
  <2>4. Begin(t)
    BY <1>3 DEF PickIdleProcesses
  <2>5. call' \in [Procs -> Calls]
    <3> HIDE DEF T, t
    <3> QED BY <1>0, <2>3, <2>4, BeginType
  <2> HIDE DEF t, T, k
  <2>6. ProcTypeOK' /\ PMTypeOK' /\ FiniteCaches'
    BY <1>0, <1>3, <2>5, Zenon
    DEF PickIdleProcesses, procVarsButCall, cacheVars, PMTypeOK, FiniteCaches,
        ProcTypeOK, Handlers
  <2>7. HandlerInv'
    BY <1>0, <1>3, Zenon DEF PickIdleProcesses, HandlerInv
  <2> QED BY <2>6, <2>7
<1>4. CASE EndGetProcessReq
  <2>1. request.group \in Groups
    BY <1>4, RequestType DEF EndGetProcessReq
  <2>2. replies' \in [Groups -> Nat]
    <3>1. replies \in [Groups -> Nat]
          /\ [replies EXCEPT ![request.group] = @ + 1] \in [Groups -> Nat]
      BY <1>0, <2>1, CountType DEF PMTypeOK
    <3> QED BY <1>4, <3>1 DEF EndGetProcessReq
  <2>3. waitingRequestGroups' \in Seq(Groups)
    <3>1. waitingRequestGroups \in Seq(Groups)
          /\ Append(waitingRequestGroups, request.group) \in Seq(Groups)
      BY <1>0, <2>1 DEF PMTypeOK
    <3>2. waitingRequestGroups' \in {waitingRequestGroups,
                                     Append(waitingRequestGroups, request.group)}
      BY <1>4 DEF EndGetProcessReq
    <3> QED BY <3>1, <3>2
  <2>4. ProcTypeOK' /\ PMTypeOK' /\ FiniteCaches'
    BY <1>0, <1>4, <2>2, <2>3, Zenon
    DEF EndGetProcessReq, procVars, cacheVars, PMTypeOK, FiniteCaches,
        ProcTypeOK, Handlers
  <2>5. HandlerInv'
    BY <1>0, <1>4 DEF EndGetProcessReq, HandlerInv, procVars, CallsReturned
  <2> QED BY <2>4, <2>5
<1>5. CASE handleAllocateIdleProcesses
  <2> DEFINE k == Lesser(Len(waitingRequestGroups), Len(idleProcesses))
             T == {object[idleProcesses[i]] : i \in 1 .. k}
             t == [p \in T |-> waitingRequestGroups[
                                 CHOOSE i \in 1 .. k : object[idleProcesses[i]] = p]]
  <2>1. k \in Nat /\ k <= Len(idleProcesses) /\ k <= Len(waitingRequestGroups)
    BY <1>0, AvailableType, SMTT(30) DEF Lesser
  <2>2. T \in SUBSET Procs /\ t \in [T -> Groups \cup {Close}]
    <3> HIDE DEF k
    <3>1. T \in SUBSET Procs
      BY <1>0, <2>1, AvailableType, SMTT(30)
    <3>2. ASSUME NEW p \in T
          PROVE  waitingRequestGroups[CHOOSE i \in 1 .. k :
                                        object[idleProcesses[i]] = p] \in Groups
      <4> DEFINE j == CHOOSE i \in 1 .. k : object[idleProcesses[i]] = p
      <4>1. j \in 1 .. k
        BY Zenon
      <4>2. j \in 1 .. Len(waitingRequestGroups)
        <5> HIDE DEF j
        <5> QED BY <1>0, <2>1, <4>1, AvailableType
      <4> HIDE DEF j
      <4>3. waitingRequestGroups[j] \in Groups
        BY <1>0, <4>2, AvailableType
      <4> QED BY <4>3, Zenon DEF j
    <3> QED BY <3>1, <3>2, Zenon
  <2>3. Begin(t) /\ op' = IF k = 0 THEN "rest" ELSE "allocateIdle"
    BY <1>5 DEF handleAllocateIdleProcesses
  <2>4. call' \in [Procs -> Calls]
    <3> HIDE DEF T, t
    <3> QED BY <1>0, <2>2, <2>3, BeginType
  <2>5. k = 0 => call' = call
    <3>1. k = 0 => T = {}
      <4> HIDE DEF k
      <4> QED OBVIOUS
    <3> QED BY <1>0, <2>3, <3>1, Zenon DEF Begin, ProcTypeOK
  <2> HIDE DEF t, T, k
  <2>6. ProcTypeOK' /\ PMTypeOK' /\ FiniteCaches'
    <3>1. op' \in Handlers
      BY <2>3 DEF Handlers
    <3>2. ProcTypeOK'
      BY <1>0, <1>5, <2>4, Zenon DEF handleAllocateIdleProcesses, procVarsButCall, ProcTypeOK
    <3> QED BY <1>0, <1>5, <3>1, <3>2, SMTT(30)
            DEF handleAllocateIdleProcesses, cacheVars, PMTypeOK, FiniteCaches
  <2>7. HandlerInv'
    BY <1>0, <1>5, <2>3, <2>5, Zenon
    DEF handleAllocateIdleProcesses, HandlerInv, CallsReturned, Ready, AtRest
  <2> QED BY <2>6, <2>7
<1>6. CASE EndAllocateIdle
  <2>1. ProcTypeOK' /\ PMTypeOK' /\ FiniteCaches'
    BY <1>0, <1>6, Zenon
    DEF EndAllocateIdle, procVars, cacheVars, PMTypeOK, FiniteCaches,
        ProcTypeOK, Handlers
  <2>2. HandlerInv'
    BY <1>0, <1>6 DEF EndAllocateIdle, HandlerInv, procVars, CallsReturned
  <2> QED BY <2>1, <2>2
<1>7. CASE handleAllocateNewProcesses
  <2> DEFINE k == Lesser(Len(waitingRequestGroups), getAvailableProcessNum)
  <2>1. /\ create' = SubSeq(waitingRequestGroups, 1, k)
        /\ op' = IF k < 0 THEN "panic" ELSE IF k = 0 THEN "rest" ELSE "allocateNew"
    BY <1>7 DEF handleAllocateNewProcesses
  <2>2. k \in Int /\ k <= Len(waitingRequestGroups) /\ Len(waitingRequestGroups) \in Nat
    BY <1>0, AvailableType DEF Lesser
  <2> HIDE DEF k
  <2>3. waitingRequestGroups \in Seq(Groups)
    BY <1>0 DEF PMTypeOK
  <2>4. create' \in Seq(Groups) /\ (k <= 0 => create' = << >>)
        /\ (k > 0 => create' # << >>)
    <3>1. CASE k <= 0
      <4>1. create' = << >>
        BY <2>1, <2>2, <2>3, <3>1
      <4> QED BY <2>2, <3>1, <4>1
    <3>2. CASE k > 0
      <4>1. create' \in Seq(Groups) /\ Len(create') = k
        BY <2>1, <2>2, <2>3, <3>2
      <4> QED BY <2>2, <3>2, <4>1
    <3> QED BY <2>2, <3>1, <3>2
  <2>5. ProcTypeOK' /\ PMTypeOK' /\ FiniteCaches'
    <3>1. op' \in Handlers
      BY <2>1 DEF Handlers
    <3>2. ProcTypeOK'
      BY <1>0, <1>7, SMTT(30) DEF handleAllocateNewProcesses, procVars, ProcTypeOK
    <3> QED BY <1>0, <1>7, <2>4, <3>1, <3>2, SMTT(30)
            DEF handleAllocateNewProcesses, cacheVars, PMTypeOK, FiniteCaches
  <2>6. HandlerInv'
    BY <1>0, <1>7, <2>1, <2>2, <2>4
    DEF handleAllocateNewProcesses, HandlerInv, procVars, CallsReturned, Ready, AtRest
  <2> QED BY <2>5, <2>6
<1>8. CASE CreateForWaiting
  <2>1. Head(create) \in Groups /\ Tail(create) \in Seq(Groups)
    BY <1>0, <1>8 DEF CreateForWaiting, HandlerInv, PMTypeOK
  <2>2. createNewProcess(Head(create))
    BY <1>8 DEF CreateForWaiting
  <2>3. /\ ProcTypeOK'
        /\ user' \in [Procs -> Users] /\ freeUsers' \in Seq(Users)
        /\ idleProcesses' \in Seq(Names)
        /\ busyProcesses' \subseteq Names /\ FiniteCaches'
        /\ object' \in [Names -> Procs]
        /\ processGroups' \in [Groups -> SUBSET Names]
        /\ CallsReturned => CallsReturned'
    BY <1>0, <2>1, <2>2, CreateType
  <2>4. waitingRequestGroups' \in Seq(Groups) /\ replies' \in [Groups -> Nat]
    <3>1. /\ waitingRequestGroups' = Without(waitingRequestGroups, Head(create))
          /\ replies' = [replies EXCEPT ![Head(create)] = @ + 2]
          /\ waitingRequestGroups \in Seq(Groups) /\ replies \in [Groups -> Nat]
      BY <1>0, <1>8 DEF CreateForWaiting, PMTypeOK
    <3> QED BY <2>1, <3>1, WithoutFacts, CountType
  <2>5. PMTypeOK'
    BY <1>0, <1>8, <2>1, <2>3, <2>4, Zenon DEF CreateForWaiting, PMTypeOK, Handlers
  <2>6. HandlerInv'
    BY <1>0, <1>8, <2>3 DEF CreateForWaiting, HandlerInv
  <2> QED BY <2>3, <2>5, <2>6
<1>9. CASE handleSandboxExitMsg
  <2>1. Head(eventCh) \in Messages /\ eventCh' \in Seq(Messages)
    BY <1>0, <1>9 DEF handleSandboxExitMsg, PMTypeOK
  <2>2. Head(eventCh).group \in Groups /\ Head(eventCh).name \in Names
    BY <1>9, <2>1, Zenon DEF handleSandboxExitMsg, Messages
  <2>3. closeSandbox(Head(eventCh).group, Head(eventCh).name)
    BY <1>9 DEF handleSandboxExitMsg
  <2>4. /\ idleProcesses' \in Seq(Names)
        /\ busyProcesses' \subseteq Names /\ FiniteCaches'
        /\ object' \in [Names -> Procs]
        /\ processGroups' \in [Groups -> SUBSET Names]
        /\ waitingRequestGroups' \in Seq(Groups)
        /\ replies' \in [Groups -> Nat]
        /\ freeUsers' \in Seq(Users)
        /\ op' \in {op, "panic"}
    BY <1>0, <2>2, <2>3, CloseType, SMTT(30)
  <2>5. ProcTypeOK' /\ allocateNewCh' \in Nat
    BY <1>0, <1>9, SMTT(30) DEF handleSandboxExitMsg, procVars, ProcTypeOK, PMTypeOK
  <2>6. PMTypeOK'
    BY <1>0, <1>9, <2>1, <2>4, <2>5, SMTT(30) DEF handleSandboxExitMsg, PMTypeOK, Handlers
  <2>7. HandlerInv'
    BY <1>0, <1>9, <2>4, Zenon
    DEF handleSandboxExitMsg, HandlerInv, procVars, CallsReturned, Ready, AtRest
  <2> QED BY <2>4, <2>5, <2>6, <2>7
<1>10. CASE handleCleanIdleProcesses
  <2> DEFINE k == Lesser(ReleaseTarget - getAvailableProcessNum, Len(idleProcesses))
             T == {object[idleProcesses[i]] : i \in 1 .. k}
             t == [p \in T |-> Close]
  <2>1. k \in Int /\ k <= Len(idleProcesses)
    BY <1>0, AvailableType, ConstantsAssumption, SMTT(30) DEF Lesser
  <2>2. T \in SUBSET Procs /\ t \in [T -> Groups \cup {Close}]
    <3> HIDE DEF k
    <3> QED BY <1>0, <2>1, AvailableType
  <2>3. Begin(t) /\ op' = IF k <= 0 THEN "rest" ELSE "clean"
    BY <1>10 DEF handleCleanIdleProcesses
  <2>4. call' \in [Procs -> Calls]
    <3> HIDE DEF T, t
    <3> QED BY <1>0, <2>2, <2>3, BeginType
  <2>5. k <= 0 => call' = call
    <3>1. k <= 0 => T = {}
      <4> HIDE DEF k
      <4> QED BY <2>1
    <3> QED BY <1>0, <2>3, <3>1, Zenon DEF Begin, ProcTypeOK
  <2> HIDE DEF t, T, k
  <2>6. ProcTypeOK' /\ PMTypeOK' /\ FiniteCaches'
    <3>1. op' \in Handlers
      BY <2>3 DEF Handlers
    <3>2. ProcTypeOK'
      BY <1>0, <1>10, <2>4, Zenon DEF handleCleanIdleProcesses, procVarsButCall, ProcTypeOK
    <3> QED BY <1>0, <1>10, <3>1, <3>2, Zenon
            DEF handleCleanIdleProcesses, cacheVars, PMTypeOK, FiniteCaches
  <2>7. HandlerInv'
    BY <1>0, <1>10, <2>3, <2>5, Zenon
    DEF handleCleanIdleProcesses, HandlerInv, CallsReturned, Ready, AtRest
  <2> QED BY <2>6, <2>7
<1>11. CASE EndClean
  <2>1. ProcTypeOK' /\ PMTypeOK' /\ FiniteCaches'
    BY <1>0, <1>11, SMTT(30) DEF EndClean, procVars, cacheVars, PMTypeOK, FiniteCaches,
        ProcTypeOK, Handlers
  <2>2. HandlerInv'
    BY <1>0, <1>11 DEF EndClean, HandlerInv, procVars, CallsReturned
  <2> QED BY <2>1, <2>2
<1> QED
  BY <1>1, <1>2, <1>3, <1>4, <1>5, <1>6, <1>7, <1>8, <1>9, <1>10, <1>11, SMTT(30)
  DEF ManagerStep

\* Steps of the request groups.
LEMMA GroupTypeInv ==
    ASSUME TypeInv, NEW g \in Groups, GroupStep(g)
    PROVE  TypeInv'
<1>0. TypeOK /\ ProcTypeOK /\ PMTypeOK /\ FiniteCaches /\ HandlerInv
  BY DEF TypeInv, TypeOK
<1>1. ProcTypeOK' /\ call' = call
  BY <1>0, Zenon
  DEF GroupStep, handleTxReq, handleProcessReadyResp, getProcesses, procVars, ProcTypeOK
<1>2. CASE handleTxReq(g)
  <2>1. PMTypeOK' /\ FiniteCaches' /\ HandlerInv'
    BY <1>1, <1>2, ManagerUnchanged DEF handleTxReq
  <2>2. inflight' \in [Groups -> Nat] /\ txCh' \in [Groups -> Nat]
    BY <1>0, <1>2 DEF handleTxReq, TypeOK
  <2> QED BY <1>0, <1>1, <1>2, <2>1, <2>2, SMTT(30) DEF handleTxReq, TypeInv, TypeOK
<1>3. CASE handleProcessReadyResp(g)
  <2>1. replies' \in [Groups -> Nat]
    BY <1>0, <1>3, SMTT(30) DEF handleProcessReadyResp, PMTypeOK
  <2>2. PMTypeOK' /\ FiniteCaches'
    BY <1>0, <1>3, <2>1, Zenon DEF handleProcessReadyResp, cacheVars, PMTypeOK, FiniteCaches
  <2>3. HandlerInv'
    BY <1>0, <1>1, <1>3, SMTT(30) DEF handleProcessReadyResp, HandlerInv, CallsReturned
  <2> QED BY <1>0, <1>1, <1>3, <2>2, <2>3, SMTT(30) DEF handleProcessReadyResp, TypeInv, TypeOK
<1>4. CASE getProcesses(g)
  <2> DEFINE readyOrBusy == {n \in processGroups[g] :
                               processState[object[n]] \in {"ready", "busy"}}
             need == txCh[g] - ( Cardinality(processGroups[g])
                                 - Cardinality(readyOrBusy) )
             m == [type |-> "get", group |-> g, num |-> need]
  <2>1. PMTypeOK' /\ FiniteCaches'
    <3>1. eventCh' = eventCh \/ (need > 0 /\ eventCh' = Append(eventCh, m))
      BY <1>4, Zenon DEF getProcesses
    <3>2. Cardinality(processGroups[g]) \in Nat /\ Cardinality(readyOrBusy) \in Nat
      <4>1. IsFiniteSet(processGroups[g]) /\ readyOrBusy \subseteq processGroups[g]
        BY <1>0 DEF FiniteCaches
      <4> HIDE DEF readyOrBusy
      <4> QED BY <4>1, FS_Subset, FS_CardinalityType, Zenon
    <3>3. txCh[g] \in Nat
      BY <1>0 DEF TypeOK
    <3>4. need \in Int
      <4> HIDE DEF readyOrBusy
      <4> QED BY <3>2, <3>3
    <3> HIDE DEF need
    <3>5. need > 0 => m \in Messages
      BY <3>4, SMTT(30) DEF Messages
    <3> HIDE DEF m
    <3>6. eventCh' \in Seq(Messages)
      <4>1. eventCh \in Seq(Messages)
        BY <1>0 DEF PMTypeOK
      <4>2. CASE need > 0 /\ eventCh' = Append(eventCh, m)
        BY <3>5, <4>1, <4>2
      <4> QED BY <3>1, <4>1, <4>2
    <3> QED BY <1>0, <1>4, <3>6, Zenon DEF getProcesses, cacheVars, PMTypeOK, FiniteCaches
  <2>2. HandlerInv'
    BY <1>0, <1>1, <1>4, Zenon DEF getProcesses, HandlerInv, CallsReturned
  <2>3. processWaiting' \in [Groups -> BOOLEAN] /\ asking' \in [Groups -> BOOLEAN]
    BY <1>0, <1>4, Zenon DEF getProcesses, TypeOK
  <2> QED BY <1>0, <1>1, <1>4, <2>1, <2>2, <2>3, Zenon DEF getProcesses, TypeInv, TypeOK
<1> QED BY <1>2, <1>3, <1>4 DEF GroupStep

\* Faults of the environment.
LEMMA FaultTypeInv ==
    ASSUME TypeInv, NEW p \in Procs, FaultStep(p)
    PROVE  TypeInv'
<1>0. TypeOK /\ ProcTypeOK
  BY DEF TypeInv, TypeOK
<1>1. faults' \in Nat
  <2>1. faults > 0 /\ faults' = faults - 1
    BY Zenon DEF FaultStep, LaunchFault, Crash, handleTxResp
  <2> QED BY <1>0, <2>1 DEF TypeOK
<1>2. UNCHANGED <<pmVars, groupVars>>
  BY Zenon DEF FaultStep, LaunchFault, Crash, handleTxResp
<1>3. ProcTypeOK' /\ call' = call
  <2>1. CASE LaunchFault(p)
    <3>1. PICK e \in LaunchErrors : LaunchFails(p, e)
      BY <2>1 DEF LaunchFault
    <3>2. e \in ExitErrors
      BY <3>1, PoolAssumption
    <3> QED BY <1>0, <3>1, <3>2, SMTT(30) DEF LaunchFails, ProcTypeOK, SandboxStates
  <2>2. CASE Crash(p)
    BY <1>0, <2>2, ProcessStepType, Zenon DEF Crash
  <2>3. CASE handleTxResp(p, TRUE)
    BY <1>0, <2>3, ProcessStepType, Zenon DEF handleTxResp
  <2> QED BY <2>1, <2>2, <2>3, Zenon DEF FaultStep
<1> QED BY <1>0, <1>1, <1>2, <1>3, ManagerUnchanged DEF groupVars, TypeInv, TypeOK

\* TypeInv holds at the start and is preserved by every step of the pool.
LEMMA TypeInvInductive ==
    (Init => TypeInv) /\ (TypeInv /\ [Next]_vars => TypeInv')
<1>1. ASSUME Init
      PROVE  TypeInv
  <2>1. ProcTypeOK
    BY <1>1, ConstantsAssumption, Zenon
    DEF Init, ProcInit, ProcTypeOK, AnyName, ProcessStates, SandboxStates, ExitErrors,
        ListenerStates, Calls
  <2>2. PMTypeOK
    <3>1. AnyProc \in Procs /\ AnyUser \in Users /\ UserQueue \in Seq(Users)
      BY ConstantsAssumption, PoolAssumption DEF AnyProc, AnyUser
    <3>2. PMInit(UserQueue)
      BY <1>1 DEF Init
    <3>3. /\ idleProcesses \in Seq(Names) /\ waitingRequestGroups \in Seq(Groups)
          /\ eventCh \in Seq(Messages) /\ create \in Seq(Groups)
          /\ freeUsers \in Seq(Users)
      BY <3>1, <3>2 DEF PMInit
    <3>4. /\ busyProcesses \subseteq Names /\ object \in [Names -> Procs]
          /\ processGroups \in [Groups -> SUBSET Names] /\ user \in [Procs -> Users]
          /\ replies \in [Groups -> Nat]
      BY <3>1, <3>2 DEF PMInit
    <3>5. /\ allocateIdleCh \in Nat /\ allocateNewCh \in Nat /\ allocated \in Nat
          /\ cleanTimer \in BOOLEAN /\ op \in Handlers
          /\ request \in Messages \cup {NoRequest}
      BY <3>2 DEF PMInit, Handlers
    <3> QED BY <3>3, <3>4, <3>5 DEF PMTypeOK
  <2>3. FiniteCaches
    BY <1>1, FS_EmptySet, Zenon DEF Init, PMInit, FiniteCaches
  <2>4. HandlerInv
    BY <1>1, Zenon DEF Init, ProcInit, PMInit, HandlerInv, CallsReturned
  <2> QED BY <1>1, <2>1, <2>2, <2>3, <2>4, PoolAssumption DEF Init, TypeInv, TypeOK
<1>2. ASSUME TypeInv, [Next]_vars
      PROVE  TypeInv'
  <2>1. CASE UNCHANGED vars
    <3>1. ProcTypeOK'
      BY <1>2, <2>1, Zenon DEF vars, procVars, TypeInv, TypeOK, ProcTypeOK
    <3> QED BY <1>2, <2>1, <3>1, ManagerUnchanged, Zenon
            DEF vars, procVars, groupVars, TypeInv, TypeOK
  <2> QED
    BY <1>2, <2>1, ProcessTypeInv, CallTypeInv, FaultTypeInv, ManagerTypeInv,
       GroupTypeInv DEF Next
<1> QED BY <1>1, <1>2

\* Type correctness: in every reachable state of the pool every variable has a
\* value of its type; no counter is negative and every name, group and process is
\* one that exists.
THEOREM TypeCorrect == Spec => []TypeOK
<1>1. Spec => []TypeInv
  BY TypeInvInductive, PTL DEF Spec
<1>2. TypeInv => TypeOK
  BY DEF TypeInv
<1> QED BY <1>1, <1>2, PTL

=============================================================================
