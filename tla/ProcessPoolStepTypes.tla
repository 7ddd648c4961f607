------------------------ MODULE ProcessPoolStepTypes ------------------------
(***************************************************************************)
(* Lemmas on sequences, sets and counts, and type correctness of the       *)
(* steps of processes and of the calls the process manager makes on them.  *)
(***************************************************************************)
EXTENDS ProcessPool, FiniteSetTheorems, TLAPS

-----------------------------------------------------------------------------
(* Sequences without repetition, and Remove of the linked hash map.        *)

\* Remove takes out exactly the given element and keeps the others distinct.
LEMMA WithoutFacts ==
    ASSUME NEW S, NEW s \in Seq(S), NEW x
    PROVE  /\ Without(s, x) \in Seq(S)
           /\ x \in Elements(s) => Len(Without(s, x)) = Len(s) - 1
           /\ x \notin Elements(s) => Without(s, x) = s
           /\ IsDistinct(s) => /\ Elements(Without(s, x)) = Elements(s) \ {x}
                               /\ IsDistinct(Without(s, x))
<1>1. CASE x \notin Elements(s)
  BY <1>1 DEF Without, Elements
<1>2. CASE x \in Elements(s)
  <2> DEFINE i == CHOOSE i \in DOMAIN s : s[i] = x
             t == [j \in 1 .. Len(s) - 1 |-> IF j < i THEN s[j] ELSE s[j + 1]]
  <2>1. i \in 1 .. Len(s) /\ s[i] = x
    BY <1>2 DEF Elements
  <2>2. Without(s, x) = t
    BY <1>2 DEF Without
  <2> HIDE DEF i
  <2>3. t \in Seq(S) /\ Len(t) = Len(s) - 1 /\ DOMAIN t = 1 .. Len(s) - 1
    BY <2>1
  <2>4. ASSUME IsDistinct(s)
        PROVE  Elements(t) = Elements(s) \ {x} /\ IsDistinct(t)
    <3>1. IsDistinct(t)
      BY <2>1, <2>3, <2>4 DEF IsDistinct
    <3>2. ASSUME NEW e \in Elements(t)
          PROVE  e \in Elements(s) \ {x}
      BY <2>1, <2>3, <2>4, <3>2 DEF IsDistinct, Elements
    <3>3. ASSUME NEW e \in Elements(s) \ {x}
          PROVE  e \in Elements(t)
      <4>1. PICK k \in 1 .. Len(s) : s[k] = e /\ k # i
        BY <2>1, <3>3 DEF Elements
      <4>2. CASE k < i
        <5>1. k \in 1 .. Len(s) - 1 /\ t[k] = s[k]
          BY <2>1, <4>1, <4>2
        <5> QED BY <2>3, <4>1, <5>1 DEF Elements
      <4>3. CASE k > i
        <5>1. k - 1 \in 1 .. Len(s) - 1 /\ t[k - 1] = s[k]
          BY <2>1, <4>1, <4>3
        <5> QED BY <2>3, <4>1, <5>1 DEF Elements
      <4> QED BY <2>1, <4>1, <4>2, <4>3
    <3> QED BY <3>1, <3>2, <3>3
  <2> QED BY <1>2, <2>2, <2>3, <2>4, Zenon
<1> QED BY <1>1, <1>2

\* Append adds one element at the end, Tail takes the first one away.
LEMMA AppendTailFacts ==
    ASSUME NEW S, NEW s \in Seq(S), IsDistinct(s)
    PROVE  /\ \A x \in S \ Elements(s) :
                 /\ IsDistinct(Append(s, x))
                 /\ Elements(Append(s, x)) = Elements(s) \cup {x}
           /\ s # << >> =>
                 /\ Head(s) \in Elements(s)
                 /\ IsDistinct(Tail(s))
                 /\ Elements(Tail(s)) = Elements(s) \ {Head(s)}
<1>1. ASSUME NEW x \in S \ Elements(s)
      PROVE  /\ IsDistinct(Append(s, x))
             /\ Elements(Append(s, x)) = Elements(s) \cup {x}
  <2> DEFINE t == Append(s, x)
  <2>1. /\ DOMAIN t = 1 .. Len(s) + 1 /\ t[Len(s) + 1] = x
        /\ DOMAIN s = 1 .. Len(s) /\ Len(s) \in Nat
        /\ \A j \in 1 .. Len(s) : t[j] = s[j]
    OBVIOUS
  <2> HIDE DEF t
  <2>2. Elements(t) \subseteq Elements(s) \cup {x}
    BY <2>1 DEF Elements
  <2>3. Elements(s) \cup {x} \subseteq Elements(t)
    BY <2>1 DEF Elements
  <2>4. IsDistinct(t)
    BY <1>1, <2>1 DEF IsDistinct, Elements
  <2> QED BY <2>2, <2>3, <2>4 DEF t
<1>2. ASSUME s # << >>
      PROVE  /\ Head(s) \in Elements(s)
             /\ IsDistinct(Tail(s))
             /\ Elements(Tail(s)) = Elements(s) \ {Head(s)}
  <2>1. Len(s) \in Nat /\ Len(s) > 0 /\ Head(s) = s[1]
    BY <1>2
  <2>2. /\ DOMAIN Tail(s) = 1 .. Len(s) - 1
        /\ \A j \in 1 .. Len(s) - 1 : Tail(s)[j] = s[j + 1]
    BY <1>2
  <2>3. Elements(Tail(s)) \subseteq Elements(s) \ {Head(s)}
    BY <2>1, <2>2 DEF IsDistinct, Elements
  <2>4. ASSUME NEW e \in Elements(s) \ {Head(s)}
        PROVE  e \in Elements(Tail(s))
    <3>1. PICK k \in 2 .. Len(s) : s[k] = e
      BY <2>1, <2>4 DEF Elements
    <3>2. k - 1 \in 1 .. Len(s) - 1 /\ Tail(s)[k - 1] = e
      BY <2>1, <2>2, <3>1
    <3> QED BY <2>2, <3>2, Zenon DEF Elements
  <2>5. IsDistinct(Tail(s))
    BY <2>1, <2>2 DEF IsDistinct
  <2>6. Head(s) \in Elements(s)
    BY <2>1 DEF Elements
  <2> QED BY <2>3, <2>4, <2>5, <2>6
<1> QED BY <1>1, <1>2

-----------------------------------------------------------------------------
(* Type correctness.                                                       *)

TypeInv == TypeOK /\ FiniteCaches /\ HandlerInv

\* A finite set with one element more or less is finite.
LEMMA FiniteFacts ==
    ASSUME NEW S, IsFiniteSet(S), NEW x
    PROVE  IsFiniteSet(S \cup {x}) /\ IsFiniteSet(S \ {x})
<1>1. S \ {x} \subseteq S
  OBVIOUS
<1> QED BY <1>1, FS_AddElement, FS_Subset

\* Adding to one counter of a function of counters.
LEMMA CountType ==
    ASSUME NEW S, NEW f \in [S -> Nat], NEW x \in S, NEW k \in Nat
    PROVE  [f EXCEPT ![x] = @ + k] \in [S -> Nat] /\ [f EXCEPT ![x] = @] = f
OBVIOUS

\* Helpers return values of their types.
LEMMA HelperTypes ==
    ASSUME TypeOK
    PROVE  /\ AnyName \in Names /\ AnyProc \in Procs /\ AnyUser \in Users
           /\ FreeProcs \subseteq Procs /\ FreshNames \subseteq Names
           /\ IdleNames \subseteq Names /\ Cached \subseteq Names
           /\ Elements(eventCh) \subseteq Messages
           /\ Elements(waitingRequestGroups) \subseteq Groups
BY ConstantsAssumption
   DEF TypeOK, PMTypeOK, AnyName, AnyProc, AnyUser, FreeProcs, FreshNames,
       IdleNames, Cached, Elements

\* Steps of the goroutines and the sandbox of one process keep its type.
LEMMA ProcessStepType ==
    ASSUME ProcTypeOK, NEW p \in Procs,
           \/ Launch(p) \/ LaunchResumes(p) \/ SandboxEnds(p, TRUE)
           \/ SandboxEnds(p, FALSE) \/ Update(p) \/ ListenerKills(p)
           \/ BecomeIdle(p) \/ BusyTimeout(p) \/ ReadyTimeout(p) \/ SetStream(p)
           \/ StartTx(p) \/ HandleTxResp(p, TRUE) \/ HandleTxResp(p, FALSE)
           \/ BecomeReady(p) \/ Relaunch(p) \/ Release(p)
    PROVE  ProcTypeOK' /\ call' = call
<1> USE DEF ProcTypeOK, ProcessStates, SandboxStates, ExitErrors, ListenerStates,
            Branch, Signalled
<1>1. CASE Launch(p)
  BY <1>1 DEF Launch
<1>2. CASE LaunchResumes(p)
  BY <1>2 DEF LaunchResumes
<1>3. CASE SandboxEnds(p, TRUE) \/ SandboxEnds(p, FALSE)
  BY <1>3, Zenon DEF SandboxEnds
<1>4. CASE Update(p)
  BY <1>4 DEF Update
<1>5. CASE ListenerKills(p)
  BY <1>5 DEF ListenerKills
<1>6. CASE BecomeIdle(p)
  BY <1>6 DEF BecomeIdle
<1>7. CASE BusyTimeout(p)
  BY <1>7 DEF BusyTimeout
<1>8. CASE ReadyTimeout(p)
  BY <1>8 DEF ReadyTimeout
<1>9. CASE SetStream(p)
  BY <1>9 DEF SetStream
<1>10. CASE StartTx(p)
  BY <1>10 DEF StartTx
<1>11. CASE HandleTxResp(p, TRUE) \/ HandleTxResp(p, FALSE)
  BY <1>11, Zenon DEF HandleTxResp
<1>12. CASE BecomeReady(p)
  BY <1>12 DEF BecomeReady
<1>13. CASE Relaunch(p)
  BY <1>13 DEF Relaunch
<1>14. CASE Release(p)
  BY <1>14 DEF Release
<1> QED
  BY <1>1, <1>2, <1>3, <1>4, <1>5, <1>6, <1>7, <1>8, <1>9, <1>10, <1>11, <1>12,
     <1>13, <1>14, Zenon

\* The processes a handler picks are processes, and Begin makes calls of them.
LEMMA BeginType ==
    ASSUME ProcTypeOK, NEW T \in SUBSET Procs, NEW t \in [T -> Groups \cup {Close}],
           Begin(t)
    PROVE  call' \in [Procs -> Calls]
<1>1. \A p \in T : [at |-> "enter", to |-> t[p], oldName |-> processName[p],
                    oldGroup |-> requestGroup[p]] \in Calls
  BY DEF ProcTypeOK, Calls
<1> QED BY <1>1 DEF Begin, ProcTypeOK

\* Creating a process for a group.
LEMMA CreateType ==
    ASSUME TypeOK, FiniteCaches, NEW g \in Groups, createNewProcess(g)
    PROVE  /\ ProcTypeOK'
           /\ user' \in [Procs -> Users] /\ freeUsers' \in Seq(Users)
           /\ idleProcesses' \in Seq(Names)
           /\ busyProcesses' \subseteq Names /\ FiniteCaches'
           /\ object' \in [Names -> Procs]
           /\ processGroups' \in [Groups -> SUBSET Names]
           /\ CallsReturned => CallsReturned'
<1> DEFINE p == CHOOSE p \in FreeProcs : TRUE
           n == CHOOSE n \in FreshNames : TRUE
<1>1. p \in Procs /\ n \in Names
  BY HelperTypes DEF createNewProcess
<1>2. /\ NewProcess(p, g, n)
      /\ user' = [user EXCEPT ![p] = Head(freeUsers)]
      /\ freeUsers' = Tail(freeUsers) /\ freeUsers # << >>
      /\ busyProcesses' = busyProcesses \cup {n}
      /\ object' = [object EXCEPT ![n] = p]
      /\ processGroups' = [processGroups EXCEPT ![g] = @ \cup {n}]
      /\ idleProcesses' = idleProcesses
  BY DEF createNewProcess
<1> HIDE DEF p, n
<1>3. ProcTypeOK'
  BY <1>1, <1>2, HelperTypes, Zenon
  DEF NewProcess, TypeOK, ProcTypeOK, ProcessStates, SandboxStates, ExitErrors,
      ListenerStates, Calls
<1>4. CallsReturned => CallsReturned'
  BY <1>1, <1>2 DEF NewProcess, CallsReturned, TypeOK, ProcTypeOK
<1>5. FiniteCaches'
  BY <1>2, FiniteFacts, Zenon DEF FiniteCaches, TypeOK, PMTypeOK
<1>6. Head(freeUsers) \in Users /\ Tail(freeUsers) \in Seq(Users)
  BY <1>2 DEF TypeOK, PMTypeOK
<1> QED BY <1>1, <1>2, <1>3, <1>4, <1>5, <1>6 DEF TypeOK, PMTypeOK

\* Removing a process from the cache.
LEMMA RemoveType ==
    ASSUME TypeOK, FiniteCaches, NEW g \in Groups, NEW n \in Names,
           removeProcessFromCache(g, n)
    PROVE  /\ idleProcesses' \in Seq(Names)
           /\ busyProcesses' \subseteq Names /\ FiniteCaches'
           /\ object' \in [Names -> Procs]
           /\ processGroups' \in [Groups -> SUBSET Names]
           /\ waitingRequestGroups' \in Seq(Groups)
           /\ replies' \in [Groups -> Nat]
<1>1. Without(idleProcesses, n) \in Seq(Names)
      /\ Without(waitingRequestGroups, g) \in Seq(Groups)
  BY WithoutFacts DEF TypeOK, PMTypeOK
<1>2. FiniteCaches'
  BY FiniteFacts, Zenon DEF removeProcessFromCache, FiniteCaches, TypeOK, PMTypeOK
<1>3. /\ idleProcesses' \in Seq(Names) /\ busyProcesses' \subseteq Names
      /\ object' \in [Names -> Procs]
      /\ processGroups' \in [Groups -> SUBSET Names]
  BY <1>1, HelperTypes, Zenon DEF removeProcessFromCache, TypeOK, PMTypeOK
<1>4. /\ waitingRequestGroups' \in Seq(Groups)
      /\ replies' \in [Groups -> Nat]
  <2>1. CASE Emptied(g, n)
    <3>1. replies \in [Groups -> Nat] /\ replies' = [replies EXCEPT ![g] = @ + 1]
          /\ waitingRequestGroups' = Without(waitingRequestGroups, g)
      BY <2>1 DEF removeProcessFromCache, TypeOK, PMTypeOK
    <3> QED BY <1>1, <3>1
  <2>2. CASE ~Emptied(g, n)
    BY <2>2 DEF removeProcessFromCache, TypeOK, PMTypeOK
  <2> QED BY <2>1, <2>2
<1> QED BY <1>2, <1>3, <1>4

\* closeSandbox, also where it panics.
LEMMA CloseType ==
    ASSUME TypeOK, FiniteCaches, NEW g \in Groups, NEW n \in Names,
           closeSandbox(g, n)
    PROVE  /\ idleProcesses' \in Seq(Names)
           /\ busyProcesses' \subseteq Names /\ FiniteCaches'
           /\ object' \in [Names -> Procs]
           /\ processGroups' \in [Groups -> SUBSET Names]
           /\ waitingRequestGroups' \in Seq(Groups)
           /\ replies' \in [Groups -> Nat]
           /\ freeUsers' \in Seq(Users)
           /\ op' \in {op, "panic"}
<1>1. CASE n \in Cached
  <2>1. removeProcessFromCache(g, n) /\ op' = op
        /\ freeUsers' = Append(freeUsers, user[object[n]])
    BY <1>1 DEF closeSandbox
  <2>2. user[object[n]] \in Users
    BY DEF TypeOK, PMTypeOK
  <2> QED BY <2>1, <2>2, RemoveType, SMTT(30) DEF TypeOK, PMTypeOK
<1>2. CASE n \notin Cached
  BY <1>2 DEF closeSandbox, FiniteCaches, TypeOK, PMTypeOK
<1> QED BY <1>1, <1>2

\* Steps that leave the process manager and the calls alone.
LEMMA ManagerUnchanged ==
    ASSUME TypeInv, UNCHANGED <<pmVars, call>>
    PROVE  PMTypeOK' /\ FiniteCaches' /\ HandlerInv'
BY DEF TypeInv, TypeOK, PMTypeOK, FiniteCaches, HandlerInv, CallsReturned, pmVars

\* Steps of the goroutines of one process.
LEMMA ProcessTypeInv ==
    ASSUME TypeInv, NEW p \in Procs, ProcessStep(p)
    PROVE  TypeInv'
<1> USE DEF TypeInv, TypeOK
<1>1. CASE /\ \/ Launch(p) \/ LaunchResumes(p) \/ SandboxEnds(p, FALSE)
              \/ Update(p) \/ ListenerKills(p) \/ BecomeIdle(p)
              \/ BusyTimeout(p) \/ ReadyTimeout(p)
           /\ UNCHANGED <<pmVars, groupVars, faults>>
  <2>1. ProcTypeOK' /\ call' = call
    BY <1>1, ProcessStepType, Zenon
  <2> QED BY <1>1, <2>1, ManagerUnchanged DEF groupVars
<1>2. CASE Register(p)
  <2>1. ProcTypeOK' /\ call' = call
    BY <1>2, ProcessStepType, Zenon DEF Register
  <2> QED BY <1>2, <2>1, ManagerUnchanged, Zenon DEF groupVars, Register
<1>3. CASE handleTxRequest(p)
  <2>2. ProcTypeOK' /\ call' = call
    BY <1>3, ProcessStepType, Zenon DEF handleTxRequest, procVars, ProcTypeOK
  <2>3. txCh' \in [Groups -> Nat]
    BY <1>3 DEF handleTxRequest, Take, ProcTypeOK
  <2> QED BY <1>3, <2>2, <2>3, ManagerUnchanged, Zenon DEF handleTxRequest
<1>4. CASE handleTxResp(p, FALSE)
  <2>1. ProcTypeOK' /\ call' = call
    BY <1>4, ProcessStepType, Zenon DEF handleTxResp
  <2> QED BY <1>4, <2>1, ManagerUnchanged DEF groupVars, handleTxResp
<1>5. CASE ChangeStateToIdle(p)
  <2>1. ProcTypeOK' /\ call' = call
    BY <1>5 DEF ChangeStateToIdle, ProcTypeOK, ListenerStates
  <2>2. CASE UNCHANGED pmVars
    BY <1>5, <2>1, <2>2, ManagerUnchanged DEF ChangeStateToIdle, groupVars
  <2>3. CASE ChangeToIdle(processName[p])
    <3> DEFINE n == processName[p]
               g == requestGroup[object[n]]
    <3>1. n \in Names /\ g \in Groups
      BY DEF ProcTypeOK, PMTypeOK
    <3>2. /\ idleProcesses' = Append(idleProcesses, n)
          /\ busyProcesses' = busyProcesses \ {n}
          /\ \/ waitingRequestGroups' = Without(waitingRequestGroups, g)
             \/ waitingRequestGroups' = waitingRequestGroups
          /\ \/ replies' = [replies EXCEPT ![g] = @ + 1]
             \/ replies' = [replies EXCEPT ![g] = @]
          /\ \/ allocateIdleCh' = allocateIdleCh + 1
             \/ allocateIdleCh' = allocateIdleCh
          /\ UNCHANGED <<object, processGroups, eventCh, allocateNewCh, cleanTimer,
                         freeUsers, user, op, request, allocated, create>>
      BY <2>3, Zenon DEF ChangeToIdle
    <3> HIDE DEF n, g
    <3>3. Without(waitingRequestGroups, g) \in Seq(Groups)
      BY WithoutFacts DEF PMTypeOK
    <3>4. FiniteCaches'
      BY <3>2, FiniteFacts, Zenon DEF FiniteCaches
    <3>5. replies' \in [Groups -> Nat]
      <4>1. replies \in [Groups -> Nat]
        BY DEF PMTypeOK
      <4>2. [replies EXCEPT ![g] = @ + 1] \in [Groups -> Nat]
            /\ [replies EXCEPT ![g] = @] = replies
        BY <3>1, <4>1, CountType
      <4> QED BY <3>2, <4>1, <4>2, Zenon
    <3>6. HandlerInv'
      BY <2>1, <3>2 DEF HandlerInv, CallsReturned
    <3>7. PMTypeOK'
      BY <3>1, <3>2, <3>3, <3>5, SMTT(30) DEF PMTypeOK
    <3> QED BY <1>5, <2>1, <3>4, <3>6, <3>7 DEF ChangeStateToIdle, groupVars
  <2> QED BY <1>5, <2>2, <2>3 DEF ChangeStateToIdle
<1>6. CASE handleIdleTxRequest(p)
  <2>1. ProcTypeOK' /\ call' = call
    BY <1>6 DEF handleIdleTxRequest, ProcTypeOK, ListenerStates
  <2>2. txCh' \in [Groups -> Nat]
    BY <1>6 DEF handleIdleTxRequest, Take, ProcTypeOK
  <2> QED BY <1>6, <2>1, <2>2, ManagerUnchanged DEF handleIdleTxRequest
<1>7. CASE ChangeStateToBusy(p)
  <2>1. ProcTypeOK' /\ call' = call
    BY <1>7, HelperTypes DEF ChangeStateToBusy, ProcTypeOK, ListenerStates, Branch
  <2>2. inflight' \in [Groups -> Nat]
    BY <1>7 DEF ChangeStateToBusy, ProcTypeOK
  <2>3. CASE UNCHANGED pmVars
    BY <1>7, <2>1, <2>2, <2>3, ManagerUnchanged, Zenon DEF ChangeStateToBusy
  <2>4. CASE ChangeToBusy(arg[p])
    <3>1. Without(idleProcesses, arg[p]) \in Seq(Names)
      BY WithoutFacts, Zenon DEF PMTypeOK
    <3>2. FiniteCaches'
      BY <2>4, FiniteFacts, Zenon DEF ChangeToBusy, FiniteCaches
    <3>3. HandlerInv'
      BY <2>1, <2>4, Zenon DEF HandlerInv, CallsReturned, ChangeToBusy
    <3>4. PMTypeOK'
      BY <2>4, <3>1, Zenon DEF PMTypeOK, ProcTypeOK, ChangeToBusy
    <3> QED BY <1>7, <2>1, <2>2, <3>2, <3>3, <3>4, Zenon DEF ChangeStateToBusy
  <2> QED BY <1>7, <2>3, <2>4, Zenon DEF ChangeStateToBusy
<1>8. CASE EndIdleTxRequest(p)
  <2>1. ProcTypeOK' /\ call' = call
    BY <1>8, ProcessStepType, Zenon DEF EndIdleTxRequest
  <2>2. inflight' \in [Groups -> Nat]
    BY <1>8 DEF EndIdleTxRequest, ProcTypeOK
  <2> QED BY <1>8, <2>1, <2>2, ManagerUnchanged DEF EndIdleTxRequest
<1>9. CASE handleProcessExit(p)
  <2>1. ProcTypeOK' /\ call' = call
    BY <1>9, ProcessStepType, Zenon DEF handleProcessExit, ReleaseProcess
  <2>2. CASE Relaunch(p) /\ UNCHANGED <<pmVars, groupVars, faults>>
    BY <2>1, <2>2, ManagerUnchanged DEF groupVars
  <2>3. CASE ReleaseProcess(p)
    <3> DEFINE m == [type |-> "exit", group |-> requestGroup[p], name |-> processName[p]]
    <3>1. txCh' \in [Groups -> Nat] /\ inflight' \in [Groups -> Nat]
      BY <2>3, SMTT(30) DEF ReleaseProcess, ProcTypeOK
    <3>2. m \in Messages
      BY Zenon DEF Messages, ProcTypeOK
    <3>3. PMTypeOK' /\ FiniteCaches'
      <4>1. eventCh' \in Seq(Messages)
        <5>1. eventCh' = eventCh \/ eventCh' = Append(eventCh, m)
          BY <2>3, Zenon DEF ReleaseProcess
        <5>2. eventCh \in Seq(Messages)
          BY Zenon DEF PMTypeOK
        <5> HIDE DEF m
        <5> QED BY <3>2, <5>1, <5>2
      <4>2. UNCHANGED <<cacheVars, waitingRequestGroups, allocateIdleCh, allocateNewCh,
                        cleanTimer, freeUsers, user, replies, op, request, allocated,
                        create>>
        BY <2>3, Zenon DEF ReleaseProcess
      <4> QED BY <4>1, <4>2, Zenon DEF cacheVars, PMTypeOK, FiniteCaches
    <3>4. HandlerInv'
      BY <2>1, <2>3, Zenon DEF ReleaseProcess, HandlerInv, CallsReturned
    <3> QED BY <2>1, <2>3, <3>1, <3>3, <3>4, Zenon DEF ReleaseProcess
  <2> QED BY <1>9, <2>2, <2>3, Zenon DEF handleProcessExit
<1> QED
  BY <1>1, <1>2, <1>3, <1>4, <1>5, <1>6, <1>7, <1>8, <1>9, Zenon DEF ProcessStep

\* A call in progress is a record of its target and of the names it began with.
LEMMA CallFields ==
    ASSUME TypeOK, NEW p \in Procs
    PROVE  /\ call[p].at # "none" <=> call[p] # NoCall
           /\ call[p] # NoCall =>
                 /\ call[p].at \in {"enter", "checked", "killing", "killed"}
                 /\ call[p].to \in Groups \cup {Close}
                 /\ call[p].oldName \in Names /\ call[p].oldGroup \in Groups
                 /\ call[p] = [at |-> call[p].at, to |-> call[p].to,
                               oldName |-> call[p].oldName,
                               oldGroup |-> call[p].oldGroup]
                 /\ [call[p] EXCEPT !.at = "checked"] \in Calls
                 /\ [call[p] EXCEPT !.at = "killing"] \in Calls
                 /\ [call[p] EXCEPT !.at = "killed"] \in Calls
<1>1. call[p] \in Calls
  BY DEF TypeOK, ProcTypeOK
<1>2. CASE call[p] = NoCall
  BY <1>2 DEF NoCall
<1>3. CASE call[p] # NoCall
  <2>1. call[p] \in [at : {"enter", "checked", "killing", "killed"},
                     to : Groups \cup {Close}, oldName : Names, oldGroup : Groups]
    BY <1>1, <1>3, Zenon DEF Calls
  <2>2. /\ call[p].at \in {"enter", "checked", "killing", "killed"}
        /\ call[p].to \in Groups \cup {Close}
        /\ call[p].oldName \in Names /\ call[p].oldGroup \in Groups
        /\ call[p] = [at |-> call[p].at, to |-> call[p].to,
                      oldName |-> call[p].oldName, oldGroup |-> call[p].oldGroup]
    BY <2>1, Zenon
  <2>3. /\ [call[p] EXCEPT !.at = "checked"] \in Calls
        /\ [call[p] EXCEPT !.at = "killing"] \in Calls
        /\ [call[p] EXCEPT !.at = "killed"] \in Calls
    BY <2>1 DEF Calls
  <2> QED BY <1>3, <2>2, <2>3
<1> QED BY <1>2, <1>3

\* While a call is in progress no handler is at rest or creates processes.
LEMMA CallKeepsHandler ==
    ASSUME TypeInv, NEW p \in Procs, call[p] # NoCall,
           op' \in {op, "panic"}, UNCHANGED <<request, create>>
    PROVE  HandlerInv'
<1>1. op \notin {"rest", "get", "allocateNew"}
  BY DEF TypeInv, HandlerInv, CallsReturned
<1> QED BY <1>1 DEF TypeInv, HandlerInv

\* Steps of a call of the process manager.
LEMMA CallTypeInv ==
    ASSUME TypeInv, NEW p \in Procs, CallStep(p)
    PROVE  TypeInv'
<1>0. TypeOK
  BY DEF TypeInv
<1>a. call[p] # NoCall
  BY <1>0, CallFields, Zenon
  DEF CallStep, CallCheck, CallReset, CallKill, MeetSameProcess, ChangeSucceeds,
      CloseSucceeds
<1>b. /\ call[p].to \in Groups \cup {Close}
      /\ call[p].oldName \in Names /\ call[p].oldGroup \in Groups
      /\ [call[p] EXCEPT !.at = "checked"] \in Calls
      /\ [call[p] EXCEPT !.at = "killing"] \in Calls
      /\ [call[p] EXCEPT !.at = "killed"] \in Calls
      /\ NoCall \in Calls
  BY <1>0, <1>a, CallFields, Zenon DEF Calls
<1>c. inflight' \in [Groups -> Nat] /\ txCh' \in [Groups -> Nat]
      /\ processWaiting' \in [Groups -> BOOLEAN] /\ asking' \in [Groups -> BOOLEAN]
      /\ faults' \in Nat
  BY <1>0 DEF CallStep, groupVars, TypeOK
<1>1. CASE CallCheck(p) /\ UNCHANGED <<pmVars, groupVars, faults>>
  <2>1. ProcTypeOK'
    BY <1>0, <1>b, <1>1 DEF CallCheck, TypeOK, ProcTypeOK
  <2>2. HandlerInv'
    BY <1>a, <1>1, CallKeepsHandler DEF pmVars
  <2> QED BY <1>1, <1>c, <2>1, <2>2, Zenon DEF TypeInv, TypeOK, PMTypeOK, FiniteCaches, pmVars
<1>2. CASE /\ CallReset(p, CHOOSE n \in FreshNames : TRUE) /\ FreshNames # {}
           /\ UNCHANGED <<pmVars, groupVars, faults>>
  <2>1. PICK n \in Names : CallReset(p, n)
    BY <1>0, <1>2, HelperTypes
  <2>2. call' \in [Procs -> Calls]
    BY <1>0, <1>b, <2>1, SMTT(30) DEF CallReset, TypeOK, ProcTypeOK
  <2>3. processName' \in [Procs -> Names] /\ requestGroup' \in [Procs -> Groups]
    BY <1>0, <1>b, <2>1 DEF CallReset, TypeOK, ProcTypeOK
  <2>4. ProcTypeOK'
    BY <1>0, <2>1, <2>2, <2>3 DEF CallReset, TypeOK, ProcTypeOK
  <2>5. HandlerInv'
    BY <1>a, <1>2, CallKeepsHandler DEF pmVars
  <2> QED BY <1>2, <1>c, <2>4, <2>5, Zenon DEF TypeInv, TypeOK, PMTypeOK, FiniteCaches, pmVars
<1>3. CASE CallKill(p) /\ UNCHANGED <<pmVars, groupVars, faults>>
  <2>1. ProcTypeOK'
    BY <1>0, <1>b, <1>3
    DEF CallKill, TypeOK, ProcTypeOK, SandboxStates, Signalled
  <2>2. HandlerInv'
    BY <1>a, <1>3, CallKeepsHandler DEF pmVars
  <2> QED BY <1>3, <1>c, <2>1, <2>2 DEF TypeInv, TypeOK, PMTypeOK, FiniteCaches, pmVars
<1>4. CASE MeetSameProcess(p)
  <2>1. ProcTypeOK'
    BY <1>0, <1>b, <1>4 DEF MeetSameProcess, procVarsButCall, TypeOK, ProcTypeOK
  <2>2. HandlerInv'
    BY <1>a, <1>4, CallKeepsHandler, Zenon DEF MeetSameProcess
  <2>3. call[p].to \in Groups
    BY <1>b, <1>4 DEF MeetSameProcess, SameContract
  <2>4. /\ Without(waitingRequestGroups, call[p].to) \in Seq(Groups)
        /\ [replies EXCEPT ![call[p].to] = @ + 2] \in [Groups -> Nat]
    <3>1. waitingRequestGroups \in Seq(Groups) /\ replies \in [Groups -> Nat]
      BY <1>0, Zenon DEF TypeOK, PMTypeOK
    <3>2. Without(waitingRequestGroups, call[p].to) \in Seq(Groups)
      BY <3>1, WithoutFacts, Zenon
    <3>3. [replies EXCEPT ![call[p].to] = @ + 2] \in [Groups -> Nat]
      BY <2>3, <3>1, CountType
    <3> QED BY <3>2, <3>3
  <2>5. /\ waitingRequestGroups' \in Seq(Groups) /\ replies' \in [Groups -> Nat]
        /\ allocated' \in Nat
    <3>1. CASE op = "allocateIdle"
      <4>1. /\ waitingRequestGroups' = Without(waitingRequestGroups, call[p].to)
            /\ replies' = [replies EXCEPT ![call[p].to] = @ + 2]
            /\ allocated' = allocated
        BY <1>4, <3>1, Zenon DEF MeetSameProcess
      <4> QED BY <1>0, <2>4, <4>1, Zenon DEF TypeOK, PMTypeOK
    <3>2. CASE op # "allocateIdle"
      <4>1. /\ allocated \in Nat /\ allocated' = allocated + 1
            /\ waitingRequestGroups' = waitingRequestGroups /\ replies' = replies
        BY <1>0, <1>4, <3>2, Zenon DEF MeetSameProcess, TypeOK, PMTypeOK
      <4>2. allocated' \in Nat
        BY <4>1
      <4> QED BY <1>0, <4>1, <4>2, Zenon DEF TypeOK, PMTypeOK
    <3> QED BY <3>1, <3>2
  <2>6. PMTypeOK' /\ FiniteCaches'
    BY <1>4, <2>5, Zenon
    DEF MeetSameProcess, cacheVars, TypeInv, TypeOK, PMTypeOK, FiniteCaches
  <2> QED BY <1>c, <2>1, <2>2, <2>6 DEF TypeInv, TypeOK
<1>5. CASE ChangeSucceeds(p)
  <2> DEFINE g == call[p].to
             n == call[p].oldName
             o == call[p].oldGroup
             left == IF op = "allocateIdle" THEN Without(waitingRequestGroups, g)
                                            ELSE waitingRequestGroups
  <2>1. ProcTypeOK'
    BY <1>0, <1>b, <1>5, Zenon DEF ChangeSucceeds, CallDone, TypeOK, ProcTypeOK, ProcessStates
  <2>2. HandlerInv'
    BY <1>a, <1>5, CallKeepsHandler, Zenon DEF ChangeSucceeds
  <2>3. g \in Groups /\ n \in Names /\ o \in Groups /\ processName[p] \in Names
    BY <1>0, <1>b, <1>5 DEF ChangeSucceeds, TypeOK, ProcTypeOK
  <2>4. idleProcesses' \in Seq(Names) /\ left \in Seq(Groups)
    BY <1>0, <1>5, WithoutFacts, Zenon DEF ChangeSucceeds, TypeOK, PMTypeOK
  <2>5. waitingRequestGroups' \in Seq(Groups)
    <3>1. \/ waitingRequestGroups' = left \/ waitingRequestGroups' = Without(left, o)
      BY <1>5, Zenon DEF ChangeSucceeds
    <3> HIDE DEF left
    <3> QED BY <2>4, <3>1, WithoutFacts
  <2>6. /\ busyProcesses' \subseteq Names
        /\ object' \in [Names -> Procs]
        /\ processGroups' \in [Groups -> SUBSET Names]
    BY <1>0, <1>5, <2>3, HelperTypes, Zenon DEF ChangeSucceeds, TypeOK, PMTypeOK
  <2>7. FiniteCaches'
    <3>1. /\ busyProcesses' = (busyProcesses \ {n}) \cup {processName[p]}
          /\ processGroups' = [processGroups EXCEPT ![o] = @ \ {n},
                                                    ![g] = @ \cup {processName[p]}]
      BY <1>5, Zenon DEF ChangeSucceeds
    <3>2. \A h \in Groups : \/ processGroups'[h] = processGroups[h]
                            \/ processGroups'[h] = processGroups[h] \ {n}
                            \/ processGroups'[h] = processGroups[h] \cup {processName[p]}
                            \/ processGroups'[h] =
                                  (processGroups[h] \ {n}) \cup {processName[p]}
      BY <1>0, <3>1, Zenon DEF TypeOK, PMTypeOK
    <3>3. ASSUME NEW h \in Groups
          PROVE  IsFiniteSet(processGroups'[h])
      <4>1. /\ IsFiniteSet(processGroups[h])
            /\ IsFiniteSet(processGroups[h] \ {n})
            /\ IsFiniteSet(processGroups[h] \cup {processName[p]})
        BY FiniteFacts, Zenon DEF TypeInv, FiniteCaches
      <4>2. IsFiniteSet((processGroups[h] \ {n}) \cup {processName[p]})
        BY <4>1, FiniteFacts, Zenon
      <4> QED BY <3>2, <4>1, <4>2, Zenon
    <3>4. IsFiniteSet(busyProcesses \ {n})
      BY FiniteFacts, Zenon DEF TypeInv, FiniteCaches
    <3>5. IsFiniteSet(busyProcesses')
      BY <3>1, <3>4, FiniteFacts, Zenon
    <3> QED BY <3>3, <3>5 DEF FiniteCaches
  <2>8. replies' \in [Groups -> Nat]
    <3>1. replies \in [Groups -> Nat]
      BY <1>0 DEF TypeOK, PMTypeOK
    <3>2. replies' = [h \in Groups |->
                       replies[h] + (IF op = "allocateIdle" /\ h = g THEN 2 ELSE 0)
                                  + (IF Emptied(o, n) /\ h = o THEN 1 ELSE 0)]
      BY <1>5, Zenon DEF ChangeSucceeds
    <3> QED BY <3>1, <3>2, SMTT(30)
  <2>9. allocated' \in Nat
    <3>1. allocated' = allocated \/ allocated' = allocated + 1
      BY <1>5, Zenon DEF ChangeSucceeds
    <3>2. allocated \in Nat
      BY <1>0, Zenon DEF TypeOK, PMTypeOK
    <3> QED BY <3>1, <3>2
  <2>10. PMTypeOK'
    BY <1>0, <1>5, <2>4, <2>5, <2>6, <2>8, <2>9, Zenon DEF ChangeSucceeds, TypeOK, PMTypeOK
  <2> QED BY <1>c, <2>1, <2>2, <2>7, <2>10 DEF TypeInv, TypeOK
<1>6. CASE CloseSucceeds(p)
  <2>1. ProcTypeOK'
    BY <1>6, <1>0, <1>b DEF CloseSucceeds, CallDone, TypeOK, ProcTypeOK, ProcessStates
  <2>2. closeSandbox(requestGroup[p], processName[p])
        /\ requestGroup[p] \in Groups /\ processName[p] \in Names
    BY <1>0, <1>6, Zenon DEF CloseSucceeds, TypeOK, ProcTypeOK
  <2>3. /\ idleProcesses' \in Seq(Names)
        /\ busyProcesses' \subseteq Names /\ FiniteCaches'
        /\ object' \in [Names -> Procs]
        /\ processGroups' \in [Groups -> SUBSET Names]
        /\ waitingRequestGroups' \in Seq(Groups)
        /\ replies' \in [Groups -> Nat]
        /\ freeUsers' \in Seq(Users)
        /\ op' \in {op, "panic"}
    BY <2>2, CloseType, Zenon DEF TypeInv
  <2>4. HandlerInv'
    BY <1>a, <1>6, <2>3, CallKeepsHandler, Zenon DEF CloseSucceeds
  <2>5. PMTypeOK'
    <3>1. allocated \in Nat /\ allocated' = allocated + 1
      BY <1>0, <1>6, Zenon DEF CloseSucceeds, TypeOK, PMTypeOK
    <3>2. allocated' \in Nat
      BY <3>1
    <3>3. op' \in Handlers
      BY <1>0, <2>3, Zenon DEF TypeOK, PMTypeOK, Handlers
    <3>4. UNCHANGED <<eventCh, allocateIdleCh, allocateNewCh, cleanTimer, user,
                      request, create>>
      BY <1>6, Zenon DEF CloseSucceeds
    <3> QED BY <1>0, <2>3, <3>2, <3>3, <3>4, Zenon DEF TypeOK, PMTypeOK
  <2> QED BY <1>c, <2>1, <2>3, <2>4, <2>5 DEF TypeInv, TypeOK
<1> QED BY <1>1, <1>2, <1>3, <1>4, <1>5, <1>6 DEF CallStep

=============================================================================
