------------------------ MODULE ProcessPoolProcesses ------------------------
(***************************************************************************)
(* The inductive invariant of ProcessPool, and its preservation by the     *)
(* steps of processes and request groups and by faults.                    *)
(***************************************************************************)
EXTENDS ProcessPoolTypes

\* The two halves of the invariant: which names calls, processes and messages
\* hold, and what the caches contain.
NamesInv == CallInv /\ NameInv /\ ExitMsgInv
CacheInv == CacheConsistent /\ WithinLimit /\ UsersExclusive /\ UserCount
AllInv == TypeInv /\ NamesInv /\ CacheInv

-----------------------------------------------------------------------------
(* Steps of one process that change no name, no call and no cache.         *)

Active(p) == listener[p] # "off" \/ sandbox[p] # "off"

\* What such a step may do: no process comes into use, one that is dead stays
\* dead, and one that is being killed stays idle.
QuietStep ==
    /\ UNCHANGED <<processName, requestGroup, call>>
    /\ \A q \in Procs : Active(q)' => Active(q)
    /\ \A q \in Procs : Dead(q) => Dead(q)'
    /\ \A q \in Procs : call[q].at \in {"killing", "killed"} /\ processState[q] = "idle"
                          => processState'[q] = "idle"

\* It is enough to look at the process that takes the step.
LEMMA QuietLocal ==
    ASSUME ProcTypeOK, NEW p \in Procs,
           UNCHANGED <<processName, requestGroup, call>>,
           \A q \in Procs \ {p} : /\ listener'[q] = listener[q]
                                  /\ sandbox'[q] = sandbox[q]
                                  /\ cmdReadyCh'[q] = cmdReadyCh[q]
                                  /\ processState'[q] = processState[q],
           Active(p)' => Active(p),
           Dead(p) => Dead(p)',
           call[p].at \in {"killing", "killed"} /\ processState[p] = "idle"
             => processState'[p] = "idle"
    PROVE  QuietStep
<1>1. \A q \in Procs \ {p} : (Active(q)' <=> Active(q)) /\ (Dead(q)' <=> Dead(q))
  BY DEF Active, Dead
<1> QED BY <1>1, Zenon DEF QuietStep

\* The steps of the goroutines and the sandbox of one process are such steps.
LEMMA ProcessStepQuiet ==
    ASSUME ProcTypeOK, NEW p \in Procs,
           \/ Launch(p) \/ LaunchResumes(p) \/ SandboxEnds(p, TRUE)
           \/ SandboxEnds(p, FALSE) \/ Update(p) \/ ListenerKills(p)
           \/ BecomeIdle(p) \/ BusyTimeout(p) \/ ReadyTimeout(p) \/ SetStream(p)
           \/ StartTx(p) \/ HandleTxResp(p, TRUE) \/ HandleTxResp(p, FALSE)
           \/ BecomeReady(p) \/ Relaunch(p) \/ Release(p)
           \/ \E e \in ExitErrors : LaunchFails(p, e)
    PROVE  QuietStep
<1> USE QuietLocal DEF ProcTypeOK, Active, Dead
<1>1. CASE Launch(p)
  BY <1>1, Zenon DEF Launch
<1>2. CASE LaunchResumes(p)
  BY <1>2, Zenon DEF LaunchResumes
<1>3. CASE SandboxEnds(p, TRUE) \/ SandboxEnds(p, FALSE)
  BY <1>3, Zenon DEF SandboxEnds
<1>4. CASE Update(p)
  BY <1>4, Zenon DEF Update, Branch
<1>5. CASE ListenerKills(p)
  BY <1>5, Zenon DEF ListenerKills, Branch
<1>6. CASE BecomeIdle(p)
  BY <1>6, Zenon DEF BecomeIdle
<1>7. CASE BusyTimeout(p)
  BY <1>7, Zenon DEF BusyTimeout
<1>8. CASE ReadyTimeout(p)
  BY <1>8, Zenon DEF ReadyTimeout
<1>9. CASE SetStream(p)
  BY <1>9, Zenon DEF SetStream, Unlocked
<1>10. CASE StartTx(p)
  BY <1>10, Zenon DEF StartTx
<1>11. CASE HandleTxResp(p, TRUE) \/ HandleTxResp(p, FALSE)
  BY <1>11, Zenon DEF HandleTxResp
<1>12. CASE BecomeReady(p)
  BY <1>12, Zenon DEF BecomeReady, Unlocked
<1>13. CASE Relaunch(p)
  BY <1>13, Zenon DEF Relaunch, ExitReceived
<1>14. CASE Release(p)
  BY <1>14, Zenon DEF Release, ExitReceived
<1>15. CASE \E e \in ExitErrors : LaunchFails(p, e)
  BY <1>15, ZenonT(30) DEF LaunchFails
<1> QED
  BY <1>1, <1>2, <1>3, <1>4, <1>5, <1>6, <1>7, <1>8, <1>9, <1>10, <1>11, <1>12,
     <1>13, <1>14, <1>15, Zenon

\* Messages that a step may add without harm: requests, and exits of a process
\* under the name and the group it has.
EventsKnown ==
    \A m \in Elements(eventCh') : m.type = "exit" =>
       \/ m \in Elements(eventCh)
       \/ \E q \in Procs : /\ InUse(q) /\ m.name = processName[q]
                           /\ m.group = requestGroup[q]

\* A quiet step keeps what is known of names, also when a process changes between
\* idle and busy while no call is in progress.
LEMMA QuietNames ==
    ASSUME AllInv, QuietStep, EventsKnown,
           UNCHANGED <<object, processGroups>>, Cached' = Cached,
           IdleNames' = IdleNames \/ CallsReturned
    PROVE  NamesInv'
<1>0. CallInv /\ NameInv /\ ExitMsgInv
  BY DEF AllInv, NamesInv
<1>1. \A q \in Procs : InUse(q)' => InUse(q)
  BY DEF QuietStep, InUse, Active
<1>2. \A q \in Procs : Resetting(q)' <=> Resetting(q)
  BY DEF QuietStep, Resetting
<1>3. IdleNames' = IdleNames => \A q \in Procs : Matches(q)' <=> Matches(q)
  BY DEF QuietStep, Matches
<1>4. CallInv'
  <2>1. CASE CallsReturned
    BY <2>1 DEF QuietStep, CallsReturned, CallInv
  <2>2. CASE IdleNames' = IdleNames
    <3> SUFFICES ASSUME NEW q \in Procs, call[q] # NoCall
                 PROVE  CallOK(q)'
      BY DEF CallInv, QuietStep
    <3> QED BY <1>0, <1>2, <1>3, <2>2 DEF CallInv, CallOK, QuietStep
  <2> QED BY <2>1, <2>2
<1>5. NameInv'
  <2>1. \A n \in Cached : \/ processName[object[n]] = n
                          \/ Dead(object[n])'
                          \/ Resetting(object[n])'
    <3>1. \A n \in Cached : object[n] \in Procs
      BY HelperTypes DEF AllInv, TypeInv, TypeOK, PMTypeOK
    <3> QED BY <1>0, <1>2, <3>1, Zenon DEF NameInv, QuietStep
  <2> QED BY <1>0, <1>1, <2>1 DEF NameInv, QuietStep
<1>6. ExitMsgInv'
  <2> SUFFICES ASSUME NEW m \in Elements(eventCh'), m.type = "exit"
               PROVE  /\ m.name \in Cached => m.name \in processGroups[m.group]
                      /\ \A q \in Procs : InUse(q) /\ processName[q] = m.name
                                            => requestGroup[q] = m.group
    BY <1>1, Zenon DEF ExitMsgInv, QuietStep
  <2>1. CASE m \in Elements(eventCh)
    BY <1>0, <2>1 DEF ExitMsgInv
  <2>2. CASE \E q \in Procs : /\ InUse(q) /\ m.name = processName[q]
                              /\ m.group = requestGroup[q]
    BY <1>0, <2>2 DEF NameInv
  <2> QED BY <2>1, <2>2 DEF EventsKnown
<1> QED BY <1>4, <1>5, <1>6 DEF NamesInv

\* A step that leaves the caches and the users alone keeps what they contain.
LEMMA QuietCache ==
    ASSUME AllInv, UNCHANGED <<cacheVars, freeUsers, user>>,
           create' = create \/ WithinLimit'
    PROVE  CacheInv'
<1>1. CacheConsistent' /\ UsersExclusive' /\ UserCount'
  BY DEF AllInv, CacheInv, cacheVars, CacheConsistent, UsersExclusive, UserCount,
         IdleNames, Cached
<1>2. WithinLimit'
  BY DEF AllInv, CacheInv, cacheVars, WithinLimit
<1> QED BY <1>1, <1>2 DEF CacheInv

\* A quiet step that leaves the caches of the process manager alone.
LEMMA QuietManager ==
    ASSUME AllInv, QuietStep, EventsKnown, UNCHANGED <<cacheVars, freeUsers, user>>,
           create' = create \/ WithinLimit'
    PROVE  NamesInv' /\ CacheInv'
<1>1. /\ Cached' = Cached /\ IdleNames' = IdleNames
      /\ UNCHANGED <<object, processGroups>>
  BY DEF cacheVars, Cached, IdleNames
<1> QED BY <1>1, QuietNames, QuietCache

\* A quiet step that leaves the process manager alone.
LEMMA QuietPreserves ==
    ASSUME AllInv, QuietStep, UNCHANGED pmVars
    PROVE  NamesInv' /\ CacheInv'
<1>1. UNCHANGED <<cacheVars, freeUsers, user, create, eventCh>>
  BY DEF pmVars, cacheVars
<1>2. EventsKnown
  BY <1>1 DEF EventsKnown
<1> QED BY <1>1, <1>2, QuietManager

-----------------------------------------------------------------------------
(* ChangeProcessState moves a name between idle and busy.                  *)

\* ChangeToIdle: from busy to idle.
LEMMA ToIdleCache ==
    ASSUME AllInv, NEW n \in busyProcesses, ChangeToIdle(n)
    PROVE  CacheInv' /\ Cached' = Cached
<1>0. /\ idleProcesses \in Seq(Names) /\ n \in Names /\ IsFiniteSet(busyProcesses)
      /\ CacheConsistent /\ WithinLimit /\ UsersExclusive /\ UserCount
  BY DEF AllInv, TypeInv, TypeOK, PMTypeOK, FiniteCaches, CacheInv
<1>1. /\ idleProcesses' = Append(idleProcesses, n)
      /\ busyProcesses' = busyProcesses \ {n}
      /\ UNCHANGED <<object, processGroups, freeUsers, user, create>>
  BY Zenon DEF ChangeToIdle
<1>2. n \notin Elements(idleProcesses) /\ IsDistinct(idleProcesses)
  BY <1>0 DEF CacheConsistent, IdleNames
<1>3. /\ IsDistinct(idleProcesses') /\ IdleNames' = IdleNames \cup {n}
      /\ Len(idleProcesses') = Len(idleProcesses) + 1 /\ Len(idleProcesses) \in Nat
  BY <1>0, <1>1, <1>2, AppendTailFacts DEF IdleNames
<1>4. Cached' = Cached
  BY <1>1, <1>3 DEF Cached
<1>5. Cardinality(busyProcesses') = Cardinality(busyProcesses) - 1
      /\ Cardinality(busyProcesses) \in Nat
  BY <1>0, <1>1, FS_RemoveElement, FS_CardinalityType
<1>6. CacheConsistent'
  BY <1>0, <1>1, <1>3, <1>4, Zenon DEF CacheConsistent
<1>7. UsersExclusive'
  BY <1>0, <1>1, <1>4, Zenon DEF UsersExclusive
<1>8. Len(create) \in Nat /\ Len(freeUsers) \in Nat
  BY DEF AllInv, TypeInv, TypeOK, PMTypeOK
<1>9. WithinLimit' /\ UserCount'
  BY <1>0, <1>1, <1>3, <1>5, <1>8 DEF WithinLimit, UserCount
<1> QED BY <1>4, <1>6, <1>7, <1>9 DEF CacheInv

\* ChangeToBusy: from idle to busy.
LEMMA ToBusyCache ==
    ASSUME AllInv, NEW n \in IdleNames, ChangeToBusy(n)
    PROVE  CacheInv' /\ Cached' = Cached
<1>0. /\ idleProcesses \in Seq(Names) /\ n \in Elements(idleProcesses)
      /\ IsFiniteSet(busyProcesses)
      /\ CacheConsistent /\ WithinLimit /\ UsersExclusive /\ UserCount
  BY DEF AllInv, TypeInv, TypeOK, PMTypeOK, FiniteCaches, CacheInv, IdleNames
<1>1. /\ idleProcesses' = Without(idleProcesses, n)
      /\ busyProcesses' = busyProcesses \cup {n}
      /\ UNCHANGED <<object, processGroups, freeUsers, user, create>>
  BY DEF ChangeToBusy
<1>2. n \notin busyProcesses /\ IsDistinct(idleProcesses)
  BY <1>0 DEF CacheConsistent, IdleNames
<1>3. /\ IsDistinct(idleProcesses') /\ IdleNames' = IdleNames \ {n}
      /\ Len(idleProcesses') = Len(idleProcesses) - 1 /\ Len(idleProcesses) \in Nat
  BY <1>0, <1>1, <1>2, WithoutFacts DEF IdleNames
<1>4. Cached' = Cached
  BY <1>0, <1>1, <1>3 DEF Cached, IdleNames
<1>5. Cardinality(busyProcesses') = Cardinality(busyProcesses) + 1
      /\ Cardinality(busyProcesses) \in Nat
  BY <1>0, <1>1, <1>2, FS_AddElement, FS_CardinalityType
<1>6. CacheConsistent'
  BY <1>0, <1>1, <1>3, <1>4 DEF CacheConsistent
<1>7. UsersExclusive'
  BY <1>0, <1>1, <1>4 DEF UsersExclusive
<1>8. Len(create) \in Nat /\ Len(freeUsers) \in Nat
  BY DEF AllInv, TypeInv, TypeOK, PMTypeOK
<1>9. WithinLimit' /\ UserCount'
  BY <1>0, <1>1, <1>3, <1>5, <1>8, SMTT(30) DEF WithinLimit, UserCount
<1> QED BY <1>4, <1>6, <1>7, <1>9 DEF CacheInv

-----------------------------------------------------------------------------
(* Steps of the processes, the environment and the groups.                 *)

\* The goroutines of one process.
LEMMA ProcessInv ==
    ASSUME AllInv, NEW p \in Procs, ProcessStep(p)
    PROVE  NamesInv' /\ CacheInv'
<1>0. ProcTypeOK /\ PMTypeOK /\ HandlerInv
  BY DEF AllInv, TypeInv, TypeOK
<1>1. CASE /\ \/ Launch(p) \/ LaunchResumes(p) \/ SandboxEnds(p, FALSE)
              \/ Update(p) \/ ListenerKills(p) \/ BecomeIdle(p)
              \/ BusyTimeout(p) \/ ReadyTimeout(p)
           /\ UNCHANGED <<pmVars, groupVars, faults>>
  BY <1>0, <1>1, ProcessStepQuiet, QuietPreserves, Zenon
<1>2. CASE Register(p)
  BY <1>0, <1>2, ProcessStepQuiet, QuietPreserves, Zenon DEF Register
<1>3. CASE handleTxRequest(p)
  <2>1. CASE UNCHANGED procVars
    <3>1. QuietStep
      BY <2>1 DEF procVars, QuietStep, Active, Dead
    <3> QED BY <1>3, <3>1, QuietPreserves DEF handleTxRequest
  <2>2. CASE StartTx(p)
    BY <1>0, <1>3, <2>2, ProcessStepQuiet, QuietPreserves, Zenon DEF handleTxRequest
  <2> QED BY <1>3, <2>1, <2>2, Zenon DEF handleTxRequest
<1>4. CASE handleTxResp(p, FALSE)
  BY <1>0, <1>4, ProcessStepQuiet, QuietPreserves, Zenon DEF handleTxResp
<1>5. CASE ChangeStateToIdle(p)
  <2>1. QuietStep
    BY <1>0, <1>5, QuietLocal, Zenon DEF ChangeStateToIdle, ProcTypeOK, Active, Dead
  <2>2. CallsReturned
    BY <1>0, <1>5 DEF ChangeStateToIdle, Ready, AtRest, HandlerInv
  <2>3. CASE UNCHANGED pmVars
    BY <2>1, <2>3, QuietPreserves
  <2>4. CASE processName[p] \in busyProcesses /\ ChangeToIdle(processName[p])
    <3>1. CacheInv' /\ Cached' = Cached
      BY <2>4, ToIdleCache
    <3>2. UNCHANGED <<object, processGroups>> /\ EventsKnown
      BY <2>4, Zenon DEF ChangeToIdle, EventsKnown
    <3> QED BY <2>1, <2>2, <3>1, <3>2, QuietNames
  <2> QED BY <1>5, <2>3, <2>4 DEF ChangeStateToIdle
<1>6. CASE handleIdleTxRequest(p)
  <2>1. QuietStep
    BY <1>0, <1>6, QuietLocal, Zenon DEF handleIdleTxRequest, ProcTypeOK, Active, Dead
  <2> QED BY <1>6, <2>1, QuietPreserves, Zenon DEF handleIdleTxRequest
<1>7. CASE ChangeStateToBusy(p)
  <2>1. QuietStep
    BY <1>0, <1>7, QuietLocal DEF ChangeStateToBusy, ProcTypeOK, Active, Dead, Branch
  <2>2. CallsReturned
    BY <1>0, <1>7, Zenon DEF ChangeStateToBusy, AtRest, HandlerInv
  <2>3. CASE UNCHANGED pmVars
    BY <2>1, <2>3, QuietPreserves
  <2>4. CASE arg[p] \in IdleNames /\ ChangeToBusy(arg[p])
    <3>1. CacheInv' /\ Cached' = Cached
      BY <2>4, ToBusyCache
    <3>2. UNCHANGED <<object, processGroups>> /\ EventsKnown
      BY <2>4, Zenon DEF ChangeToBusy, EventsKnown
    <3> QED BY <2>1, <2>2, <3>1, <3>2, QuietNames
  <2> QED BY <1>7, <2>3, <2>4, Zenon DEF ChangeStateToBusy
<1>8. CASE EndIdleTxRequest(p)
  BY <1>0, <1>8, ProcessStepQuiet, QuietPreserves, Zenon DEF EndIdleTxRequest
<1>9. CASE handleProcessExit(p)
  <2>1. CASE Relaunch(p) /\ UNCHANGED <<pmVars, groupVars, faults>>
    BY <1>0, <2>1, ProcessStepQuiet, QuietPreserves, Zenon
  <2>2. CASE ReleaseProcess(p)
    <3> DEFINE m == [type |-> "exit", group |-> requestGroup[p],
                     name |-> processName[p]]
    <3>1. QuietStep
      BY <1>0, <2>2, ProcessStepQuiet, Zenon DEF ReleaseProcess
    <3>2. UNCHANGED <<cacheVars, freeUsers, user, create>>
      BY <2>2, SMTT(30) DEF ReleaseProcess
    <3>3. EventsKnown
      <4>1. InUse(p)
        BY <2>2, Zenon DEF ReleaseProcess, Release, ExitReceived, InUse
      <4>2. eventCh' = eventCh \/ eventCh' = Append(eventCh, m)
        BY <2>2, Zenon DEF ReleaseProcess
      <4>3. m.name = processName[p] /\ m.group = requestGroup[p]
        OBVIOUS
      <4> HIDE DEF m
      <4>4. Elements(Append(eventCh, m)) \subseteq Elements(eventCh) \cup {m}
        BY <1>0 DEF PMTypeOK, Elements
      <4> QED BY <4>1, <4>2, <4>3, <4>4, Zenon DEF EventsKnown
    <3> QED BY <3>1, <3>2, <3>3, QuietManager
  <2> QED BY <1>9, <2>1, <2>2, Zenon DEF handleProcessExit
<1> QED
  BY <1>1, <1>2, <1>3, <1>4, <1>5, <1>6, <1>7, <1>8, <1>9, Zenon DEF ProcessStep

\* Faults of the environment.
LEMMA FaultInv ==
    ASSUME AllInv, NEW p \in Procs, FaultStep(p)
    PROVE  NamesInv' /\ CacheInv'
<1>0. ProcTypeOK
  BY DEF AllInv, TypeInv, TypeOK
<1>1. UNCHANGED pmVars
  BY Zenon DEF FaultStep, LaunchFault, Crash, handleTxResp
<1>2. \/ \E e \in ExitErrors : LaunchFails(p, e)
      \/ SandboxEnds(p, TRUE) \/ HandleTxResp(p, TRUE)
  BY PoolAssumption, Zenon DEF FaultStep, LaunchFault, Crash, handleTxResp
<1> QED BY <1>0, <1>1, <1>2, ProcessStepQuiet, QuietPreserves, Zenon

\* When the processes do nothing.
LEMMA StillStep ==
    ASSUME UNCHANGED procVars
    PROVE  QuietStep
BY SMTT(30) DEF procVars, QuietStep, Active, Dead

\* The request groups.
LEMMA GroupInv ==
    ASSUME AllInv, NEW g \in Groups, GroupStep(g)
    PROVE  NamesInv' /\ CacheInv'
<1>0. eventCh \in Seq(Messages)
  BY DEF AllInv, TypeInv, TypeOK, PMTypeOK
<1>1. QuietStep
  BY StillStep, Zenon DEF GroupStep, handleTxReq, handleProcessReadyResp, getProcesses
<1>2. UNCHANGED <<cacheVars, freeUsers, user, create>>
  BY Zenon DEF GroupStep, handleTxReq, handleProcessReadyResp, getProcesses, pmVars, cacheVars
<1>3. CASE eventCh' = eventCh
  BY <1>1, <1>2, <1>3, QuietManager, Zenon DEF EventsKnown
<1>4. CASE getProcesses(g) /\ eventCh' # eventCh
  <2>1. PICK m : m.type = "get" /\ eventCh' = Append(eventCh, m)
    BY <1>4, Zenon DEF getProcesses
  <2>2. Elements(Append(eventCh, m)) \subseteq Elements(eventCh) \cup {m}
    BY <1>0 DEF Elements
  <2>3. EventsKnown
    BY <2>1, <2>2 DEF EventsKnown
  <2> QED BY <1>1, <1>2, <2>3, QuietManager
<1> QED
  BY <1>3, <1>4 DEF GroupStep, handleTxReq, handleProcessReadyResp, pmVars

=============================================================================
