------------------------- MODULE ProcessPoolManager -------------------------
(***************************************************************************)
(* Preservation of the invariant by the steps of the process manager: it   *)
(* creates processes, forgets them and handles its requests.               *)
(***************************************************************************)
EXTENDS ProcessPoolProcesses

-----------------------------------------------------------------------------
(* The process manager creates a process.                                  *)

\* The names afterwards: p was garbage and n is fresh.
LEMMA CreateNames ==
    ASSUME AllInv, CallsReturned, NEW g \in Groups, createNewProcess(g),
           UNCHANGED eventCh
    PROVE  NamesInv'
<1> DEFINE p == CHOOSE p \in FreeProcs : TRUE
           n == CHOOSE n \in FreshNames : TRUE
<1>0. ProcTypeOK /\ PMTypeOK /\ NameInv /\ ExitMsgInv
  BY DEF AllInv, TypeInv, TypeOK, NamesInv
<1>1. p \in FreeProcs /\ n \in FreshNames
  BY DEF createNewProcess
<1>2. /\ NewProcess(p, g, n)
      /\ busyProcesses' = busyProcesses \cup {n}
      /\ object' = [object EXCEPT ![n] = p]
      /\ processGroups' = [processGroups EXCEPT ![g] = @ \cup {n}]
      /\ idleProcesses' = idleProcesses
  BY DEF createNewProcess
<1> HIDE DEF p, n
<1>3. /\ p \in Procs /\ ~InUse(p) /\ n \in Names /\ n \notin Cached
      /\ \A q \in Procs : InUse(q) => processName[q] # n
      /\ \A m \in Elements(eventCh) : m.type = "exit" => m.name # n
  BY <1>1 DEF FreeProcs, FreshNames
<1>4. /\ Cached' = Cached \cup {n}
      /\ object'[n] = p /\ \A m \in Names \ {n} : object'[m] = object[m]
      /\ \A m \in Cached : object[m] # p /\ m # n /\ m \in Names
  <2>1. Cached \subseteq Names
    BY HelperTypes DEF AllInv, TypeInv
  <2> QED BY <1>0, <1>2, <1>3, <2>1, SMTT(30) DEF Cached, IdleNames, PMTypeOK, InUse
<1>5. /\ processName'[p] = n /\ requestGroup'[p] = g
      /\ \A q \in Procs \ {p} : /\ processName'[q] = processName[q]
                                /\ requestGroup'[q] = requestGroup[q]
                                /\ listener'[q] = listener[q]
                                /\ sandbox'[q] = sandbox[q]
                                /\ cmdReadyCh'[q] = cmdReadyCh[q]
                                /\ processState'[q] = processState[q]
      /\ \A q \in Procs : call'[q] = NoCall
  BY <1>0, <1>2, <1>3, Zenon DEF NewProcess, ProcTypeOK, CallsReturned
<1>6. \A q \in Procs \ {p} : InUse(q)' <=> InUse(q)
  BY <1>4, <1>5, ZenonT(30) DEF InUse
<1>7. CallInv'
  BY <1>5 DEF CallInv
<1>8. \A q \in Procs : ~Resetting(q) /\ ~Resetting(q)'
  BY <1>5, SMTT(30) DEF Resetting, CallsReturned, NoCall
<1>9. n \in processGroups'[g] /\ \A h \in Groups : processGroups[h] \subseteq processGroups'[h]
  BY <1>0, <1>2 DEF PMTypeOK
<1>10. NameInv'
  <2>1. \A q, r \in Procs : InUse(q)' /\ InUse(r)' /\ processName'[q] = processName'[r]
                              => q = r
    BY <1>0, <1>3, <1>5, <1>6, SMTT(30) DEF NameInv
  <2>2. \A q \in Procs : InUse(q)' /\ processName'[q] \in Cached' =>
           /\ object'[processName'[q]] = q
           /\ processName'[q] \in processGroups'[requestGroup'[q]]
    <3> SUFFICES ASSUME NEW q \in Procs, InUse(q)', processName'[q] \in Cached'
                 PROVE  /\ object'[processName'[q]] = q
                        /\ processName'[q] \in processGroups'[requestGroup'[q]]
      OBVIOUS
    <3>1. CASE q = p
      BY <1>4, <1>5, <1>9, <3>1, SMTT(30)
    <3>2. CASE q # p
      <4>1. InUse(q) /\ processName'[q] = processName[q] /\ processName[q] # n
            /\ requestGroup'[q] = requestGroup[q] /\ requestGroup[q] \in Groups
        BY <1>0, <1>3, <1>5, <1>6, <3>2, Zenon DEF ProcTypeOK
      <4>2. processName[q] \in Cached
        BY <1>4, <4>1, Zenon
      <4> QED BY <1>0, <1>4, <1>9, <4>1, <4>2, SMTT(30) DEF NameInv
    <3> QED BY <3>1, <3>2, SMTT(30)
  <2>3. \A m \in Cached' : \/ processName'[object'[m]] = m
                           \/ Dead(object[m])'
                           \/ Resetting(object[m])'
    <3> SUFFICES ASSUME NEW m \in Cached'
                 PROVE  processName'[object'[m]] = m \/ Dead(object[m])'
      BY Zenon
    <3>1. CASE m = n
      BY <1>4, <1>5, <3>1, SMTT(30)
    <3>2. CASE m # n
      <4>1. m \in Cached /\ object'[m] = object[m] /\ object[m] \in Procs \ {p}
        BY <1>0, <1>4, <3>2, Zenon DEF PMTypeOK
      <4>2. processName[object[m]] = m \/ Dead(object[m])
        BY <1>0, <1>8, <4>1, SMTT(30) DEF NameInv
      <4> QED BY <1>5, <4>1, <4>2, SMTT(30) DEF Dead
    <3> QED BY <3>1, <3>2, SMTT(30)
  <2> QED BY <2>1, <2>2, <2>3, Zenon DEF NameInv
<1>11. ExitMsgInv'
  <2> SUFFICES ASSUME NEW m \in Elements(eventCh), m.type = "exit"
               PROVE  /\ m.name \in Cached' => m.name \in processGroups'[m.group]
                      /\ \A q \in Procs : InUse(q)' /\ processName'[q] = m.name
                                            => requestGroup'[q] = m.group
    BY Zenon DEF ExitMsgInv
  <2>1. m.group \in Groups
    BY HelperTypes DEF AllInv, TypeInv, Messages
  <2> QED BY <1>0, <1>3, <1>4, <1>5, <1>6, <1>9, <2>1, SMTT(30) DEF ExitMsgInv
<1> QED BY <1>7, <1>10, <1>11, Zenon DEF NamesInv

\* The caches afterwards.
LEMMA CreateCache ==
    ASSUME AllInv, create # << >>, createNewProcess(Head(create)),
           create' = Tail(create)
    PROVE  CacheInv'
<1> DEFINE p == CHOOSE p \in FreeProcs : TRUE
           n == CHOOSE n \in FreshNames : TRUE
           g == Head(create)
           u == Head(freeUsers)
<1>0. /\ ProcTypeOK /\ PMTypeOK /\ IsFiniteSet(busyProcesses)
      /\ CacheConsistent /\ WithinLimit /\ UsersExclusive /\ UserCount
  BY DEF AllInv, TypeInv, TypeOK, FiniteCaches, CacheInv
<1>1. p \in FreeProcs /\ n \in FreshNames
  BY DEF createNewProcess
<1>2. /\ user' = [user EXCEPT ![p] = u]
      /\ freeUsers' = Tail(freeUsers) /\ freeUsers # << >>
      /\ busyProcesses' = busyProcesses \cup {n}
      /\ object' = [object EXCEPT ![n] = p]
      /\ processGroups' = [processGroups EXCEPT ![g] = @ \cup {n}]
      /\ idleProcesses' = idleProcesses
  BY DEF createNewProcess
<1> HIDE DEF p, n, u
<1>3. g \in Groups /\ Len(create') = Len(create) - 1 /\ Len(create) \in Nat
  BY <1>0 DEF PMTypeOK
<1> HIDE DEF g
<1>4. /\ p \in Procs /\ ~InUse(p) /\ n \in Names /\ n \notin Cached
  BY <1>1, SMTT(30) DEF FreeProcs, FreshNames
<1>5. /\ Cached' = Cached \cup {n} /\ IdleNames' = IdleNames
      /\ n \notin IdleNames /\ n \notin busyProcesses
      /\ object'[n] = p /\ \A m \in Cached : object'[m] = object[m]
      /\ \A m \in Cached : object[m] # p /\ m # n /\ object[m] \in Procs
  <2>1. Cached \subseteq Names
    BY HelperTypes DEF AllInv, TypeInv
  <2> QED BY <1>0, <1>2, <1>4, <2>1, SMTT(30) DEF Cached, IdleNames, PMTypeOK, InUse
<1>6. CacheConsistent'
  <2>1. IsDistinct(idleProcesses') /\ IdleNames' \cap busyProcesses' = {}
    BY <1>0, <1>2, <1>5 DEF CacheConsistent
  <2>2. /\ n \in processGroups'[g]
        /\ \A h \in Groups : processGroups'[h] \ {n} = processGroups[h]
        /\ \A h \in Groups \ {g} : n \notin processGroups'[h]
    BY <1>0, <1>2, <1>3, <1>4, SMTT(30) DEF CacheConsistent, PMTypeOK
  <2>3. \A h \in Groups : processGroups'[h] \subseteq Cached'
    BY <1>0, <1>5, <2>2, SMTT(30) DEF CacheConsistent
  <2>4. \A m \in Cached' : \E h \in Groups : m \in processGroups'[h]
    BY <1>0, <1>3, <1>5, <2>2, SMTT(30) DEF CacheConsistent
  <2>5. \A h, k \in Groups : h # k => processGroups'[h] \cap processGroups'[k] = {}
    BY <1>0, <2>2, SMTT(30) DEF CacheConsistent
  <2>6. \A m, k \in Cached' : object'[m] = object'[k] => m = k
    BY <1>0, <1>5, SMTT(30) DEF CacheConsistent
  <2> QED BY <2>1, <2>3, <2>4, <2>5, <2>6, Zenon DEF CacheConsistent
<1>7. /\ IsDistinct(freeUsers') /\ u \in Elements(freeUsers)
      /\ Elements(freeUsers') = Elements(freeUsers) \ {u}
  BY <1>0, <1>2, AppendTailFacts, SMTT(30) DEF PMTypeOK, UsersExclusive, u
<1>8. user'[p] = u /\ \A q \in Procs \ {p} : user'[q] = user[q]
  BY <1>0, <1>2, <1>4 DEF PMTypeOK
<1>9. UsersExclusive'
  BY <1>0, <1>5, <1>7, <1>8, SMTT(30) DEF UsersExclusive
<1>10. /\ Cardinality(busyProcesses') = Cardinality(busyProcesses) + 1
       /\ Cardinality(busyProcesses) \in Nat
  BY <1>0, <1>2, <1>5, FS_AddElement, FS_CardinalityType
<1>11. /\ Len(freeUsers') = Len(freeUsers) - 1 /\ Len(freeUsers) \in Nat
       /\ Len(idleProcesses) \in Nat
  BY <1>0, <1>2 DEF PMTypeOK
<1>12. WithinLimit'
  <2>1. Len(idleProcesses') = Len(idleProcesses)
    BY <1>2
  <2>2. Len(idleProcesses) + Cardinality(busyProcesses) + Len(create) <= MaxProcessNum
    BY <1>0 DEF WithinLimit
  <2>3. MaxProcessNum \in Nat
    BY ConstantsAssumption
  <2> QED BY <1>3, <1>10, <1>11, <2>1, <2>2, <2>3 DEF WithinLimit
<1>13. UserCount'
  <2>1. Len(idleProcesses') = Len(idleProcesses)
    BY <1>2
  <2>2. Len(freeUsers) + Len(idleProcesses) + Cardinality(busyProcesses)
          = Len(UserQueue)
    BY <1>0 DEF UserCount
  <2> QED BY <1>10, <1>11, <2>1, <2>2 DEF UserCount
<1> QED BY <1>6, <1>9, <1>12, <1>13 DEF CacheInv

-----------------------------------------------------------------------------
(* The process manager forgets a process.                                  *)

\* The names afterwards: n was in group g, and no call needs it.
LEMMA CloseNames ==
    ASSUME AllInv, NEW g \in Groups, NEW n \in Cached, n \in processGroups[g],
           closeSandbox(g, n),
           UNCHANGED <<processName, requestGroup, sandbox, listener, cmdReadyCh>>,
           \A q \in Procs : call'[q] \in {call[q], NoCall},
           \A q \in Procs : call[q] # NoCall /\ call'[q] = NoCall => q = object[n],
           \A q \in Procs : q # object[n] => processState'[q] = processState[q],
           call'[object[n]] = NoCall,
           Elements(eventCh') \subseteq Elements(eventCh)
    PROVE  NamesInv'
<1>0. /\ ProcTypeOK /\ PMTypeOK /\ CallInv /\ NameInv /\ ExitMsgInv /\ CacheConsistent
  BY SMTT(30) DEF AllInv, TypeInv, TypeOK, NamesInv, CacheInv
<1>1. /\ busyProcesses' = busyProcesses \ {n}
      /\ idleProcesses' = Without(idleProcesses, n)
      /\ object' = [object EXCEPT ![n] = AnyProc]
      /\ processGroups' = [processGroups EXCEPT ![g] = @ \ {n}]
  BY Zenon DEF closeSandbox, removeProcessFromCache
<1>2. IdleNames' = IdleNames \ {n} /\ Cached' = Cached \ {n}
  <2>1. idleProcesses \in Seq(Names) /\ IsDistinct(idleProcesses)
    BY <1>0, Zenon DEF CacheConsistent, PMTypeOK
  <2>2. IdleNames' = IdleNames \ {n}
    BY <1>1, <2>1, WithoutFacts, Zenon DEF IdleNames
  <2> QED BY <1>1, <2>2, Zenon DEF Cached
<1>3. /\ n \in Names /\ \A m \in Names \ {n} : object'[m] = object[m]
      /\ Cached \subseteq Names
  BY <1>0, <1>1, HelperTypes, Zenon DEF AllInv, TypeInv, PMTypeOK
<1>4. \A h \in Groups : processGroups[h] \ {n} \subseteq processGroups'[h]
  BY <1>0, <1>1, Zenon DEF PMTypeOK
<1>5. \A q \in Procs : InUse(q)' => InUse(q)
  BY <1>2, <1>3, Zenon DEF InUse
<1>6. \A m \in Cached \ {n} : object[m] # object[n] /\ object[m] \in Procs
  BY <1>0, <1>3, Zenon DEF CacheConsistent, PMTypeOK
<1>7. \A q \in Procs \ {object[n]} : Dead(q)' <=> Dead(q)
  BY SMTT(30) DEF Dead
<1>8. \A q \in Procs \ {object[n]} : call'[q] = call[q] /\ (Resetting(q)' <=> Resetting(q))
  BY SMTT(30) DEF Resetting
<1>9. CallInv'
  <2> SUFFICES ASSUME NEW q \in Procs, call'[q] # NoCall
               PROVE  CallOK(q)'
    BY Zenon DEF CallInv
  <2>1. q # object[n] /\ call'[q] = call[q] /\ call[q] # NoCall
    BY <1>8, Zenon
  <2>2. \E m \in Cached' : object'[m] = q
    <3>1. \E m \in Cached : object[m] = q
      BY <1>0, <2>1, Zenon DEF CallInv, CallOK
    <3> QED BY <1>2, <1>3, <2>1, <3>1
  <2>3. Matches(q) => Matches(q)'
    <3>1. call[q].oldGroup \in Groups
      BY <2>1, CallFields, Zenon DEF AllInv, TypeInv
    <3> QED BY <1>2, <1>3, <1>4, <2>1, <3>1, Zenon DEF Matches, Cached
  <2>4. CallOK(q)
    BY <1>0, <2>1, Zenon DEF CallInv
  <2> QED BY <1>2, <1>7, <1>8, <2>1, <2>2, <2>3, <2>4, SMTT(30) DEF CallOK
<1>10. NameInv'
  <2>1. \A q \in Procs : InUse(q)' /\ processName[q] \in Cached' =>
           /\ object'[processName[q]] = q
           /\ processName[q] \in processGroups'[requestGroup[q]]
    BY <1>0, <1>2, <1>3, <1>4, <1>5, Zenon DEF NameInv, ProcTypeOK
  <2>2. \A m \in Cached' : \/ processName[object'[m]] = m
                           \/ Dead(object[m])'
                           \/ Resetting(object[m])'
    <3> SUFFICES ASSUME NEW m \in Cached'
                 PROVE  \/ processName[object'[m]] = m
                        \/ Dead(object[m])' \/ Resetting(object[m])'
      BY Zenon
    <3>1. m \in Cached \ {n} /\ object'[m] = object[m]
          /\ object[m] \in Procs \ {object[n]}
      BY <1>2, <1>3, <1>6, Zenon
    <3>2. processName[object[m]] = m \/ Dead(object[m]) \/ Resetting(object[m])
      BY <1>0, <3>1, Zenon DEF NameInv
    <3> QED BY <1>8, <3>1, <3>2, Zenon DEF Dead, Resetting
  <2> QED BY <1>0, <1>5, <2>1, <2>2, Zenon DEF NameInv
<1>11. ExitMsgInv'
  <2> SUFFICES ASSUME NEW m \in Elements(eventCh'), m.type = "exit"
               PROVE  /\ m.name \in Cached' => m.name \in processGroups'[m.group]
                      /\ \A q \in Procs : InUse(q)' /\ processName[q] = m.name
                                            => requestGroup[q] = m.group
    BY Zenon DEF ExitMsgInv
  <2>1. m.group \in Groups /\ m \in Elements(eventCh)
    BY HelperTypes, Zenon DEF AllInv, TypeInv, Messages
  <2> QED BY <1>0, <1>2, <1>4, <1>5, <2>1, Zenon DEF ExitMsgInv
<1> QED BY <1>9, <1>10, <1>11, SMTT(30) DEF NamesInv

\* The caches afterwards.
LEMMA CloseCache ==
    ASSUME AllInv, NEW g \in Groups, NEW n \in Cached, n \in processGroups[g],
           closeSandbox(g, n), UNCHANGED <<user, create>>
    PROVE  CacheInv' /\ op' = op
<1> DEFINE u == user[object[n]]
<1>0. /\ PMTypeOK /\ IsFiniteSet(busyProcesses)
      /\ CacheConsistent /\ WithinLimit /\ UsersExclusive /\ UserCount
  BY Zenon DEF AllInv, TypeInv, TypeOK, FiniteCaches, CacheInv
<1>1. /\ busyProcesses' = busyProcesses \ {n}
      /\ idleProcesses' = Without(idleProcesses, n)
      /\ object' = [object EXCEPT ![n] = AnyProc]
      /\ processGroups' = [processGroups EXCEPT ![g] = @ \ {n}]
      /\ freeUsers' = Append(freeUsers, u)
      /\ op' = op
  BY SMTT(30) DEF closeSandbox, removeProcessFromCache
<1>2. /\ IdleNames' = IdleNames \ {n} /\ Cached' = Cached \ {n}
      /\ IsDistinct(idleProcesses')
  <2>1. idleProcesses \in Seq(Names) /\ IsDistinct(idleProcesses)
    BY <1>0, Zenon DEF CacheConsistent, PMTypeOK
  <2>2. IdleNames' = IdleNames \ {n} /\ IsDistinct(idleProcesses')
    BY <1>1, <2>1, WithoutFacts, Zenon DEF IdleNames
  <2> QED BY <1>1, <2>2, Zenon DEF Cached
<1>3. /\ n \in Names /\ Cached \subseteq Names
      /\ \A m \in Cached \ {n} : object'[m] = object[m] /\ object[m] \in Procs
  BY <1>0, <1>1, HelperTypes DEF AllInv, TypeInv, PMTypeOK
<1>4. CacheConsistent'
  <2>1. \A h \in Groups : processGroups'[h] = processGroups[h] \ {n}
    <3>1. \A h \in Groups \ {g} : n \notin processGroups[h]
      BY <1>0, Zenon DEF CacheConsistent
    <3> QED BY <1>0, <1>1, <3>1 DEF PMTypeOK
  <2>2. /\ \A h \in Groups : processGroups'[h] \subseteq Cached'
        /\ \A m \in Cached' : \E h \in Groups : m \in processGroups'[h]
        /\ \A h, k \in Groups : h # k => processGroups'[h] \cap processGroups'[k] = {}
    BY <1>0, <1>2, <2>1, ZenonT(30) DEF CacheConsistent
  <2>3. \A m, k \in Cached' : object'[m] = object'[k] => m = k
    BY <1>0, <1>2, <1>3, SMTT(30) DEF CacheConsistent
  <2> QED BY <1>0, <1>1, <1>2, <2>2, <2>3, SMTT(30) DEF CacheConsistent
<1>5. u \in Users \ Elements(freeUsers)
  BY <1>0, <1>3 DEF UsersExclusive, PMTypeOK
<1> HIDE DEF u
<1>6. /\ IsDistinct(freeUsers') /\ Elements(freeUsers') = Elements(freeUsers) \cup {u}
  BY <1>0, <1>1, <1>5, AppendTailFacts, SMTT(30) DEF UsersExclusive, PMTypeOK
<1>7. UsersExclusive'
  BY <1>0, <1>2, <1>3, <1>6, SMTT(30) DEF UsersExclusive, u
<1>8. /\ Len(freeUsers') = Len(freeUsers) + 1 /\ Len(freeUsers) \in Nat
      /\ Len(idleProcesses) \in Nat /\ Len(create) \in Nat
      /\ Cardinality(busyProcesses) \in Nat
  BY <1>0, <1>1, <1>5, FS_CardinalityType, SMTT(30) DEF PMTypeOK
<1>9. Len(idleProcesses') + Cardinality(busyProcesses')
        = Len(idleProcesses) + Cardinality(busyProcesses) - 1
  <2>1. CASE n \in IdleNames
    <3>1. Len(idleProcesses') = Len(idleProcesses) - 1
      BY <1>0, <1>1, <2>1, WithoutFacts DEF IdleNames, PMTypeOK
    <3>2. busyProcesses' = busyProcesses
      BY <1>0, <1>1, <2>1 DEF CacheConsistent
    <3> QED BY <1>8, <3>1, <3>2
  <2>2. CASE n \in busyProcesses
    <3>1. idleProcesses' = idleProcesses
      BY <1>0, <1>1, <2>2, WithoutFacts, SMTT(30) DEF CacheConsistent, IdleNames, PMTypeOK
    <3>2. Cardinality(busyProcesses') = Cardinality(busyProcesses) - 1
      BY <1>0, <1>1, <2>2, FS_RemoveElement, Zenon
    <3> QED BY <1>8, <3>1, <3>2, SMTT(30)
  <2> QED BY <2>1, <2>2, SMTT(30) DEF Cached
<1>10. Len(idleProcesses') \in Nat /\ Cardinality(busyProcesses') \in Nat
  <2>1. IsFiniteSet(busyProcesses')
    BY <1>0, <1>1, FiniteFacts, Zenon
  <2> QED BY <1>0, <1>1, <2>1, FS_CardinalityType, WithoutFacts, SMTT(30) DEF PMTypeOK
<1>11. WithinLimit'
  <2>1. Len(idleProcesses) + Cardinality(busyProcesses) + Len(create) <= MaxProcessNum
    BY <1>0, Zenon DEF WithinLimit
  <2>2. MaxProcessNum \in Nat /\ create' = create
    BY ConstantsAssumption
  <2> QED BY <1>8, <1>9, <1>10, <2>1, <2>2, SMTT(30) DEF WithinLimit
<1>12. UserCount'
  <2>1. Len(freeUsers) + Len(idleProcesses) + Cardinality(busyProcesses)
          = Len(UserQueue)
    BY <1>0 DEF UserCount
  <2> QED BY <1>8, <1>9, <1>10, <2>1, SMTT(30) DEF UserCount
<1> QED BY <1>1, <1>4, <1>7, <1>11, <1>12 DEF CacheInv

-----------------------------------------------------------------------------
(* The event loop of the process manager.                                  *)

\* A handler starts calls on idle processes: each is found under its own name, or
\* its sandbox is gone.
LEMMA BeginNames ==
    ASSUME AllInv, CallsReturned, NEW T \in SUBSET Procs,
           \A q \in T : \E n \in IdleNames : object[n] = q,
           NEW t \in [T -> Groups \cup {Close}], Begin(t),
           UNCHANGED <<procVarsButCall, cacheVars, eventCh>>
    PROVE  NamesInv'
<1>0. /\ ProcTypeOK /\ PMTypeOK /\ NameInv /\ ExitMsgInv
  BY DEF AllInv, TypeInv, TypeOK, NamesInv
<1>1. /\ UNCHANGED <<processState, processName, requestGroup, sandbox, listener,
                     cmdReadyCh>>
      /\ UNCHANGED <<object, processGroups>>
      /\ Cached' = Cached /\ IdleNames' = IdleNames
  BY DEF procVarsButCall, cacheVars, Cached, IdleNames
<1>2. \A q \in Procs : (InUse(q)' <=> InUse(q)) /\ (Dead(q)' <=> Dead(q))
  BY <1>1, SMTT(30) DEF InUse, Dead
<1>3. \A q \in Procs : call'[q] # NoCall =>
         q \in T /\ call'[q] = [at |-> "enter", to |-> t[q],
                                oldName |-> processName[q],
                                oldGroup |-> requestGroup[q]]
  BY Zenon DEF Begin, CallsReturned
<1>4. \A q \in Procs : ~Resetting(q) /\ ~Resetting(q)'
  <2>1. \A q \in Procs : ~Resetting(q)
    BY SMTT(30) DEF Resetting, CallsReturned, NoCall
  <2>2. ASSUME NEW q \in Procs
        PROVE  call'[q].at \notin {"killing", "killed"}
    <3>1. CASE call'[q] = NoCall
      BY <3>1, SMTT(30) DEF NoCall
    <3>2. CASE call'[q] # NoCall
      <4>1. call'[q] = [at |-> "enter", to |-> t[q], oldName |-> processName[q],
                        oldGroup |-> requestGroup[q]]
        BY <1>3, <3>2, Zenon
      <4> QED BY <4>1, SMTT(30)
    <3> QED BY <3>1, <3>2, Zenon
  <2> QED BY <2>1, <2>2, SMTT(30) DEF Resetting
<1>5. CallInv'
  <2> SUFFICES ASSUME NEW q \in Procs, call'[q] # NoCall
               PROVE  CallOK(q)'
    BY Zenon DEF CallInv
  <2>1. /\ q \in T /\ call'[q].at = "enter" /\ call'[q].oldName = processName[q]
        /\ call'[q].oldGroup = requestGroup[q]
    <3>1. q \in T /\ call'[q] = [at |-> "enter", to |-> t[q], oldName |-> processName[q],
                                 oldGroup |-> requestGroup[q]]
      BY <1>3, Zenon
    <3> QED BY <3>1, SMTT(30)
  <2>2. PICK n \in IdleNames : object[n] = q
    BY <2>1, SMTT(30)
  <2>3. n \in Cached /\ InUse(q)
    BY <2>2, SMTT(30) DEF Cached, InUse
  <2>4. Matches(q)' \/ Dead(q)
    <3>1. CASE processName[q] = n
      BY <1>0, <1>1, <2>1, <2>2, <2>3, <3>1, ZenonT(30) DEF NameInv, Matches
    <3>2. CASE processName[q] # n
      BY <1>0, <1>4, <2>2, <2>3, <3>2, Zenon DEF NameInv
    <3> QED BY <3>1, <3>2, Zenon
  <2> QED BY <1>1, <1>2, <1>4, <2>1, <2>2, <2>3, <2>4, Zenon DEF CallOK
<1>6. NameInv'
  <2>1. \A n \in Cached' : \/ processName'[object'[n]] = n \/ Dead(object[n])'
    <3>1. \A n \in Cached : object[n] \in Procs
      BY <1>0, HelperTypes DEF AllInv, TypeInv, PMTypeOK
    <3> QED BY <1>0, <1>1, <1>4, <3>1, Zenon DEF NameInv, Dead
  <2> QED BY <1>0, <1>1, <1>2, <2>1, Zenon DEF NameInv
<1>7. ExitMsgInv'
  BY <1>0, <1>1, <1>2, Zenon DEF ExitMsgInv
<1> QED BY <1>5, <1>6, <1>7 DEF NamesInv

\* The first k idle processes are processes cached under idle names.
LEMMA IdlePicked ==
    ASSUME AllInv, NEW k \in Int, k <= Len(idleProcesses)
    PROVE  LET T == {object[idleProcesses[i]] : i \in 1 .. k}
           IN  T \in SUBSET Procs /\ \A q \in T : \E n \in IdleNames : object[n] = q
<1>1. \A i \in 1 .. k : idleProcesses[i] \in IdleNames /\ object[idleProcesses[i]] \in Procs
  <2>1. \A i \in 1 .. k : i \in 1 .. Len(idleProcesses)
    BY AvailableType, SMTT(30) DEF AllInv, TypeInv
  <2> QED BY <2>1, AvailableType, SMTT(30) DEF AllInv, TypeInv
<1> QED BY <1>1

\* What can be created is within the limit.
LEMMA CreateWithinLimit ==
    ASSUME AllInv, create = << >>, UNCHANGED <<idleProcesses, busyProcesses>>,
           NEW k \in Int, k <= getAvailableProcessNum,
           Len(create') = IF k < 0 THEN 0 ELSE k
    PROVE  WithinLimit' /\ getAvailableProcessNum \in Nat
<1>1. /\ Len(idleProcesses) \in Nat /\ Cardinality(busyProcesses) \in Nat
      /\ getAvailableProcessNum \in Int
  BY AvailableType DEF AllInv, TypeInv
<1>2. Len(idleProcesses) + Cardinality(busyProcesses) <= MaxProcessNum
      /\ MaxProcessNum \in Nat
  <2>1. Len(create) = 0
    OBVIOUS
  <2> QED BY <1>1, <2>1, ConstantsAssumption DEF AllInv, CacheInv, WithinLimit
<1>3. getAvailableProcessNum = MaxProcessNum - Len(idleProcesses)
                               - Cardinality(busyProcesses)
  BY DEF getAvailableProcessNum
<1> QED BY <1>1, <1>2, <1>3 DEF WithinLimit

\* Taking a message from the front of eventCh adds none.
LEMMA EventTaken ==
    ASSUME TypeOK, eventCh # << >>, eventCh' = Tail(eventCh)
    PROVE  /\ Elements(eventCh') \subseteq Elements(eventCh)
           /\ Head(eventCh) \in Elements(eventCh)
<1>1. eventCh \in Seq(Messages)
  BY DEF TypeOK, PMTypeOK
<1>2. /\ Len(eventCh) \in Nat /\ Len(eventCh) > 0 /\ DOMAIN eventCh = 1 .. Len(eventCh)
      /\ DOMAIN eventCh' = 1 .. Len(eventCh) - 1
      /\ \A i \in 1 .. Len(eventCh) - 1 : eventCh'[i] = eventCh[i + 1]
      /\ Head(eventCh) = eventCh[1]
  BY <1>1
<1>3. \A i \in 1 .. Len(eventCh) - 1 : i + 1 \in 1 .. Len(eventCh)
  BY <1>2
<1> QED BY <1>2, <1>3, SMTT(30) DEF Elements

\* The handlers.
LEMMA ManagerInv ==
    ASSUME AllInv, ManagerStep
    PROVE  NamesInv' /\ CacheInv'
<1>0. /\ TypeInv /\ TypeOK /\ FiniteCaches /\ ProcTypeOK /\ PMTypeOK /\ HandlerInv
      /\ ExitMsgInv
  BY DEF AllInv, TypeInv, TypeOK, NamesInv
<1>1. CASE handleGetProcessReq
  <2> DEFINE k == Lesser(Head(eventCh).num, getAvailableProcessNum)
  <2>1. QuietStep /\ create = << >> /\ UNCHANGED <<cacheVars, freeUsers, user>>
    BY <1>0, <1>1, StillStep DEF handleGetProcessReq, Ready, AtRest, HandlerInv
  <2>2. EventsKnown
    BY <1>0, <1>1, EventTaken, Zenon DEF handleGetProcessReq, EventsKnown
  <2>3. Head(eventCh).num \in Nat
    <3>1. Head(eventCh) \in Messages /\ Head(eventCh).type = "get"
      BY <1>0, <1>1 DEF handleGetProcessReq, PMTypeOK
    <3> QED BY <3>1 DEF Messages
  <2>4. k \in Int /\ k <= getAvailableProcessNum
    BY <1>0, <2>3, AvailableType, SMTT(30) DEF Lesser
  <2>5. create' = [i \in 1 .. k |-> Head(eventCh).group]
    BY <1>1, Zenon DEF handleGetProcessReq
  <2> HIDE DEF k
  <2>6. Len(create') = IF k < 0 THEN 0 ELSE k
    <3>1. CASE k < 0
      <4>1. 1 .. k = {}
        BY <2>4, <3>1
      <4>2. create' = << >>
        BY <2>5, <4>1
      <4> QED BY <3>1, <4>2
    <3>2. CASE k >= 0
      BY <2>4, <2>5, <3>2
    <3> QED BY <2>4, <3>1, <3>2
  <2>7. WithinLimit'
    BY <2>1, <2>4, <2>6, CreateWithinLimit DEF cacheVars
  <2> QED BY <2>1, <2>2, <2>7, QuietManager
<1>2. CASE CreateForRequest
  <2>1. Head(create) \in Groups
    BY <1>0, <1>2 DEF CreateForRequest, PMTypeOK
  <2>2. CallsReturned
    BY <1>0, <1>2 DEF CreateForRequest, HandlerInv
  <2> QED BY <1>2, <2>1, <2>2, CreateNames, CreateCache DEF CreateForRequest
<1>3. CASE PickIdleProcesses
  <2> DEFINE k == Lesser(request.num - allocated, Len(idleProcesses))
             T == {object[idleProcesses[i]] : i \in 1 .. k}
             t == [p \in T |-> request.group]
  <2>1. request.group \in Groups /\ request.num \in Nat
    BY <1>0, <1>3, RequestType, SMTT(30) DEF PickIdleProcesses
  <2>2. k \in Int /\ k <= Len(idleProcesses)
    <3>1. allocated \in Nat
      BY <1>0, Zenon DEF PMTypeOK
    <3> QED BY <1>0, <2>1, <3>1, AvailableType, SMTT(30) DEF Lesser
  <2> HIDE DEF k
  <2>3. T \in SUBSET Procs /\ \A q \in T : \E n \in IdleNames : object[n] = q
    BY <2>2, IdlePicked, Zenon
  <2>4. Begin(t) /\ t \in [T -> Groups \cup {Close}]
    <3>1. Begin(t)
      BY <1>3, Zenon DEF PickIdleProcesses, k
    <3> QED BY <2>1, <3>1, Zenon
  <2>5. CallsReturned
    BY <1>0, <1>3, Zenon DEF PickIdleProcesses, HandlerInv
  <2>6. UNCHANGED <<procVarsButCall, cacheVars, eventCh, freeUsers, user, create>>
    BY <1>3, Zenon DEF PickIdleProcesses
  <2> HIDE DEF T, t
  <2>7. NamesInv'
    BY <2>3, <2>4, <2>5, <2>6, BeginNames
  <2> QED BY <2>6, <2>7, QuietCache
<1>4. CASE EndGetProcessReq
  <2>1. /\ QuietStep /\ UNCHANGED <<cacheVars, freeUsers, user, create, eventCh>>
    BY <1>4, StillStep DEF EndGetProcessReq
  <2> QED BY <2>1, QuietManager, Zenon DEF EventsKnown
<1>5. CASE handleAllocateIdleProcesses
  <2> DEFINE k == Lesser(Len(waitingRequestGroups), Len(idleProcesses))
             T == {object[idleProcesses[i]] : i \in 1 .. k}
             t == [p \in T |-> waitingRequestGroups[
                                 CHOOSE i \in 1 .. k : object[idleProcesses[i]] = p]]
  <2>1. k \in Nat /\ k <= Len(idleProcesses) /\ k <= Len(waitingRequestGroups)
    BY <1>0, AvailableType DEF Lesser
  <2>2. Begin(t)
    BY <1>5, Zenon DEF handleAllocateIdleProcesses
  <2> HIDE DEF k
  <2>3. T \in SUBSET Procs /\ \A q \in T : \E n \in IdleNames : object[n] = q
    BY <2>1, IdlePicked, SMTT(30)
  <2>4. t \in [T -> Groups \cup {Close}]
    <3>1. ASSUME NEW p \in T
          PROVE  waitingRequestGroups[CHOOSE i \in 1 .. k :
                                        object[idleProcesses[i]] = p] \in Groups
      <4> DEFINE j == CHOOSE i \in 1 .. k : object[idleProcesses[i]] = p
      <4>1. j \in 1 .. k
        OBVIOUS
      <4>2. j \in 1 .. Len(waitingRequestGroups)
        <5> HIDE DEF j
        <5> QED BY <1>0, <2>1, <4>1, AvailableType
      <4> HIDE DEF j
      <4>3. waitingRequestGroups[j] \in Groups
        BY <1>0, <4>2, AvailableType
      <4> QED BY <4>3 DEF j
    <3> QED BY <3>1
  <2>5. CallsReturned
    BY <1>0, <1>5, Zenon DEF handleAllocateIdleProcesses, Ready, AtRest, HandlerInv
  <2>6. UNCHANGED <<procVarsButCall, cacheVars, eventCh, freeUsers, user, create>>
    BY <1>5, Zenon DEF handleAllocateIdleProcesses
  <2> HIDE DEF T, t
  <2>7. NamesInv'
    BY <2>2, <2>3, <2>4, <2>5, <2>6, BeginNames
  <2> QED BY <2>6, <2>7, QuietCache
<1>6. CASE EndAllocateIdle
  <2>1. /\ QuietStep /\ UNCHANGED <<cacheVars, freeUsers, user, create, eventCh>>
    BY <1>6, StillStep DEF EndAllocateIdle
  <2> QED BY <2>1, QuietManager DEF EventsKnown
<1>7. CASE handleAllocateNewProcesses
  <2> DEFINE k == Lesser(Len(waitingRequestGroups), getAvailableProcessNum)
  <2>1. /\ QuietStep /\ create = << >>
        /\ UNCHANGED <<cacheVars, freeUsers, user, eventCh>>
    BY <1>0, <1>7, StillStep DEF handleAllocateNewProcesses, Ready, AtRest, HandlerInv
  <2>2. /\ k \in Int /\ k <= getAvailableProcessNum /\ k <= Len(waitingRequestGroups)
        /\ Len(waitingRequestGroups) \in Nat
    BY <1>0, AvailableType DEF Lesser
  <2>3. create' = SubSeq(waitingRequestGroups, 1, k)
    BY <1>7 DEF handleAllocateNewProcesses
  <2> HIDE DEF k
  <2>4. waitingRequestGroups \in Seq(Groups)
    BY <1>0 DEF PMTypeOK
  <2>5. Len(create') = IF k < 0 THEN 0 ELSE k
    <3>1. CASE k <= 0
      <4>1. create' = << >>
        BY <2>2, <2>3, <2>4, <3>1
      <4> QED BY <2>2, <3>1, <4>1
    <3>2. CASE k > 0
      BY <2>2, <2>3, <2>4, <3>2
    <3> QED BY <2>2, <3>1, <3>2
  <2>6. WithinLimit'
    BY <2>1, <2>2, <2>5, CreateWithinLimit DEF cacheVars
  <2> QED BY <2>1, <2>6, QuietManager DEF EventsKnown
<1>8. CASE CreateForWaiting
  <2>1. create # << >>
    BY <1>0, <1>8 DEF CreateForWaiting, HandlerInv
  <2>2. Head(create) \in Groups
    BY <1>0, <2>1 DEF PMTypeOK
  <2>3. CallsReturned
    BY <1>0, <1>8 DEF CreateForWaiting, HandlerInv
  <2> QED BY <1>8, <2>1, <2>2, <2>3, CreateNames, CreateCache DEF CreateForWaiting
<1>9. CASE handleSandboxExitMsg
  <2> DEFINE m == Head(eventCh)
  <2>1. /\ m \in Elements(eventCh) /\ Elements(eventCh') \subseteq Elements(eventCh)
        /\ m.type = "exit" /\ closeSandbox(m.group, m.name)
        /\ UNCHANGED <<procVars, user, create>>
    BY <1>0, <1>9, EventTaken, Zenon DEF handleSandboxExitMsg
  <2>2. m.group \in Groups /\ m.name \in Names
    <3>1. m \in Messages /\ m.type = "exit"
      BY <1>0, <2>1, HelperTypes
    <3> QED BY <3>1 DEF Messages
  <2>3. CallsReturned
    BY <1>0, <1>9 DEF handleSandboxExitMsg, Ready, AtRest, HandlerInv
  <2> HIDE DEF m
  <2>4. CASE m.name \in Cached
    <3>1. m.name \in processGroups[m.group] /\ object[m.name] \in Procs
      BY <1>0, <2>1, <2>2, <2>4, Zenon DEF ExitMsgInv, PMTypeOK
    <3>2. \A q \in Procs : call'[q] = NoCall /\ call[q] = NoCall
      BY <2>1, <2>3 DEF procVars, CallsReturned
    <3>3. UNCHANGED <<processName, requestGroup, sandbox, listener, cmdReadyCh,
                      processState>>
      BY <2>1 DEF procVars
    <3>4. NamesInv'
      BY <2>1, <2>2, <2>4, <3>1, <3>2, <3>3, CloseNames, Zenon
    <3> QED BY <2>1, <2>2, <2>4, <3>1, <3>4, CloseCache, Zenon
  <2>5. CASE m.name \notin Cached
    <3>1. UNCHANGED <<cacheVars, freeUsers>>
      BY <2>1, <2>5 DEF closeSandbox, cacheVars
    <3>2. QuietStep /\ EventsKnown
      BY <2>1, StillStep, Zenon DEF EventsKnown
    <3> QED BY <2>1, <3>1, <3>2, QuietManager
  <2> QED BY <2>4, <2>5
<1>10. CASE handleCleanIdleProcesses
  <2> DEFINE k == Lesser(ReleaseTarget - getAvailableProcessNum, Len(idleProcesses))
             T == {object[idleProcesses[i]] : i \in 1 .. k}
             t == [p \in T |-> Close]
  <2>1. k \in Int /\ k <= Len(idleProcesses)
    BY <1>0, AvailableType, ConstantsAssumption, SMTT(30) DEF Lesser
  <2>2. Begin(t)
    BY <1>10, Zenon DEF handleCleanIdleProcesses
  <2> HIDE DEF k
  <2>3. T \in SUBSET Procs /\ \A q \in T : \E n \in IdleNames : object[n] = q
    BY <2>1, IdlePicked, Zenon
  <2>4. t \in [T -> Groups \cup {Close}]
    OBVIOUS
  <2>5. CallsReturned
    BY <1>0, <1>10, Zenon DEF handleCleanIdleProcesses, Ready, AtRest, HandlerInv
  <2>6. UNCHANGED <<procVarsButCall, cacheVars, eventCh, freeUsers, user, create>>
    BY <1>10, Zenon DEF handleCleanIdleProcesses
  <2> HIDE DEF T, t
  <2>7. NamesInv'
    BY <2>2, <2>3, <2>4, <2>5, <2>6, BeginNames
  <2> QED BY <2>6, <2>7, QuietCache
<1>11. CASE EndClean
  <2>1. /\ QuietStep /\ UNCHANGED <<cacheVars, freeUsers, user, create, eventCh>>
    BY <1>11, StillStep DEF EndClean
  <2> QED BY <2>1, QuietManager DEF EventsKnown
<1> QED
  BY <1>1, <1>2, <1>3, <1>4, <1>5, <1>6, <1>7, <1>8, <1>9, <1>10, <1>11, SMTT(30)
  DEF ManagerStep

=============================================================================
