------------------------- MODULE ProcessPoolProofs --------------------------
(***************************************************************************)
(* Preservation of the invariant by the calls on processes, and what       *)
(* follows from it: the caches of the process manager are consistent, it   *)
(* holds no more processes than it may, and their users are exclusive and  *)
(* suffice.                                                                *)
(***************************************************************************)
EXTENDS ProcessPoolManager

-----------------------------------------------------------------------------
(* The calls of the process manager.                                       *)

\* A step of a call on p that leaves the caches alone: it is enough to look at p.
LEMMA CallNames ==
    ASSUME AllInv, NEW p \in Procs, call[p] # NoCall,
           UNCHANGED <<cacheVars, eventCh, listener, processState>>,
           \A q \in Procs \ {p} : /\ call'[q] = call[q]
                                  /\ processName'[q] = processName[q]
                                  /\ requestGroup'[q] = requestGroup[q]
                                  /\ sandbox'[q] = sandbox[q]
                                  /\ cmdReadyCh'[q] = cmdReadyCh[q],
           call'[p] # NoCall => CallOK(p)',
           \/ /\ processName'[p] = processName[p]
              /\ requestGroup'[p] = requestGroup[p]
           \/ processName'[p] \in FreshNames,
           \/ Resetting(p)'
           \/ Dead(p)'
           \/ ~Resetting(p) /\ ~Dead(p) /\ processName'[p] = processName[p]
    PROVE  NamesInv'
<1>0. /\ ProcTypeOK /\ PMTypeOK /\ CallInv /\ NameInv /\ ExitMsgInv
  BY Zenon DEF AllInv, TypeInv, TypeOK, NamesInv
<1>1. /\ UNCHANGED <<object, processGroups>>
      /\ Cached' = Cached /\ IdleNames' = IdleNames
  BY Zenon DEF cacheVars, Cached, IdleNames
<1>2. \A q \in Procs \ {p} : /\ InUse(q)' <=> InUse(q)
                             /\ Dead(q)' <=> Dead(q)
                             /\ Resetting(q)' <=> Resetting(q)
                             /\ Matches(q)' <=> Matches(q)
  BY <1>1, Zenon DEF InUse, Dead, Resetting, Matches
<1>3. InUse(p)
  BY <1>0, Zenon DEF CallInv, CallOK, InUse
<1>4. CallInv'
  <2> SUFFICES ASSUME NEW q \in Procs, call'[q] # NoCall, q # p
               PROVE  CallOK(q)'
    BY Zenon DEF CallInv
  <2> QED BY <1>0, <1>1, <1>2, ZenonT(30) DEF CallInv, CallOK
<1>5. processName'[p] \in FreshNames =>
         /\ processName'[p] \notin Cached
         /\ \A q \in Procs : InUse(q) => processName[q] # processName'[p]
         /\ \A m \in Elements(eventCh) : m.type = "exit" => m.name # processName'[p]
  BY Zenon DEF FreshNames
<1>6. NameInv'
  <2>1. \A q, r \in Procs : InUse(q)' /\ InUse(r)' /\ processName'[q] = processName'[r]
                              => q = r
    BY <1>0, <1>2, <1>3, <1>5, SMTT(30) DEF NameInv
  <2>2. \A q \in Procs : InUse(q)' /\ processName'[q] \in Cached =>
           /\ object[processName'[q]] = q
           /\ processName'[q] \in processGroups[requestGroup'[q]]
    BY <1>0, <1>2, <1>3, <1>5, ZenonT(30) DEF NameInv
  <2>3. ASSUME NEW n \in Cached
        PROVE  \/ processName'[object[n]] = n
               \/ Dead(object[n])' \/ Resetting(object[n])'
    <3>1. object[n] \in Procs
      BY <1>0, HelperTypes, Zenon DEF AllInv, TypeInv, PMTypeOK
    <3>2. processName[object[n]] = n \/ Dead(object[n]) \/ Resetting(object[n])
      BY <1>0, Zenon DEF NameInv
    <3>3. CASE object[n] = p
      BY <1>1, <3>2, <3>3, Zenon
    <3>4. CASE object[n] # p
      BY <1>1, <1>2, <3>1, <3>2, <3>4, Zenon
    <3> QED BY <3>3, <3>4, Zenon
  <2> QED BY <1>1, <2>1, <2>2, <2>3, Zenon DEF NameInv
<1>7. ExitMsgInv'
  <2> SUFFICES ASSUME NEW m \in Elements(eventCh), m.type = "exit", NEW q \in Procs,
                      InUse(q)', processName'[q] = m.name
               PROVE  requestGroup'[q] = m.group
    BY <1>0, <1>1, Zenon DEF ExitMsgInv
  <2> QED BY <1>0, <1>2, <1>3, <1>5, ZenonT(30) DEF ExitMsgInv
<1> QED BY <1>4, <1>6, <1>7, Zenon DEF NamesInv

\* The call looks at the state without p.lock, or is not made at all.
LEMMA CheckNames ==
    ASSUME AllInv, NEW p \in Procs, call[p].at = "enter",
           call' = [call EXCEPT ![p] = NoCall]
             \/ call' = [call EXCEPT ![p] = [@ EXCEPT !.at = "checked"]],
           UNCHANGED <<procVarsButCall, cacheVars, eventCh>>
    PROVE  NamesInv'
<1>0. TypeOK /\ ProcTypeOK /\ CallInv
  BY DEF AllInv, TypeInv, TypeOK, NamesInv
<1>1. call[p] # NoCall /\ ~Resetting(p)
  BY DEF NoCall, Resetting
<1>2. /\ UNCHANGED <<processState, processName, requestGroup, sandbox, listener,
                     cmdReadyCh>>
      /\ UNCHANGED <<object, processGroups>>
      /\ Cached' = Cached /\ IdleNames' = IdleNames
  BY DEF procVarsButCall, cacheVars, Cached, IdleNames
<1>3. Dead(p) => Dead(p)'
  BY <1>2 DEF Dead
<1>4. call'[p] # NoCall => CallOK(p)'
  <2> SUFFICES ASSUME call'[p] # NoCall
               PROVE  CallOK(p)'
    OBVIOUS
  <2>1. call'[p] = [call[p] EXCEPT !.at = "checked"]
    BY <1>0 DEF ProcTypeOK
  <2>2. /\ call'[p].at = "checked" /\ call'[p].oldName = call[p].oldName
        /\ call'[p].oldGroup = call[p].oldGroup /\ call'[p].to = call[p].to
    BY <1>0, <1>1, <2>1, CallFields
  <2>3. CallOK(p) /\ ~Resetting(p)'
    BY <1>0, <1>1, <2>2 DEF CallInv, Resetting
  <2> QED BY <1>1, <1>2, <1>3, <2>2, <2>3 DEF CallOK, Matches
<1>5. \A q \in Procs \ {p} : call'[q] = call[q]
  BY <1>0 DEF ProcTypeOK
<1> QED BY <1>1, <1>2, <1>3, <1>4, <1>5, CallNames

\* The call resets the context with p.lock held.
LEMMA ResetNames ==
    ASSUME AllInv, NEW p \in Procs, NEW name \in FreshNames, CallReset(p, name),
           UNCHANGED pmVars
    PROVE  NamesInv'
<1>0. TypeOK /\ ProcTypeOK /\ CallInv
  BY DEF AllInv, TypeInv, TypeOK, NamesInv
<1>1. call[p] # NoCall /\ call[p].at = "checked" /\ ~Resetting(p)
  BY DEF CallReset, NoCall, Resetting
<1>2. /\ UNCHANGED <<processState, sandbox, listener, cmdReadyCh, eventCh, cacheVars>>
      /\ UNCHANGED <<object, processGroups>>
      /\ Cached' = Cached /\ IdleNames' = IdleNames
  BY DEF CallReset, pmVars, cacheVars, Cached, IdleNames
<1>3. Dead(p) => Dead(p)'
  BY <1>2, Zenon DEF Dead
<1>4. CallOK(p)
  BY <1>0, <1>1, SMTT(30) DEF CallInv
<1>5. CASE processState[p] = "idle"
  <2>1. call' = [call EXCEPT ![p].at = "killing"]
    BY <1>5 DEF CallReset
  <2>2. call'[p] = [call[p] EXCEPT !.at = "killing"]
        /\ \A q \in Procs \ {p} : call'[q] = call[q]
    BY <1>0, <2>1 DEF ProcTypeOK
  <2>3. /\ call'[p].at = "killing" /\ call'[p].oldName = call[p].oldName
        /\ call'[p].oldGroup = call[p].oldGroup /\ call'[p].to = call[p].to
    BY <1>0, <1>1, <2>2, CallFields
  <2>4. /\ \E n \in Cached' : object'[n] = p
        /\ Matches(p)' \/ Dead(p)'
        /\ processState'[p] = "idle"
    BY <1>2, <1>3, <1>4, <1>5, <2>3, Zenon DEF CallOK, Matches
  <2>5. CASE call[p].to = Close
    <3>1. UNCHANGED <<processName, requestGroup>>
      BY <1>5, <2>5 DEF CallReset
    <3>2. ~Resetting(p)'
      BY <2>3, <2>5, Zenon DEF Resetting
    <3>3. CallOK(p)'
      BY <1>1, <1>4, <2>3, <2>4, <3>1, <3>2, Zenon DEF CallOK
    <3> QED BY <1>1, <1>2, <1>3, <2>2, <3>1, <3>3, CallNames
  <2>6. CASE call[p].to # Close
    <3>1. /\ processName' = [processName EXCEPT ![p] = name]
          /\ requestGroup' = [requestGroup EXCEPT ![p] = call[p].to]
      BY <1>5, <2>6 DEF CallReset
    <3>2. /\ processName'[p] = name /\ requestGroup'[p] = call[p].to
          /\ \A q \in Procs \ {p} : /\ processName'[q] = processName[q]
                                    /\ requestGroup'[q] = requestGroup[q]
      BY <1>0, <3>1 DEF ProcTypeOK
    <3>3. name \notin Cached
      BY Zenon DEF FreshNames
    <3>4. Resetting(p)'
      BY <2>3, <2>6, SMTT(30) DEF Resetting
    <3>5. CallOK(p)'
      BY <1>2, <2>3, <2>4, <3>2, <3>3, <3>4, Zenon DEF CallOK
    <3> QED BY <1>1, <1>2, <2>2, <3>2, <3>4, <3>5, CallNames
  <2> QED BY <2>5, <2>6
<1>6. CASE processState[p] # "idle"
  <2>1. call' = [call EXCEPT ![p] = NoCall] /\ UNCHANGED <<processName, requestGroup>>
    BY <1>6 DEF CallReset
  <2>2. call'[p] = NoCall /\ \A q \in Procs \ {p} : call'[q] = call[q]
    BY <1>0, <2>1 DEF ProcTypeOK
  <2> QED BY <1>1, <1>2, <1>3, <2>1, <2>2, CallNames, Zenon
<1> QED BY <1>5, <1>6

\* The call sends the signal, or finds the sandbox gone and returns.
LEMMA KillNames ==
    ASSUME AllInv, NEW p \in Procs, CallKill(p), UNCHANGED pmVars
    PROVE  NamesInv'
<1>0. TypeOK /\ ProcTypeOK /\ CallInv
  BY DEF AllInv, TypeInv, TypeOK, NamesInv
<1>1. call[p] # NoCall /\ call[p].at = "killing" /\ cmdReadyCh[p]
  BY DEF CallKill, NoCall
<1>2. /\ UNCHANGED <<processState, processName, requestGroup, listener, eventCh>>
      /\ UNCHANGED <<cacheVars, object, processGroups>>
      /\ Cached' = Cached /\ IdleNames' = IdleNames
  BY DEF CallKill, pmVars, cacheVars, Cached, IdleNames
<1>3. CallOK(p) /\ ~Dead(p) /\ processState[p] = "idle"
  BY <1>0, <1>1, Zenon DEF CallInv, CallOK, Dead
<1>4. /\ call' = [call EXCEPT ![p] = IF sandbox[p] = "off" THEN NoCall
                                     ELSE [@ EXCEPT !.at = "killed"]]
      /\ cmdReadyCh' = [cmdReadyCh EXCEPT ![p] = FALSE]
      /\ sandbox' = [sandbox EXCEPT ![p] = Signalled(@)]
  BY DEF CallKill
<1>5. /\ \A q \in Procs \ {p} : /\ call'[q] = call[q]
                                /\ sandbox'[q] = sandbox[q]
                                /\ cmdReadyCh'[q] = cmdReadyCh[q]
      /\ ~cmdReadyCh'[p] /\ sandbox'[p] = Signalled(sandbox[p])
  BY <1>0, <1>4 DEF ProcTypeOK
<1>6. CASE sandbox[p] = "off"
  <2>1. call'[p] = NoCall
    BY <1>0, <1>4, <1>6 DEF ProcTypeOK
  <2>2. Dead(p)'
    BY <1>2, <1>3, <1>5, <1>6, Zenon DEF Dead, Signalled
  <2> QED BY <1>1, <1>2, <1>5, <2>1, <2>2, CallNames, Zenon
<1>7. CASE sandbox[p] # "off"
  <2>1. call'[p] = [call[p] EXCEPT !.at = "killed"]
    BY <1>0, <1>4, <1>7 DEF ProcTypeOK
  <2>2. /\ call'[p].at = "killed" /\ call'[p].oldName = call[p].oldName
        /\ call'[p].oldGroup = call[p].oldGroup /\ call'[p].to = call[p].to
    BY <1>0, <1>1, <2>1, CallFields
  <2>3. Resetting(p)' <=> Resetting(p)
    BY <1>1, <2>2, Zenon DEF Resetting
  <2>4. Matches(p)'
    BY <1>2, <1>3, <2>2, Zenon DEF CallOK, Matches
  <2>5. CallOK(p)'
    BY <1>2, <1>3, <2>2, <2>3, <2>4, Zenon DEF CallOK
  <2> QED BY <1>1, <1>2, <1>3, <1>5, <2>3, <2>5, CallNames, Zenon
<1> QED BY <1>6, <1>7

\* What ChangeSandbox's success does to the indexes: p moves from the old to the
\* new name and group.
LEMMA ChangeMoves ==
    ASSUME AllInv, NEW p \in Procs, ChangeSucceeds(p)
    PROVE  LET n == call[p].oldName
               m == processName[p]
           IN  /\ n \in IdleNames /\ n \notin busyProcesses /\ object[n] = p
               /\ m \in Names \ Cached /\ requestGroup[p] \in Groups
               /\ idleProcesses' = Without(idleProcesses, n)
               /\ busyProcesses' = busyProcesses \cup {m}
               /\ IsDistinct(idleProcesses') /\ IdleNames' = IdleNames \ {n}
               /\ Cached' = (Cached \ {n}) \cup {m}
               /\ object'[m] = p
               /\ \A k \in Cached \ {n} : object'[k] = object[k] /\ object[k] \in Procs \ {p}
               /\ \A h \in Groups \ {requestGroup[p]} :
                     processGroups'[h] = processGroups[h] \ {n}
               /\ processGroups'[requestGroup[p]]
                    = (processGroups[requestGroup[p]] \ {n}) \cup {m}
               /\ call[p] # NoCall
<1> DEFINE n == call[p].oldName
           m == processName[p]
           o == call[p].oldGroup
           g == call[p].to
<1>0. /\ TypeOK /\ ProcTypeOK /\ PMTypeOK /\ CallInv /\ CacheConsistent
  BY DEF AllInv, TypeInv, TypeOK, NamesInv, CacheInv
<1>1. call[p].at = "killed" /\ g # Close /\ call[p] # NoCall
  BY SMTT(30) DEF ChangeSucceeds, NoCall
<1>2. CallOK(p) /\ Resetting(p)
  BY <1>0, <1>1, Zenon DEF CallInv, Resetting
<1>3. /\ n \in IdleNames /\ object[n] = p /\ n \in processGroups[o]
      /\ requestGroup[p] = g /\ m \notin Cached
  BY <1>1, <1>2, Zenon DEF CallOK, Matches
<1>4. g \in Groups /\ o \in Groups /\ n \in Names /\ m \in Names /\ Cached \subseteq Names
  BY <1>0, <1>1, CallFields, HelperTypes, Zenon DEF ProcTypeOK
<1>5. /\ idleProcesses' = Without(idleProcesses, n)
      /\ busyProcesses' = (busyProcesses \ {n}) \cup {m}
      /\ object' = [object EXCEPT ![n] = AnyProc, ![m] = p]
      /\ processGroups' = [processGroups EXCEPT ![o] = @ \ {n}, ![g] = @ \cup {m}]
  BY Zenon DEF ChangeSucceeds
<1>6. n \notin busyProcesses /\ n # m /\ n \in Cached
  BY <1>0, <1>3, Zenon DEF CacheConsistent, Cached
<1> HIDE DEF n, m, o, g
<1>7. IsDistinct(idleProcesses') /\ IdleNames' = IdleNames \ {n}
  BY <1>0, <1>3, <1>5, WithoutFacts, Zenon DEF CacheConsistent, IdleNames, PMTypeOK
<1>8. busyProcesses' = busyProcesses \cup {m} /\ Cached' = (Cached \ {n}) \cup {m}
  BY <1>5, <1>6, <1>7 DEF Cached
<1>9. object'[m] = p /\ \A k \in Names \ {n, m} : object'[k] = object[k]
  BY <1>0, <1>4, <1>5, SMTT(30) DEF PMTypeOK
<1>10. \A k \in Cached \ {n} : object'[k] = object[k] /\ object[k] \in Procs \ {p}
  <2> SUFFICES ASSUME NEW k \in Cached \ {n}
               PROVE  object'[k] = object[k] /\ object[k] \in Procs \ {p}
    OBVIOUS
  <2>1. k \in Names \ {n, m}
    BY <1>3, <1>4, SMTT(30)
  <2>2. object[k] # object[n]
    BY <1>0, <1>6, SMTT(30) DEF CacheConsistent
  <2> QED BY <1>0, <1>3, <1>9, <2>1, <2>2, Zenon DEF PMTypeOK
<1>11. \A h \in Groups \ {o} : n \notin processGroups[h]
  BY <1>0, <1>3, <1>4, SMTT(30) DEF CacheConsistent
<1>12. /\ \A h \in Groups \ {g} : processGroups'[h] = processGroups[h] \ {n}
       /\ processGroups'[g] = (processGroups[g] \ {n}) \cup {m}
  <2>1. CASE o = g
    BY <1>0, <1>4, <1>5, <1>11, <2>1, SMTT(30) DEF PMTypeOK
  <2>2. CASE o # g
    BY <1>0, <1>4, <1>5, <1>11, <2>2, Zenon DEF PMTypeOK
  <2> QED BY <2>1, <2>2, SMTT(30)
<1> QED
  BY <1>1, <1>3, <1>4, <1>5, <1>6, <1>7, <1>8, <1>9, <1>10, <1>12, Zenon DEF n, m

\* The names after ChangeSandbox succeeded.
LEMMA ChangeNames ==
    ASSUME AllInv, NEW p \in Procs, ChangeSucceeds(p)
    PROVE  NamesInv'
<1> DEFINE n == call[p].oldName
           m == processName[p]
           g == requestGroup[p]
<1>0. /\ TypeOK /\ ProcTypeOK /\ PMTypeOK /\ CallInv /\ NameInv /\ ExitMsgInv
  BY DEF AllInv, TypeInv, TypeOK, NamesInv
<1>1. /\ n \in IdleNames /\ n \notin busyProcesses /\ object[n] = p
      /\ m \in Names \ Cached /\ g \in Groups
      /\ IdleNames' = IdleNames \ {n} /\ Cached' = (Cached \ {n}) \cup {m}
      /\ object'[m] = p
      /\ \A k \in Cached \ {n} : object'[k] = object[k] /\ object[k] \in Procs \ {p}
      /\ \A h \in Groups \ {g} : processGroups'[h] = processGroups[h] \ {n}
      /\ processGroups'[g] = (processGroups[g] \ {n}) \cup {m}
  BY ChangeMoves, Zenon
<1>2. /\ UNCHANGED <<processName, requestGroup, sandbox, listener, cmdReadyCh, eventCh>>
      /\ call' = [call EXCEPT ![p] = NoCall]
      /\ \A q \in Procs \ {p} : processState'[q] = processState[q]
  BY <1>0, Zenon DEF ChangeSucceeds, CallDone, ProcTypeOK
<1>3. call'[p] = NoCall /\ \A q \in Procs \ {p} : call'[q] = call[q]
  BY <1>0, <1>2, SMTT(30) DEF ProcTypeOK
<1>4. n \in Cached /\ InUse(p) /\ processName[p] = m
  BY <1>1, Zenon DEF Cached, InUse
<1> HIDE DEF n, m, g
<1>5. \A h \in Groups : processGroups[h] \ {n} \subseteq processGroups'[h]
  BY <1>1, SMTT(30)
<1>6. \A q \in Procs \ {p} : /\ InUse(q)' => InUse(q)
                             /\ Dead(q)' <=> Dead(q)
                             /\ Resetting(q)' <=> Resetting(q)
  <2>1. \A q \in Procs \ {p} : (Dead(q)' <=> Dead(q)) /\ (Resetting(q)' <=> Resetting(q))
    BY <1>2, <1>3, SMTT(30) DEF Dead, Resetting
  <2>2. \A q \in Procs \ {p} : (\E k \in Cached' : object'[k] = q)
                                  => \E k \in Cached : object[k] = q
    BY <1>1, Zenon
  <2> QED BY <1>2, <2>1, <2>2, Zenon DEF InUse
<1>7. \A q \in Procs \ {p} : InUse(q) => processName[q] # m
  BY <1>0, <1>4, Zenon DEF NameInv
<1>8. CallInv'
  <2> SUFFICES ASSUME NEW q \in Procs, call'[q] # NoCall
               PROVE  CallOK(q)'
    BY DEF CallInv
  <2>1. q # p /\ call'[q] = call[q] /\ CallOK(q)
    BY <1>0, <1>3, SMTT(30) DEF CallInv
  <2>2. InUse(q) /\ \E k \in Cached \ {n} : object[k] = q
    BY <1>1, <2>1, Zenon DEF CallOK, InUse
  <2>3. \E k \in Cached' : object'[k] = q
    BY <1>1, <2>2, Zenon
  <2>4. Matches(q) => Matches(q)'
    <3>1. call[q].oldGroup \in Groups
      BY <1>0, <2>1, CallFields, Zenon
    <3> QED BY <1>1, <1>5, <2>1, <3>1, Zenon DEF Matches, Cached
  <2>5. processName[q] \notin Cached => processName[q] \notin Cached'
    BY <1>1, <1>7, <2>1, <2>2, Zenon
  <2> QED BY <1>2, <1>6, <2>1, <2>3, <2>4, <2>5, Zenon DEF CallOK
<1>9. NameInv'
  <2>1. \A q, r \in Procs : InUse(q)' /\ InUse(r)' /\ processName[q] = processName[r]
                              => q = r
    BY <1>0, <1>4, <1>6, Zenon DEF NameInv
  <2>2. ASSUME NEW q \in Procs, InUse(q)', processName[q] \in Cached'
        PROVE  /\ object'[processName[q]] = q
               /\ processName[q] \in processGroups'[requestGroup[q]]
    <3>1. CASE q = p
      BY <1>1, <1>4, <3>1, SMTT(30) DEF g
    <3>2. CASE q # p
      <4>1. InUse(q) /\ processName[q] \in Cached \ {n} /\ requestGroup[q] \in Groups
        BY <1>0, <1>1, <1>6, <1>7, <2>2, <3>2, Zenon DEF ProcTypeOK
      <4> QED BY <1>0, <1>1, <1>5, <4>1, Zenon DEF NameInv
    <3> QED BY <3>1, <3>2, SMTT(30)
  <2>3. ASSUME NEW k \in Cached'
        PROVE  \/ processName[object'[k]] = k
               \/ Dead(object[k])' \/ Resetting(object[k])'
    <3>1. CASE k = m
      BY <1>1, <1>4, <3>1, Zenon
    <3>2. CASE k # m
      <4>1. k \in Cached \ {n} /\ object'[k] = object[k] /\ object[k] \in Procs \ {p}
        BY <1>1, <3>2, Zenon
      <4>2. processName[object[k]] = k \/ Dead(object[k]) \/ Resetting(object[k])
        BY <1>0, <4>1, SMTT(30) DEF NameInv
      <4> QED BY <1>2, <1>3, <4>1, <4>2, Zenon DEF Dead, Resetting
    <3> QED BY <3>1, <3>2, Zenon
  <2> QED BY <1>2, <2>1, <2>2, <2>3, Zenon DEF NameInv
<1>10. ExitMsgInv'
  <2> SUFFICES ASSUME NEW e \in Elements(eventCh), e.type = "exit"
               PROVE  /\ e.name \in Cached' => e.name \in processGroups'[e.group]
                      /\ \A q \in Procs : InUse(q)' /\ processName[q] = e.name
                                            => requestGroup[q] = e.group
    BY <1>2, Zenon DEF ExitMsgInv
  <2>1. e.group \in Groups
    BY <1>0, HelperTypes, Zenon DEF Messages
  <2>2. \A q \in Procs : InUse(q) /\ processName[q] = e.name => requestGroup[q] = e.group
    BY <1>0, SMTT(30) DEF ExitMsgInv
  <2>3. e.name = m => e.group = g
    BY <1>4, <2>2, SMTT(30) DEF g
  <2> QED BY <1>0, <1>1, <1>4, <1>5, <1>6, <2>1, <2>2, <2>3, Zenon DEF ExitMsgInv
<1> QED BY <1>8, <1>9, <1>10 DEF NamesInv

\* The caches after ChangeSandbox succeeded.
LEMMA ChangeCache ==
    ASSUME AllInv, NEW p \in Procs, ChangeSucceeds(p)
    PROVE  CacheInv'
<1> DEFINE n == call[p].oldName
           m == processName[p]
           g == requestGroup[p]
<1>0. /\ PMTypeOK /\ IsFiniteSet(busyProcesses)
      /\ CacheConsistent /\ WithinLimit /\ UsersExclusive /\ UserCount
  BY DEF AllInv, TypeInv, TypeOK, FiniteCaches, CacheInv
<1>1. /\ n \in IdleNames /\ n \notin busyProcesses /\ object[n] = p
      /\ m \in Names \ Cached /\ g \in Groups
      /\ idleProcesses' = Without(idleProcesses, n)
      /\ busyProcesses' = busyProcesses \cup {m}
      /\ IsDistinct(idleProcesses') /\ IdleNames' = IdleNames \ {n}
      /\ Cached' = (Cached \ {n}) \cup {m}
      /\ object'[m] = p
      /\ \A k \in Cached \ {n} : object'[k] = object[k] /\ object[k] \in Procs \ {p}
      /\ \A h \in Groups \ {g} : processGroups'[h] = processGroups[h] \ {n}
      /\ processGroups'[g] = (processGroups[g] \ {n}) \cup {m}
  BY ChangeMoves, Zenon
<1>2. UNCHANGED <<freeUsers, user, create>>
  BY Zenon DEF ChangeSucceeds
<1> HIDE DEF n, m, g
<1>3. n \in Cached /\ m \notin IdleNames /\ m \notin busyProcesses
  BY <1>1, Zenon DEF Cached
<1>4. CacheConsistent'
  <2>1. IdleNames' \cap busyProcesses' = {}
    BY <1>0, <1>1, <1>3, SMTT(30) DEF CacheConsistent
  <2>2. /\ \A h \in Groups : processGroups'[h] \subseteq Cached'
        /\ \A k \in Cached' : \E h \in Groups : k \in processGroups'[h]
    BY <1>0, <1>1, SMTT(30) DEF CacheConsistent
  <2>3. ASSUME NEW h \in Groups, NEW i \in Groups, h # i
        PROVE  processGroups'[h] \cap processGroups'[i] = {}
    <3>1. processGroups[h] \cap processGroups[i] = {}
          /\ m \notin processGroups[h] /\ m \notin processGroups[i]
      BY <1>0, <1>1, <2>3, Zenon DEF CacheConsistent
    <3> QED BY <1>1, <2>3, <3>1, SMTT(30)
  <2>4. \A k, l \in Cached' : object'[k] = object'[l] => k = l
    <3>1. \A k, l \in Cached \ {n} : object'[k] = object'[l] => k = l
      BY <1>0, <1>1, Zenon DEF CacheConsistent
    <3> QED BY <1>1, <3>1, Zenon
  <2> QED BY <1>1, <2>1, <2>2, <2>3, <2>4, Zenon DEF CacheConsistent
<1>5. UsersExclusive'
  <2>1. \A k \in Cached' : \E l \in Cached : /\ object'[k] = object[l]
                                             /\ k = m => l = n
                                             /\ k # m => l = k
    BY <1>1, <1>3, Zenon
  <2>2. \A k \in Cached' : user[object'[k]] \notin Elements(freeUsers)
    BY <1>0, <2>1, SMTT(30) DEF UsersExclusive
  <2>3. \A k, l \in Cached' : user[object'[k]] = user[object'[l]] => k = l
    <3>1. \A k, l \in Cached \ {n} : user[object'[k]] = user[object'[l]] => k = l
      BY <1>0, <1>1, ZenonT(30) DEF UsersExclusive
    <3>2. \A k \in Cached \ {n} : user[object'[k]] # user[p]
      BY <1>0, <1>1, <1>3, SMTT(30) DEF UsersExclusive
    <3> QED BY <1>1, <3>1, <3>2, ZenonT(30)
  <2> QED BY <1>0, <1>2, <2>2, <2>3, Zenon DEF UsersExclusive
<1>6. /\ Len(idleProcesses) \in Nat /\ Len(idleProcesses') = Len(idleProcesses) - 1
      /\ Len(create) \in Nat /\ Len(freeUsers) \in Nat
  BY <1>0, <1>1, WithoutFacts, SMTT(30) DEF IdleNames, PMTypeOK
<1>7. /\ Cardinality(busyProcesses) \in Nat
      /\ Cardinality(busyProcesses') = Cardinality(busyProcesses) + 1
  BY <1>0, <1>1, <1>3, FS_AddElement, FS_CardinalityType, Zenon
<1>8. WithinLimit' /\ UserCount'
  <2>1. MaxProcessNum \in Nat
    BY ConstantsAssumption
  <2> QED BY <1>0, <1>2, <1>6, <1>7, <2>1, SMTT(30) DEF WithinLimit, UserCount
<1> QED BY <1>4, <1>5, <1>8 DEF CacheInv

\* CloseSandbox succeeded: the process is forgotten under the name it is cached
\* under.
LEMMA CloseInv ==
    ASSUME AllInv, NEW p \in Procs, CloseSucceeds(p)
    PROVE  NamesInv' /\ CacheInv'
<1>0. TypeOK /\ ProcTypeOK /\ CallInv
  BY DEF AllInv, TypeInv, TypeOK, NamesInv
<1>1. /\ call[p].at = "killed" /\ call[p].to = Close /\ call[p] # NoCall
      /\ ~Resetting(p)
  BY SMTT(30) DEF CloseSucceeds, Resetting, NoCall
<1>2. CallOK(p)
  BY <1>0, <1>1, SMTT(30) DEF CallInv
<1>3. /\ processName[p] \in Cached /\ object[processName[p]] = p
      /\ requestGroup[p] \in Groups
      /\ processName[p] \in processGroups[requestGroup[p]]
  BY <1>0, <1>1, <1>2, Zenon DEF CallOK, Matches, Cached, ProcTypeOK
<1>4. /\ closeSandbox(requestGroup[p], processName[p])
      /\ UNCHANGED <<processName, requestGroup, sandbox, listener, cmdReadyCh, eventCh>>
      /\ UNCHANGED <<user, create>>
      /\ call' = [call EXCEPT ![p] = NoCall]
      /\ \A q \in Procs \ {p} : processState'[q] = processState[q]
  BY <1>0, SMTT(30) DEF CloseSucceeds, CallDone, ProcTypeOK
<1>5. call'[p] = NoCall /\ \A q \in Procs \ {p} : call'[q] = call[q]
  BY <1>0, <1>4, SMTT(30) DEF ProcTypeOK
<1> QED BY <1>3, <1>4, <1>5, CloseNames, CloseCache, ZenonT(30)

\* All steps of a call.
LEMMA CallStepInv ==
    ASSUME AllInv, NEW p \in Procs, CallStep(p)
    PROVE  NamesInv' /\ CacheInv'
<1>0. ProcTypeOK
  BY DEF AllInv, TypeInv, TypeOK
<1>1. ASSUME UNCHANGED <<pmVars, groupVars, faults>>
      PROVE  CacheInv'
  BY <1>1, QuietCache DEF pmVars, cacheVars
<1>2. CASE CallCheck(p) /\ UNCHANGED <<pmVars, groupVars, faults>>
  <2>1. UNCHANGED <<procVarsButCall, cacheVars, eventCh>> /\ call[p].at = "enter"
    BY <1>2 DEF CallCheck, pmVars, procVarsButCall, cacheVars
  <2>2. \/ call' = [call EXCEPT ![p] = NoCall]
        \/ call' = [call EXCEPT ![p] = [@ EXCEPT !.at = "checked"]]
    BY <1>2, Zenon DEF CallCheck
  <2> QED BY <1>1, <1>2, <2>1, <2>2, CheckNames
<1>3. CASE /\ CallReset(p, CHOOSE n \in FreshNames : TRUE) /\ FreshNames # {}
           /\ UNCHANGED <<pmVars, groupVars, faults>>
  BY <1>1, <1>3, ResetNames
<1>4. CASE CallKill(p) /\ UNCHANGED <<pmVars, groupVars, faults>>
  BY <1>1, <1>4, KillNames
<1>5. CASE MeetSameProcess(p)
  <2>1. /\ UNCHANGED <<procVarsButCall, cacheVars, eventCh, freeUsers, user, create>>
        /\ call[p].at = "enter" /\ call' = [call EXCEPT ![p] = NoCall]
    BY <1>5, SMTT(30) DEF MeetSameProcess
  <2> QED BY <2>1, CheckNames, QuietCache, Zenon
<1>6. CASE ChangeSucceeds(p)
  BY <1>6, ChangeNames, ChangeCache
<1>7. CASE CloseSucceeds(p)
  BY <1>7, CloseInv
<1> QED BY <1>2, <1>3, <1>4, <1>5, <1>6, <1>7, SMTT(30) DEF CallStep

-----------------------------------------------------------------------------
(* The invariant.                                                          *)

\* The queue of the user manager holds each user once.
LEMMA DistinctQueue == IsDistinct(UserQueue)
<1> DEFINE S == 1 .. Len(UserQueue)
<1>1. /\ UserQueue \in [S -> Users] /\ DOMAIN UserQueue = S /\ Len(UserQueue) \in Nat
      /\ Elements(UserQueue) = Users /\ Len(UserQueue) = Cardinality(Users)
  BY PoolAssumption
<1>2. IsFiniteSet(S) /\ Cardinality(S) = Cardinality(Users)
  <2>1. IsFiniteSet(S) /\ Cardinality(S) = IF 1 > Len(UserQueue) THEN 0
                                           ELSE Len(UserQueue) - 1 + 1
    BY <1>1, FS_Interval, SMTT(30)
  <2> QED BY <1>1, <2>1
<1> HIDE DEF S
<1>3. UserQueue \in Surjection(S, Users)
  BY <1>1 DEF Surjection, Elements
<1>4. UserQueue \in Injection(S, Users)
  BY <1>2, <1>3, FS_SurjSameCardinalityImpliesInj
<1> QED BY <1>1, <1>4 DEF Injection, IsInjective, IsDistinct

\* The engine starts with empty caches and all users free.
LEMMA InitInv == Init => NamesInv /\ CacheInv
<1> SUFFICES ASSUME Init
             PROVE  NamesInv /\ CacheInv
  OBVIOUS
<1>1. /\ idleProcesses = << >> /\ busyProcesses = {} /\ eventCh = << >>
      /\ create = << >> /\ freeUsers = UserQueue
      /\ processGroups = [g \in Groups |-> {}] /\ call = [p \in Procs |-> NoCall]
      /\ listener = [p \in Procs |-> "off"] /\ sandbox = [p \in Procs |-> "off"]
  BY DEF Init, ProcInit, PMInit
<1>2. Cached = {} /\ IdleNames = {} /\ Elements(eventCh) = {}
  BY <1>1 DEF Cached, IdleNames, Elements
<1>3. \A p \in Procs : ~InUse(p) /\ call[p] = NoCall
  BY <1>1, <1>2, Zenon DEF InUse
<1>4. NamesInv
  BY <1>2, <1>3, SMTT(30) DEF NamesInv, CallInv, NameInv, ExitMsgInv
<1>5. Len(idleProcesses) = 0 /\ Cardinality(busyProcesses) = 0 /\ Len(create) = 0
  BY <1>1, FS_EmptySet
<1>6. IsDistinct(UserQueue) /\ Len(UserQueue) \in Nat /\ MaxProcessNum \in Nat
  <2>1. UserQueue \in Seq(Users) /\ MaxProcessNum \in Nat
    BY PoolAssumption, ConstantsAssumption
  <2>2. IsDistinct(UserQueue)
    BY DistinctQueue
  <2> QED BY <2>1, <2>2
<1>7. CacheConsistent
  BY <1>1, <1>2, SMTT(30) DEF CacheConsistent, IsDistinct
<1>8. WithinLimit /\ UsersExclusive /\ UserCount
  BY <1>1, <1>2, <1>5, <1>6, SMTT(30) DEF WithinLimit, UsersExclusive, UserCount
<1> QED BY <1>4, <1>7, <1>8 DEF CacheInv

\* It is preserved by every step.
LEMMA AllInvInductive == (Init => AllInv) /\ (AllInv /\ [Next]_vars => AllInv')
<1>1. Init => AllInv
  BY InitInv, TypeInvInductive DEF AllInv
<1>2. ASSUME AllInv, [Next]_vars
      PROVE  AllInv'
  <2>1. TypeInv'
    BY <1>2, TypeInvInductive DEF AllInv
  <2>2. CASE UNCHANGED vars
    <3>1. QuietStep /\ UNCHANGED pmVars
      BY <2>2, Zenon DEF vars, procVars, QuietStep, Active, Dead
    <3> QED BY <1>2, <2>1, <3>1, QuietPreserves DEF AllInv
  <2>3. ASSUME NEW p \in Procs, ProcessStep(p)
        PROVE  NamesInv' /\ CacheInv'
    BY <1>2, <2>3, ProcessInv
  <2>4. ASSUME NEW p \in Procs, CallStep(p)
        PROVE  NamesInv' /\ CacheInv'
    BY <1>2, <2>4, CallStepInv
  <2>5. ASSUME NEW p \in Procs, FaultStep(p)
        PROVE  NamesInv' /\ CacheInv'
    BY <1>2, <2>5, FaultInv
  <2>6. CASE ManagerStep
    BY <1>2, <2>1, <2>6, ManagerInv DEF AllInv
  <2>7. ASSUME NEW g \in Groups, GroupStep(g)
        PROVE  NamesInv' /\ CacheInv'
    BY <1>2, <2>7, GroupInv
  <2> QED BY <1>2, <2>1, <2>2, <2>3, <2>4, <2>5, <2>6, <2>7, SMTT(30) DEF Next, AllInv
<1> QED BY <1>1, <1>2

\* PoolInv is the same conjunction.
LEMMA AllInvIsPoolInv == AllInv <=> PoolInv
BY DEF AllInv, TypeInv, NamesInv, CacheInv, PoolInv

-----------------------------------------------------------------------------
(* The theorems.                                                           *)

\* The inductive invariant of the pool: whatever the handlers of the process
\* manager, the goroutines of the processes, crashes, failed launches and exits
\* handled in the middle of a ChangeSandbox or CloseSandbox call do.
THEOREM PoolInvariant == Spec => []PoolInv
<1>1. Spec => []AllInv
  BY AllInvInductive, PTL DEF Spec
<1> QED BY <1>1, AllInvIsPoolInv, PTL

\* idleProcesses, busyProcesses and processGroups agree between any two steps of
\* addProcessToCache, removeProcessFromCache and ChangeProcessState.
THEOREM CachesConsistent == Spec => []CacheConsistent
<1>1. PoolInv => CacheConsistent
  BY DEF PoolInv
<1> QED BY <1>1, PoolInvariant, PTL

\* The process manager never holds more than maxProcessNum processes, for any
\* number of processes, groups and waiting requests.
THEOREM ProcessLimit == Spec => []WithinLimit
<1>1. PoolInv => WithinLimit
  BY DEF PoolInv
<1> QED BY <1>1, PoolInvariant, PTL

\* Two cached processes never have the same Linux user.
THEOREM ExclusiveUsers == Spec => []UsersExclusive
<1>1. PoolInv => UsersExclusive
  BY DEF PoolInv
<1> QED BY <1>1, PoolInvariant, PTL

\* GetAvailableUser never blocks the process manager: there is a free user for
\* every process that is about to be created.
THEOREM UsersSuffice == Spec => []UserAvailable
<1>1. PoolInv => UserAvailable
  <2> SUFFICES ASSUME PoolInv
               PROVE  UserAvailable
    OBVIOUS
  <2>1. /\ Len(idleProcesses) \in Nat /\ Len(create) \in Nat /\ Len(freeUsers) \in Nat
        /\ Cardinality(busyProcesses) \in Nat
    BY FS_CardinalityType, SMTT(30) DEF PoolInv, TypeOK, PMTypeOK, FiniteCaches
  <2>2. Len(UserQueue) = Cardinality(Users) /\ Cardinality(Users) >= MaxProcessNum
        /\ Cardinality(Users) \in Nat /\ MaxProcessNum \in Nat
    BY PoolAssumption, UsersAssumption, ConstantsAssumption, FS_CardinalityType, SMTT(30)
  <2>3. /\ Len(idleProcesses) + Cardinality(busyProcesses) + Len(create)
             <= MaxProcessNum
        /\ Len(freeUsers) + Len(idleProcesses) + Cardinality(busyProcesses)
             = Len(UserQueue)
    BY DEF PoolInv, WithinLimit, UserCount
  <2> QED BY <2>1, <2>2, <2>3 DEF UserAvailable
<1> QED BY <1>1, PoolInvariant, PTL

=============================================================================
