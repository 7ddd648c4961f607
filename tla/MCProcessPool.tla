--------------------------- MODULE MCProcessPool ---------------------------
(* Instances of ProcessPool for TLC.                                       *)
EXTENDS ProcessPool, TLC

CONSTANTS g1, g2, u1, u2

\* Two groups of different contracts with one or two transactions each.
MCContract == [g \in Groups |-> g]

MCUserQueue1 == <<u1>>
MCUserQueue2 == <<u1, u2>>
MCLoad11 == [g \in Groups |-> 1]
MCLoad21 == [g \in Groups |-> IF g = g1 THEN 2 ELSE 1]

GroupSymmetry == Permutations(Groups)

\* What TLC compares states by: the fields of a garbage Process object, which
\* NewProcess overwrites, and the selected group of a listener that is not at
\* the idle select, which is written before it is read, do not count.
View ==
    << [p \in Procs |->
          IF p \in FreeProcs /\ call[p] = NoCall THEN << >>
          ELSE <<processState[p], processName[p], requestGroup[p], sandbox[p],
                 watched[p], exitCh[p], cmdReadyCh[p], updateCh[p], listener[p],
                 IF listener[p] \in {"idle", "waking", "woken"} THEN selected[p]
                                                               ELSE requestGroup[p],
                 arg[p], call[p], user[p]>>],
       idleProcesses, busyProcesses, object, processGroups, waitingRequestGroups,
       eventCh, allocateIdleCh, allocateNewCh, cleanTimer, freeUsers, replies, op,
       request, allocated, create, groupVars, faults>>
=============================================================================
