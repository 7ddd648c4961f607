---------------------------- MODULE TxDuration ----------------------------
(***************************************************************************)
(* The statistics of a transaction in a block (utils/time_statics.go): a   *)
(* tree of the Invokes that ran under its id, each with the number of its  *)
(* system calls.  Times and the separate counters of bytecode requests and *)
(* cross-contract calls are left out.                                      *)
(***************************************************************************)
EXTENDS Naturals, Sequences

CONSTANT Nodes      \* 1 .. the number of Invokes

VARIABLES
    root,           \* b.txs[OriginalTxId], 0 when there is none
    CrossCallList, Sealed, SysCallCnt

durationVars == <<root, CrossCallList, Sealed, SysCallCnt>>

DurationInit ==
    /\ root = 0
    /\ CrossCallList = [n \in Nodes |-> <<>>]
    /\ Sealed = {}
    /\ SysCallCnt = [n \in Nodes |-> 0]

\* The first node that is not sealed leads to the caller.
getCallerNode[e \in Nodes] ==
    LET open == SelectSeq(CrossCallList[e], LAMBDA item : item \notin Sealed)
    IN IF open = <<>> THEN e ELSE getCallerNode[Head(open)]

AddTxDuration(n) ==
    /\ IF root = 0
       THEN root' = n /\ UNCHANGED CrossCallList
       ELSE /\ CrossCallList' = [CrossCallList EXCEPT ![getCallerNode[root]] = Append(@, n)]
            /\ UNCHANGED root
    /\ UNCHANGED <<Sealed, SysCallCnt>>

EndSysCall(n) ==
    /\ SysCallCnt' = [SysCallCnt EXCEPT ![n] = @ + 1]
    /\ UNCHANGED <<root, CrossCallList, Sealed>>

\* Mutant: the node stays open.
FinishTx_NotSealed(n) ==
    /\ SysCallCnt' = [SysCallCnt EXCEPT ![root] = @ + SysCallCnt[n]]
    /\ UNCHANGED <<root, CrossCallList, Sealed>>

\* Mutant: the counter of the root is replaced.
FinishTx_Replaces(n) ==
    /\ Sealed' = Sealed \cup {n}
    /\ SysCallCnt' = [SysCallCnt EXCEPT ![root] = SysCallCnt[n]]
    /\ UNCHANGED <<root, CrossCallList>>

\* Seal and FinishTxDuration; the root is added to itself, too.
FinishTx(n) ==
    /\ Sealed' = Sealed \cup {n}
    /\ SysCallCnt' = [SysCallCnt EXCEPT ![root] = @ + SysCallCnt[n]]
    /\ UNCHANGED <<root, CrossCallList>>

=============================================================================
