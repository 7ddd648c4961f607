---------------------------- MODULE UserManager ----------------------------
(***************************************************************************)
(* The user manager of the engine (core/user_manager.go) with its callers: *)
(* the two process managers, which run from NewManager on, and the         *)
(* goroutines of BatchCreateUsers, which InitContainer starts after them.  *)
(* A creator is named by its user.                                         *)
(***************************************************************************)
EXTENDS FixedFIFO, FiniteSets

CONSTANTS
    Users,          \* the uids from _baseUid on, GetMaxUserNum of them
    Managers,       \* the managers of original and cross processes
    Quota,          \* Quota[m]: maxProcessNum of m
    MayFailLookup   \* LookupId may fail for another reason than "unknown"

ASSUME CallersAssumption ==
    /\ Users \cup Managers = Threads /\ Users \cap Managers = {}
    /\ Quota \in [Managers -> Nat]
    /\ IsFiniteSet(Users) /\ Users # {} /\ Managers # {}
    /\ Capacity = Cardinality(Users) /\ WaitCapacity \in Nat

VARIABLES
    exists,         \* users the operating system knows
    creator,        \* creator[u]: where the goroutine of generateNewUser is
    held            \* held[m]: the users of the processes of m

vars == <<fifoVars, exists, creator, held>>

\* exists: what an earlier life of the container left.
Init ==
    /\ FIFOInit
    /\ at = [t \in Threads |-> "out"]
    /\ val = [t \in Threads |-> CHOOSE u \in Users : TRUE]
    /\ listener = [t \in Threads |-> CHOOSE m \in Managers : TRUE]
    /\ exists \in SUBSET Users
    /\ creator = [u \in Users |-> "lookup"]
    /\ held = [m \in Managers |-> {}]

-----------------------------------------------------------------------------
(* generateNewUser.                                                        *)

LookupUser(u) ==
    /\ creator[u] = "lookup"
    /\ creator' = [creator EXCEPT ![u] = IF u \in exists THEN "enqueue" ELSE "add"]
    /\ UNCHANGED <<fifoVars, exists, held>>

\* The error is logged; BatchCreateUsers returns nil all the same.
LookupFails(u) ==
    /\ MayFailLookup
    /\ creator[u] = "lookup"
    /\ creator' = [creator EXCEPT ![u] = "failed"]
    /\ UNCHANGED <<fifoVars, exists, held>>

\* useradd, which is repeated until it succeeds.
AddUser(u) ==
    /\ creator[u] = "add"
    /\ exists' = exists \cup {u}
    /\ creator' = [creator EXCEPT ![u] = "enqueue"]
    /\ UNCHANGED <<fifoVars, held>>

EnqueueNew(u) ==
    /\ creator[u] = "enqueue"
    /\ Enqueue(u, u)
    /\ creator' = [creator EXCEPT ![u] = "done"]
    /\ UNCHANGED <<exists, held>>

-----------------------------------------------------------------------------
(* The calls of a process manager, which holds its lock during them.       *)

\* Mutant: the limit is tested after the process was counted.
GetAvailableUser_OneMore(m) ==
    /\ Cardinality(held[m]) <= Quota[m]
    /\ Dequeue(m)
    /\ UNCHANGED <<exists, creator, held>>

\* createNewProcess: only below the limit.
GetAvailableUser(m) ==
    /\ Cardinality(held[m]) < Quota[m]
    /\ Dequeue(m)
    /\ UNCHANGED <<exists, creator, held>>

\* closeSandbox: the user of an ended process.
FreeUser(m) ==
    /\ \E u \in held[m] :
        /\ Enqueue(m, u)
        /\ held' = [held EXCEPT ![m] = @ \ {u}]
    /\ UNCHANGED <<exists, creator>>

-----------------------------------------------------------------------------
(* The steps inside of the queue.                                          *)

ReceiveUser(m) ==
    /\ Receive(m)
    /\ held' = [held EXCEPT ![m] = @ \cup {Head(queue)}]
    /\ UNCHANGED <<exists, creator>>

HandUser(t) ==
    /\ Hand(t)
    /\ held' = [held EXCEPT ![listener[t]] = @ \cup {val[t]}]
    /\ UNCHANGED <<exists, creator>>

QueueStep(t) ==
    /\ TakeListener(t) \/ NoListener(t) \/ SendToQueue(t) \/ Empty(t) \/ Register(t)
    /\ UNCHANGED <<exists, creator, held>>

Create(u) == LookupUser(u) \/ LookupFails(u) \/ AddUser(u) \/ EnqueueNew(u)

Next ==
    \/ \E u \in Users : Create(u)
    \/ \E m \in Managers : GetAvailableUser(m) \/ FreeUser(m) \/ ReceiveUser(m)
    \/ \E t \in Threads : HandUser(t) \/ QueueStep(t)

Spec == Init /\ [][Next]_vars

\* A goroutine inside of a call goes on; when a process is created or ends is
\* not the manager's choice.
Fairness ==
    /\ \A u \in Users : WF_vars(Create(u))
    /\ \A m \in Managers : WF_vars(ReceiveUser(m))
    /\ \A t \in Threads : WF_vars(HandUser(t)) /\ WF_vars(QueueStep(t))

FairSpec == Spec /\ Fairness

-----------------------------------------------------------------------------
(* Properties.                                                             *)

\* Every user was created, and its Enqueue has returned.
AllCreated == \A u \in Users : creator[u] = "done" /\ at[u] = "out"

\* Once BatchCreateUsers is through, GetAvailableUser never finds the queue
\* empty, although both managers take users from it: their limits together are
\* GetMaxUserNum.  A manager would wait with its lock held, unable to free the
\* users of its own processes.
NeverEmptyOnceCreated ==
    [][\A m \in Managers : AllCreated /\ at[m] = "dequeue" => at'[m] # "register"]_vars

\* FreeUser and generateNewUser never fail for want of room in the queue, which
\* would lose the user: the queue is as large as there are users.
NeverFull == \A t \in Threads : at[t] # "failed"

\* "waits until the next element gets enqueued and returns it": a manager that
\* asks for a user gets one, when every user is created in the end.
GetReturns ==
    \A m \in Managers : at[m] = "dequeue" ~> at[m] = "out"

Elements(s) == {s[i] : i \in 1..Len(s)}

\* The users that a manager is about to free are still its own; a user is free
\* from the moment Enqueue has taken a listener or put it into the queue.
Freeing(m) == IF at[m] \in {"enqueue", "queueing"} THEN {val[m]} ELSE {}

Handing == {val[t] : t \in {x \in Threads : at[x] = "handing"}}

Pool == INSTANCE UserPool WITH
            free <- Elements(queue) \cup Handing,
            held <- [m \in Managers |-> held[m] \cup Freeing(m)]

\* The user manager implements the pool: whatever the order of concurrent
\* calls, a user that was created is either free or with one manager, and none
\* is lost, returned twice or given to two processes.
ImplementsPool == Pool!Spec

=============================================================================
