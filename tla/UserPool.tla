------------------------------ MODULE UserPool ------------------------------
(***************************************************************************)
(* What the user manager promises to the process managers: a pool of Linux *)
(* users, each of them free or with one manager, for one of its processes. *)
(***************************************************************************)
CONSTANTS Users, Managers

VARIABLES
    free,       \* users nobody has
    held        \* held[m]: the users of the processes of m

poolVars == <<free, held>>

Known == free \cup UNION {held[m] : m \in Managers}

Init == free = {} /\ held = [m \in Managers |-> {}]

Create(u) ==
    /\ u \notin Known
    /\ free' = free \cup {u}
    /\ UNCHANGED held

Get(m, u) ==
    /\ u \in free
    /\ free' = free \ {u}
    /\ held' = [held EXCEPT ![m] = @ \cup {u}]

Free(m, u) ==
    /\ u \in held[m]
    /\ held' = [held EXCEPT ![m] = @ \ {u}]
    /\ free' = free \cup {u}

Next == \E u \in Users : Create(u) \/ \E m \in Managers : Get(m, u) \/ Free(m, u)

Spec == Init /\ [][Next]_poolVars

=============================================================================
