------------------------- MODULE UserManagerProofs -------------------------
(***************************************************************************)
(* The user manager implements the pool of users, for every number of      *)
(* users, managers and waiting calls.                                      *)
(***************************************************************************)
EXTENDS UserManager, FiniteSetTheorems, TLAPS

\* A thread in Enqueue has its user with it until it is handed or queued.
Carrying(t) == at[t] \in {"enqueue", "queueing", "handing"}

IsDistinct(s) == \A i, j \in 1..Len(s) : s[i] = s[j] => i = j

UserTypes ==
    /\ queue \in Seq(Users) /\ waiters \in Seq(Managers)
    /\ at \in [Threads -> {"out", "enqueue", "queueing", "handing",
                           "dequeue", "register", "waiting"}]
    /\ val \in [Threads -> Users] /\ listener \in [Threads -> Managers]
    /\ creator \in [Users -> {"lookup", "add", "enqueue", "failed", "done"}]
    /\ held \in [Managers -> SUBSET Users]

\* A creator makes one call, Enqueue of its own user.
CreatorInv ==
    \A u \in Users : /\ at[u] \in {"out", "enqueue", "queueing", "handing"}
                     /\ Carrying(u) => val[u] = u /\ creator[u] = "done"

\* A user is in one place: not created yet, in the queue, carried by one thread,
\* or with one manager.
OnePlace ==
    /\ IsDistinct(queue)
    /\ \A s, t \in Threads : Carrying(s) /\ Carrying(t) /\ val[s] = val[t] => s = t
    /\ \A t \in Threads : Carrying(t) => val[t] \notin Elements(queue)
    /\ \A t \in Threads, m \in Managers : Carrying(t) => val[t] \notin held[m]
    /\ \A m \in Managers : held[m] \cap Elements(queue) = {}
    /\ \A m, n \in Managers : m # n => held[m] \cap held[n] = {}

NotCreated ==
    \A u \in Users : creator[u] # "done" =>
        /\ u \notin Elements(queue)
        /\ \A m \in Managers : u \notin held[m]
        /\ \A t \in Threads : Carrying(t) => val[t] # u

UserInv == UserTypes /\ CreatorInv /\ OnePlace /\ NotCreated

-----------------------------------------------------------------------------
(* The queue.                                                              *)

\* What a send to the queue and a receive from it do to its elements.
LEMMA QueueFacts ==
    ASSUME NEW s \in Seq(Users), IsDistinct(s)
    PROVE  /\ \A u \in Users \ Elements(s) :
                 /\ Append(s, u) \in Seq(Users)
                 /\ IsDistinct(Append(s, u))
                 /\ Elements(Append(s, u)) = Elements(s) \cup {u}
           /\ s # << >> =>
                 /\ Tail(s) \in Seq(Users) /\ Head(s) \in Users
                 /\ Head(s) \in Elements(s)
                 /\ IsDistinct(Tail(s))
                 /\ Elements(Tail(s)) = Elements(s) \ {Head(s)}
<1>1. ASSUME NEW u \in Users \ Elements(s)
      PROVE  /\ Append(s, u) \in Seq(Users)
             /\ IsDistinct(Append(s, u))
             /\ Elements(Append(s, u)) = Elements(s) \cup {u}
  <2> DEFINE t == Append(s, u)
  <2>1. /\ t \in Seq(Users) /\ Len(t) = Len(s) + 1 /\ Len(s) \in Nat
        /\ t[Len(s) + 1] = u /\ \A j \in 1..Len(s) : t[j] = s[j]
    OBVIOUS
  <2> HIDE DEF t
  <2>2. Elements(t) = Elements(s) \cup {u}
    BY <2>1 DEF Elements
  <2>3. IsDistinct(t)
    BY <1>1, <2>1 DEF IsDistinct, Elements
  <2> QED BY <2>1, <2>2, <2>3 DEF t
<1>2. ASSUME s # << >>
      PROVE  /\ Tail(s) \in Seq(Users) /\ Head(s) \in Users
             /\ Head(s) \in Elements(s)
             /\ IsDistinct(Tail(s))
             /\ Elements(Tail(s)) = Elements(s) \ {Head(s)}
  <2> DEFINE t == Tail(s)
  <2>1. /\ t \in Seq(Users) /\ Len(s) \in Nat /\ Len(s) > 0 /\ Len(t) = Len(s) - 1
        /\ Head(s) = s[1] /\ \A j \in 1..Len(s) - 1 : t[j] = s[j + 1]
    BY <1>2
  <2>2. Head(s) \in Users /\ Head(s) \in Elements(s)
    BY <2>1 DEF Elements
  <2> HIDE DEF t
  <2>3. Elements(t) \subseteq Elements(s) \ {Head(s)}
    BY <2>1 DEF Elements, IsDistinct
  <2>4. ASSUME NEW e \in Elements(s) \ {Head(s)}
        PROVE  e \in Elements(t)
    <3>1. PICK k \in 2..Len(s) : s[k] = e
      BY <2>1, <2>4 DEF Elements
    <3>2. k - 1 \in 1..Len(t) /\ t[k - 1] = e
      BY <2>1, <3>1
    <3> QED BY <3>2, Zenon DEF Elements
  <2>5. IsDistinct(t)
    BY <2>1 DEF IsDistinct
  <2> QED BY <2>1, <2>2, <2>3, <2>4, <2>5 DEF t
<1> QED BY <1>1, <1>2

\* The queue has as many places as there are users, so there is one for a user
\* that is not in it.
LEMMA RoomForUser ==
    ASSUME NEW s \in Seq(Users), IsDistinct(s), NEW u \in Users \ Elements(s)
    PROVE  Len(s) < Capacity
<1> DEFINE E == Elements(s)
<1>1. IsFiniteSet(1..Len(s)) /\ Cardinality(1..Len(s)) = Len(s) /\ Len(s) \in Nat
  <2>1. Len(s) \in Nat
    OBVIOUS
  <2> QED BY <2>1, FS_Interval
<1>2. ExistsBijection(1..Len(s), E)
  <2> DEFINE f == [i \in 1..Len(s) |-> s[i]]
  <2>1. f \in [1..Len(s) -> E]
    BY DEF Elements
  <2>2. \A i, j \in 1..Len(s) : f[i] = f[j] => i = j
    BY DEF IsDistinct
  <2>3. \A e \in E : \E i \in 1..Len(s) : f[i] = e
    BY DEF Elements
  <2>4. f \in Bijection(1..Len(s), E)
    BY <2>1, <2>2, <2>3 DEF Bijection, Injection, Surjection, IsInjective
  <2> QED BY <2>4, Zenon DEF ExistsBijection
<1>3. IsFiniteSet(E) /\ Cardinality(E) = Len(s)
  BY <1>1, <1>2, FS_Bijection
<1>4. E \cup {u} \subseteq Users /\ u \notin E
  BY DEF Elements
<1> HIDE DEF E
<1>5. IsFiniteSet(E \cup {u}) /\ Cardinality(E \cup {u}) = Cardinality(E) + 1
  BY <1>3, <1>4, FS_AddElement
<1>6. IsFiniteSet(Users) /\ Capacity = Cardinality(Users)
  BY CallersAssumption
<1>7. Cardinality(E \cup {u}) <= Cardinality(Users)
  BY <1>4, <1>6, FS_Subset
<1>8. Cardinality(Users) \in Nat
  BY <1>6, FS_CardinalityType
<1> QED BY <1>1, <1>3, <1>5, <1>6, <1>7, <1>8

-----------------------------------------------------------------------------
(* The inductive invariant.                                                *)

\* Steps of generateNewUser before its Enqueue.
LEMMA CreateInv ==
    ASSUME UserInv, NEW u \in Users, LookupUser(u) \/ LookupFails(u) \/ AddUser(u)
    PROVE  UserInv'
<1>1. /\ UNCHANGED <<fifoVars, held>> /\ creator[u] # "done"
      /\ \E c \in {"add", "enqueue", "failed"} : creator' = [creator EXCEPT ![u] = c]
  BY DEF LookupUser, LookupFails, AddUser
<1>2. /\ creator' \in [Users -> {"lookup", "add", "enqueue", "failed", "done"}]
      /\ \A v \in Users : creator'[v] = "done" <=> creator[v] = "done"
  BY <1>1 DEF UserInv, UserTypes
<1>3. UNCHANGED <<queue, waiters, at, val, listener, held>>
  BY <1>1, Zenon DEF fifoVars
<1>4. UserTypes' /\ CreatorInv'
  BY <1>2, <1>3 DEF UserInv, UserTypes, CreatorInv, Carrying
<1>5. OnePlace'
  BY <1>3 DEF UserInv, OnePlace, Carrying, Elements, IsDistinct
<1>6. NotCreated'
  BY <1>2, <1>3 DEF UserInv, NotCreated, Carrying, Elements
<1> QED BY <1>4, <1>5, <1>6 DEF UserInv

\* A new user is put into the queue's hands.
LEMMA EnqueueNewInv ==
    ASSUME UserInv, NEW u \in Users, EnqueueNew(u)
    PROVE  UserInv'
<1>0. u \in Threads
  BY CallersAssumption
<1>1. /\ UNCHANGED <<queue, waiters, listener, held>>
      /\ at[u] = "out" /\ at' = [at EXCEPT ![u] = "enqueue"]
      /\ val' = [val EXCEPT ![u] = u]
      /\ creator[u] = "enqueue" /\ creator' = [creator EXCEPT ![u] = "done"]
  BY DEF EnqueueNew, Enqueue
<1>2. UserTypes' /\ CreatorInv'
  BY <1>0, <1>1, CallersAssumption DEF UserInv, UserTypes, CreatorInv, Carrying
<1>3. /\ u \notin Elements(queue) /\ \A m \in Managers : u \notin held[m]
      /\ \A t \in Threads : Carrying(t) => val[t] # u
  BY <1>1 DEF UserInv, NotCreated
<1>4. /\ \A t \in Threads \ {u} : (Carrying(t)' <=> Carrying(t)) /\ val'[t] = val[t]
      /\ val'[u] = u /\ Elements(queue)' = Elements(queue)
      /\ \A v \in Users : creator'[v] # "done" => creator[v] # "done" /\ v # u
  BY <1>0, <1>1 DEF UserInv, UserTypes, Carrying, Elements
<1>5. OnePlace'
  BY <1>0, <1>1, <1>3, <1>4 DEF UserInv, OnePlace, IsDistinct
<1>6. NotCreated'
  BY <1>0, <1>1, <1>3, <1>4 DEF UserInv, NotCreated
<1> QED BY <1>2, <1>5, <1>6 DEF UserInv

\* A process manager gives the user of one of its processes back.
LEMMA FreeUserInv ==
    ASSUME UserInv, NEW m \in Managers, FreeUser(m)
    PROVE  UserInv'
<1>0. m \in Threads /\ m \notin Users
  BY CallersAssumption
<1>1. PICK u \in held[m] :
        /\ UNCHANGED <<queue, waiters, listener, creator>>
        /\ at[m] = "out" /\ at' = [at EXCEPT ![m] = "enqueue"]
        /\ val' = [val EXCEPT ![m] = u]
        /\ held' = [held EXCEPT ![m] = @ \ {u}]
  BY DEF FreeUser, Enqueue
<1>2. u \in Users
  BY DEF UserInv, UserTypes
<1>3. UserTypes' /\ CreatorInv'
  BY <1>0, <1>1, <1>2, CallersAssumption DEF UserInv, UserTypes, CreatorInv, Carrying
<1>4. /\ \A t \in Threads \ {m} : (Carrying(t)' <=> Carrying(t)) /\ val'[t] = val[t]
      /\ val'[m] = u /\ Elements(queue)' = Elements(queue)
      /\ u \notin held'[m]
      /\ \A n \in Managers : held'[n] \subseteq held[n] /\ (n # m => held'[n] = held[n])
  BY <1>0, <1>1 DEF UserInv, UserTypes, Carrying, Elements
<1>5. /\ u \notin Elements(queue) /\ \A n \in Managers \ {m} : u \notin held[n]
      /\ \A t \in Threads : Carrying(t) => val[t] # u
      /\ creator[u] = "done"
  BY <1>2 DEF UserInv, OnePlace, NotCreated
<1>6. OnePlace'
  BY <1>0, <1>1, <1>4, <1>5 DEF UserInv, OnePlace, IsDistinct
<1>7. NotCreated'
  BY <1>0, <1>1, <1>4, <1>5 DEF UserInv, NotCreated
<1> QED BY <1>3, <1>6, <1>7 DEF UserInv

\* A process manager gets the first user of the queue.
LEMMA ReceiveUserInv ==
    ASSUME UserInv, NEW m \in Managers, ReceiveUser(m)
    PROVE  UserInv'
<1> DEFINE u == Head(queue)
<1>0. m \in Threads /\ m \notin Users
  BY CallersAssumption
<1>1. /\ UNCHANGED <<waiters, val, listener, creator>> /\ queue # <<>>
      /\ at[m] = "dequeue" /\ at' = [at EXCEPT ![m] = "out"]
      /\ queue' = Tail(queue)
      /\ held' = [held EXCEPT ![m] = @ \cup {u}]
  BY DEF ReceiveUser, Receive
<1>2. /\ queue' \in Seq(Users) /\ u \in Users /\ u \in Elements(queue)
      /\ IsDistinct(queue') /\ Elements(queue') = Elements(queue) \ {u}
  BY <1>1, QueueFacts DEF UserInv, UserTypes, OnePlace
<1> HIDE DEF u
<1>3. UserTypes' /\ CreatorInv'
  <2>1. held' \in [Managers -> SUBSET Users]
    BY <1>1, <1>2 DEF UserInv, UserTypes
  <2>2. /\ at' \in [Threads -> {"out", "enqueue", "queueing", "handing",
                               "dequeue", "register", "waiting"}]
        /\ \A v \in Users : at'[v] = at[v]
    BY <1>0, <1>1, CallersAssumption DEF UserInv, UserTypes
  <2> QED BY <1>1, <1>2, <2>1, <2>2 DEF UserInv, UserTypes, CreatorInv, Carrying
<1>4. /\ \A t \in Threads : Carrying(t)' <=> Carrying(t)
      /\ held'[m] = held[m] \cup {u} /\ \A n \in Managers \ {m} : held'[n] = held[n]
  BY <1>0, <1>1 DEF UserInv, UserTypes, Carrying
<1>5. /\ \A n \in Managers : u \notin held[n]
      /\ \A t \in Threads : Carrying(t) => val[t] # u
      /\ creator[u] = "done"
  BY <1>2 DEF UserInv, OnePlace, NotCreated
<1>6. OnePlace'
  BY <1>0, <1>1, <1>2, <1>4, <1>5 DEF UserInv, OnePlace
<1>7. NotCreated'
  BY <1>0, <1>1, <1>2, <1>4, <1>5 DEF UserInv, NotCreated
<1> QED BY <1>3, <1>6, <1>7 DEF UserInv

\* The user of an Enqueue goes to the manager whose wait it ends.
LEMMA HandUserInv ==
    ASSUME UserInv, NEW t \in Threads, HandUser(t)
    PROVE  UserInv'
<1>1. PICK m \in Managers, u \in Users :
        /\ m = listener[t] /\ u = val[t] /\ m \in Threads /\ m \notin Users
  BY CallersAssumption DEF UserInv, UserTypes
<1>2. /\ UNCHANGED <<queue, waiters, val, listener, creator>>
      /\ at[t] = "handing" /\ at[m] = "waiting"
      /\ at' = [at EXCEPT ![t] = "out", ![m] = "out"]
      /\ held' = [held EXCEPT ![m] = @ \cup {u}]
  BY <1>1 DEF HandUser, Hand
<1>3. /\ at'[t] = "out" /\ at'[m] = "out"
      /\ \A s \in Threads \ {t, m} : at'[s] = at[s]
      /\ at' \in [Threads -> {"out", "enqueue", "queueing", "handing",
                              "dequeue", "register", "waiting"}]
  BY <1>1, <1>2 DEF UserInv, UserTypes
<1>4. /\ held' \in [Managers -> SUBSET Users]
      /\ held'[m] = held[m] \cup {u} /\ \A n \in Managers \ {m} : held'[n] = held[n]
  BY <1>1, <1>2 DEF UserInv, UserTypes
<1>5. UserTypes' /\ CreatorInv'
  BY <1>1, <1>2, <1>3, <1>4, CallersAssumption
  DEF UserInv, UserTypes, CreatorInv, Carrying
<1>6. /\ Carrying(t)
      /\ \A s \in Threads : Carrying(s)' <=> Carrying(s) /\ s # t
      /\ Elements(queue)' = Elements(queue)
  BY <1>1, <1>2, <1>3 DEF Carrying, Elements
<1>7. /\ u \notin Elements(queue) /\ \A n \in Managers : u \notin held[n]
      /\ \A s \in Threads \ {t} : Carrying(s) => val[s] # u
      /\ creator[u] = "done"
  BY <1>1, <1>6 DEF UserInv, OnePlace, NotCreated
<1>8. OnePlace'
  BY <1>1, <1>2, <1>4, <1>6, <1>7 DEF UserInv, OnePlace, IsDistinct
<1>9. NotCreated'
  BY <1>1, <1>2, <1>4, <1>6, <1>7 DEF UserInv, NotCreated
<1> QED BY <1>5, <1>8, <1>9 DEF UserInv

\* Steps inside of a call that move no user: Enqueue looks for a listener, and
\* GetAvailableUser until it waits.
LEMMA QuietInv ==
    ASSUME UserInv, NEW t \in Threads,
           \/ TakeListener(t) \/ NoListener(t) \/ Empty(t) \/ Register(t)
           \/ t \in Managers /\ Dequeue(t),
           UNCHANGED <<creator, held>>
    PROVE  UserInv'
<1>1. /\ UNCHANGED <<queue, val, creator, held>>
      /\ \/ /\ at[t] = "enqueue"
            /\ \E a \in {"handing", "queueing"} : at' = [at EXCEPT ![t] = a]
         \/ /\ t \in Managers /\ at[t] \in {"out", "dequeue", "register"}
            /\ \E a \in {"out", "dequeue", "register", "waiting"} :
                  at' = [at EXCEPT ![t] = a]
  <2>1. at[t] \in {"dequeue", "register"} => t \in Managers
    BY CallersAssumption DEF UserInv, CreatorInv
  <2> QED BY <2>1, Zenon DEF TakeListener, NoListener, Empty, Register, Dequeue
<1>2. /\ at' \in [Threads -> {"out", "enqueue", "queueing", "handing",
                              "dequeue", "register", "waiting"}]
      /\ \A s \in Threads : Carrying(s)' <=> Carrying(s)
      /\ \A u \in Users : at'[u] = at[u] \/ at'[u] \in {"handing", "queueing"}
      /\ Elements(queue)' = Elements(queue)
  <2>1. Elements(queue)' = Elements(queue) /\ \A u \in Users : u \notin Managers
    BY <1>1, CallersAssumption DEF Elements
  <2>2. PICK a \in {"out", "handing", "queueing", "dequeue", "register", "waiting"} :
            at' = [at EXCEPT ![t] = a]
    BY <1>1
  <2>3. /\ at'[t] = a /\ \A s \in Threads \ {t} : at'[s] = at[s]
        /\ at' \in [Threads -> {"out", "enqueue", "queueing", "handing",
                                "dequeue", "register", "waiting"}]
    BY <2>2 DEF UserInv, UserTypes
  <2>4. \/ at[t] = "enqueue" /\ a \in {"handing", "queueing"}
        \/ /\ t \in Managers /\ at[t] \in {"out", "dequeue", "register"}
           /\ a \in {"out", "dequeue", "register", "waiting"}
    BY <1>1, <2>3 DEF UserInv, UserTypes
  <2>5. \A s \in Threads : Carrying(s)' <=> Carrying(s)
    BY <2>3, <2>4 DEF Carrying
  <2>6. \A u \in Users : at'[u] = at[u] \/ at'[u] \in {"handing", "queueing"}
    BY <2>1, <2>3, <2>4, CallersAssumption
  <2> QED BY <2>1, <2>3, <2>5, <2>6
<1>3. waiters' \in Seq(Managers) /\ listener' \in [Threads -> Managers]
  <2>1. CASE TakeListener(t)
    <3>1. /\ waiters # <<>> /\ waiters \in Seq(Managers)
          /\ listener' = [listener EXCEPT ![t] = Head(waiters)]
          /\ waiters' = Tail(waiters)
      BY <2>1 DEF TakeListener, UserInv, UserTypes
    <3>2. Head(waiters) \in Managers /\ Tail(waiters) \in Seq(Managers)
      BY <3>1
    <3> QED BY <3>1, <3>2 DEF UserInv, UserTypes
  <2>2. CASE Register(t)
    <3>1. t \in Managers
      BY <2>2, CallersAssumption DEF Register, UserInv, CreatorInv
    <3> QED BY <2>2, <3>1 DEF Register, UserInv, UserTypes
  <2>3. CASE NoListener(t) \/ Empty(t) \/ Dequeue(t)
    BY <2>3 DEF NoListener, Empty, Dequeue, UserInv, UserTypes
  <2> QED BY <2>1, <2>2, <2>3
<1>4. UserTypes' /\ CreatorInv'
  <2>1. \A u \in Users : u \in Threads
    BY CallersAssumption
  <2> QED BY <1>1, <1>2, <1>3, <2>1 DEF UserInv, UserTypes, CreatorInv
<1>5. OnePlace' /\ NotCreated'
  BY <1>1, <1>2 DEF UserInv, OnePlace, NotCreated, IsDistinct
<1> QED BY <1>4, <1>5 DEF UserInv

\* Enqueue puts its user into the queue, which has room.
LEMMA SendToQueueInv ==
    ASSUME UserInv, NEW t \in Threads, SendToQueue(t), UNCHANGED <<creator, held>>
    PROVE  /\ UserInv'
           /\ at' = [at EXCEPT ![t] = "out"]
           /\ Elements(queue)' = Elements(queue) \cup {val[t]}
<1>1. PICK u \in Users : u = val[t]
  BY DEF UserInv, UserTypes
<1>2. Carrying(t) /\ at[t] = "queueing"
  BY DEF SendToQueue, Carrying
<1>3. u \notin Elements(queue) /\ queue \in Seq(Users) /\ IsDistinct(queue)
  BY <1>1, <1>2 DEF UserInv, UserTypes, OnePlace
<1>4. Len(queue) < Capacity
  BY <1>1, <1>3, RoomForUser
<1>5. /\ UNCHANGED <<waiters, val, listener, creator, held>>
      /\ queue' = Append(queue, u) /\ at' = [at EXCEPT ![t] = "out"]
  BY <1>1, <1>4 DEF SendToQueue
<1>6. /\ queue' \in Seq(Users) /\ IsDistinct(queue')
      /\ Elements(queue') = Elements(queue) \cup {u}
  BY <1>1, <1>3, <1>5, QueueFacts
<1>7. /\ at' \in [Threads -> {"out", "enqueue", "queueing", "handing",
                              "dequeue", "register", "waiting"}]
      /\ \A s \in Threads : Carrying(s)' <=> Carrying(s) /\ s # t
      /\ \A v \in Users : at'[v] = at[v] \/ at'[v] = "out"
  BY <1>2, <1>5, CallersAssumption DEF UserInv, UserTypes, Carrying
<1>8. UserTypes' /\ CreatorInv'
  <2>1. \A v \in Users : v \in Threads
    BY CallersAssumption
  <2> QED BY <1>5, <1>6, <1>7, <2>1 DEF UserInv, UserTypes, CreatorInv
<1>9. /\ \A n \in Managers : u \notin held[n]
      /\ \A s \in Threads \ {t} : Carrying(s) => val[s] # u
      /\ creator[u] = "done"
  BY <1>1, <1>2 DEF UserInv, OnePlace, NotCreated
<1>10. OnePlace' /\ NotCreated'
  BY <1>1, <1>5, <1>6, <1>7, <1>9 DEF UserInv, OnePlace, NotCreated
<1> QED BY <1>1, <1>5, <1>6, <1>8, <1>10 DEF UserInv

LEMMA UserInvInductive ==
    (Init => UserInv) /\ (UserInv /\ [Next]_vars => UserInv')
<1>1. ASSUME Init
      PROVE  UserInv
  <2>1. /\ (CHOOSE u \in Users : TRUE) \in Users
        /\ (CHOOSE m \in Managers : TRUE) \in Managers
    BY CallersAssumption
  <2>2. /\ queue = <<>> /\ waiters = <<>> /\ at = [t \in Threads |-> "out"]
        /\ val \in [Threads -> Users] /\ listener \in [Threads -> Managers]
        /\ creator = [u \in Users |-> "lookup"] /\ held = [m \in Managers |-> {}]
    BY <1>1, <2>1 DEF Init, FIFOInit
  <2>3. Elements(queue) = {} /\ IsDistinct(queue)
    BY <2>2 DEF Elements, IsDistinct
  <2>4. \A t \in Threads : ~Carrying(t) /\ at[t] = "out"
    BY <2>2 DEF Carrying
  <2>5. UserTypes /\ CreatorInv
    BY <2>2, <2>4, CallersAssumption DEF UserTypes, CreatorInv
  <2>6. OnePlace /\ NotCreated
    BY <2>2, <2>3, <2>4 DEF OnePlace, NotCreated
  <2> QED BY <2>5, <2>6 DEF UserInv
<1>2. ASSUME UserInv, [Next]_vars
      PROVE  UserInv'
  <2>0. Managers \subseteq Threads
    BY CallersAssumption
  <2>1. ASSUME NEW u \in Users, Create(u)
        PROVE  UserInv'
    BY <1>2, <2>1, CreateInv, EnqueueNewInv, Zenon DEF Create
  <2>2. ASSUME NEW m \in Managers, GetAvailableUser(m)
        PROVE  UserInv'
    <3>1. m \in Threads /\ Dequeue(m) /\ UNCHANGED <<creator, held>>
      BY <2>0, <2>2 DEF GetAvailableUser
    <3> QED BY <1>2, <2>2, <3>1, QuietInv, Zenon
  <2>3. ASSUME NEW m \in Managers, FreeUser(m) \/ ReceiveUser(m)
        PROVE  UserInv'
    BY <1>2, <2>3, FreeUserInv, ReceiveUserInv, Zenon
  <2>4. ASSUME NEW t \in Threads, HandUser(t)
        PROVE  UserInv'
    BY <1>2, <2>4, HandUserInv, Zenon
  <2>5. ASSUME NEW t \in Threads, QueueStep(t)
        PROVE  UserInv'
    <3>1. UNCHANGED <<creator, held>>
      BY <2>5 DEF QueueStep
    <3> QED BY <1>2, <2>5, <3>1, QuietInv, SendToQueueInv, Zenon DEF QueueStep
  <2>6. CASE UNCHANGED vars
    <3>1. UNCHANGED <<queue, waiters, at, val, listener, creator, held>>
      BY <2>6, Zenon DEF vars, fifoVars
    <3>2. UserTypes' /\ CreatorInv'
      BY <1>2, <3>1 DEF UserInv, UserTypes, CreatorInv, Carrying
    <3>3. OnePlace' /\ NotCreated'
      BY <1>2, <3>1 DEF UserInv, OnePlace, NotCreated, Carrying, Elements, IsDistinct
    <3> QED BY <3>2, <3>3 DEF UserInv
  <2> QED BY <1>2, <2>1, <2>2, <2>3, <2>4, <2>5, <2>6, Zenon DEF Next
<1> QED BY <1>1, <1>2

\* FreeUser and generateNewUser never find the queue full.
THEOREM QueueNeverFull == Spec => []NeverFull
<1>1. Spec => []UserInv
  BY UserInvInductive, PTL DEF Spec
<1>2. UserInv => NeverFull
  BY DEF UserInv, UserTypes, NeverFull
<1> QED BY <1>1, <1>2, PTL

-----------------------------------------------------------------------------
(* The refinement.                                                         *)

free == Elements(queue) \cup Handing
owned == [m \in Managers |-> held[m] \cup Freeing(m)]

\* Steps that the pool does not see.
LEMMA StutterStep ==
    ASSUME UserInv,
           UNCHANGED <<queue, held>>,
           \A t \in Threads : /\ at'[t] = "handing" <=> at[t] = "handing"
                              /\ at[t] = "handing" => val'[t] = val[t],
           \A m \in Managers :
               /\ at'[m] \in {"enqueue", "queueing"} <=> at[m] \in {"enqueue", "queueing"}
               /\ at[m] \in {"enqueue", "queueing"} => val'[m] = val[m]
    PROVE  UNCHANGED <<free, owned>>
<1>1. Elements(queue)' = Elements(queue)
  BY DEF Elements
<1>2. Handing' = Handing
  BY DEF Handing
<1>3. \A m \in Managers : Freeing(m)' = Freeing(m)
  BY DEF Freeing
<1> QED BY <1>1, <1>2, <1>3 DEF free, owned

\* The step with which Enqueue makes its user available: that of a creator
\* creates it, that of a process manager frees it.
LEMMA EnqueueStep ==
    ASSUME UserInv, NEW t \in Threads,
           at[t] \in {"enqueue", "queueing"}, at'[t] \notin {"enqueue", "queueing"},
           free' = free \cup {val[t]},
           held' = held, val' = val,
           \A s \in Threads \ {t} : at'[s] = at[s]
    PROVE  Pool!Next
<1>1. Carrying(t) /\ val[t] \in Users
  BY DEF Carrying, UserInv, UserTypes
<1>2. \A m \in Managers \ {t} : Freeing(m)' = Freeing(m)
  BY CallersAssumption DEF Freeing
<1>3. CASE t \in Users
  <2>1. val[t] = t /\ t \notin Managers
    BY <1>1, <1>3, CallersAssumption DEF UserInv, CreatorInv
  <2>2. owned' = owned
    BY <1>2, <2>1 DEF owned
  <2>3. t \notin free
    BY <1>1, <2>1 DEF free, Handing, UserInv, OnePlace, Carrying
  <2>4. \A m \in Managers : t \notin held[m] \cup Freeing(m)
    BY <1>1, <2>1, CallersAssumption DEF Freeing, UserInv, OnePlace, Carrying
  <2>5. Pool!Create(t)
    BY <2>1, <2>2, <2>3, <2>4 DEF Pool!Create, Pool!Known, free, owned
  <2> QED BY <1>3, <2>5 DEF Pool!Next
<1>4. CASE t \in Managers
  <2>0. PICK u \in Users : u = val[t]
    BY <1>1
  <2>1. u \in Freeing(t) /\ Freeing(t) = {u} /\ Freeing(t)' = {}
    BY <2>0 DEF Freeing
  <2>2. u \notin held[t]
    BY <1>1, <1>4, <2>0 DEF UserInv, OnePlace
  <2>3. owned' = [owned EXCEPT ![t] = @ \ {u}] /\ u \in owned[t]
    BY <1>2, <1>4, <2>1, <2>2 DEF owned
  <2>4. Pool!Free(t, u)
    BY <2>0, <2>3 DEF Pool!Free, free, owned
  <2> QED BY <1>4, <2>4, Zenon DEF Pool!Next
<1> QED BY <1>3, <1>4, CallersAssumption

\* The step with which a process manager gets a free user.
LEMMA GetStep ==
    ASSUME NEW m \in Managers, NEW u \in Users, u \in free,
           free' = free \ {u},
           held' = [held EXCEPT ![m] = @ \cup {u}], held \in [Managers -> SUBSET Users],
           \A n \in Managers : Freeing(n)' = Freeing(n)
    PROVE  Pool!Next
<1>1. owned' = [owned EXCEPT ![m] = @ \cup {u}]
  BY DEF owned
<1>2. Pool!Get(m, u)
  BY <1>1 DEF Pool!Get, free, owned
<1> QED BY <1>2 DEF Pool!Next

\* Every step of the user manager is a step of the pool, or none.
LEMMA PoolStep ==
    ASSUME UserInv, [Next]_vars
    PROVE  Pool!Next \/ UNCHANGED <<free, owned>>
<1>0. Managers \subseteq Threads /\ Users \subseteq Threads /\ Users \cap Managers = {}
  BY CallersAssumption
<1>a. /\ at \in [Threads -> {"out", "enqueue", "queueing", "handing",
                             "dequeue", "register", "waiting"}]
      /\ val \in [Threads -> Users] /\ listener \in [Threads -> Managers]
      /\ held \in [Managers -> SUBSET Users] /\ queue \in Seq(Users)
  BY DEF UserInv, UserTypes
<1>1. ASSUME NEW u \in Users, Create(u)
      PROVE  UNCHANGED <<free, owned>>
  <2>1. CASE EnqueueNew(u)
    <3>1. /\ at[u] = "out" /\ at' = [at EXCEPT ![u] = "enqueue"]
          /\ val' = [val EXCEPT ![u] = u] /\ UNCHANGED <<queue, held>>
      BY <2>1 DEF EnqueueNew, Enqueue
    <3> QED BY <1>0, <1>a, <3>1, StutterStep
  <2>2. CASE LookupUser(u) \/ LookupFails(u) \/ AddUser(u)
    <3>1. UNCHANGED <<queue, at, val, held>>
      BY <2>2, Zenon DEF LookupUser, LookupFails, AddUser, fifoVars
    <3> QED BY <3>1, StutterStep
  <2> QED BY <1>1, <2>1, <2>2 DEF Create
<1>2. ASSUME NEW m \in Managers, GetAvailableUser(m)
      PROVE  UNCHANGED <<free, owned>>
  <2>1. /\ at[m] = "out" /\ at' = [at EXCEPT ![m] = "dequeue"]
        /\ UNCHANGED <<queue, val, held>>
    BY <1>2 DEF GetAvailableUser, Dequeue
  <2> QED BY <1>0, <1>a, <2>1, StutterStep
<1>3. ASSUME NEW m \in Managers, FreeUser(m)
      PROVE  UNCHANGED <<free, owned>>
  <2>1. PICK u \in held[m] :
          /\ UNCHANGED queue
          /\ at[m] = "out" /\ at' = [at EXCEPT ![m] = "enqueue"]
          /\ val' = [val EXCEPT ![m] = u]
          /\ held' = [held EXCEPT ![m] = @ \ {u}]
    BY <1>3 DEF FreeUser, Enqueue
  <2>2. /\ at'[m] = "enqueue" /\ val'[m] = u /\ held'[m] = held[m] \ {u}
        /\ \A t \in Threads \ {m} : at'[t] = at[t] /\ val'[t] = val[t]
        /\ \A n \in Managers \ {m} : held'[n] = held[n]
    BY <1>0, <1>a, <2>1
  <2>3. free' = free
    <3>1. Handing' = Handing
      BY <1>0, <2>1, <2>2 DEF Handing
    <3>2. Elements(queue)' = Elements(queue)
      BY <2>1 DEF Elements
    <3> QED BY <3>1, <3>2 DEF free
  <2>4. \A n \in Managers : (held[n] \cup Freeing(n))' = held[n] \cup Freeing(n)
    BY <1>0, <2>1, <2>2 DEF Freeing
  <2> QED BY <2>3, <2>4 DEF owned
<1>4. ASSUME NEW m \in Managers, ReceiveUser(m)
      PROVE  Pool!Next
  <2>1. PICK u : u = Head(queue)
    OBVIOUS
  <2>2. /\ queue # <<>> /\ queue' = Tail(queue) /\ UNCHANGED val
        /\ at[m] = "dequeue" /\ at' = [at EXCEPT ![m] = "out"]
        /\ held' = [held EXCEPT ![m] = @ \cup {u}]
    BY <1>4, <2>1 DEF ReceiveUser, Receive
  <2>3. u \in Users /\ u \in Elements(queue) /\ Elements(queue)' = Elements(queue) \ {u}
    <3>1. Elements(queue') = Elements(queue) \ {Head(queue)} /\ Head(queue) \in Users
          /\ Head(queue) \in Elements(queue)
      BY <1>a, <2>2, QueueFacts DEF UserInv, OnePlace
    <3> QED BY <2>1, <3>1 DEF Elements
  <2>4. \A t \in Threads : at'[t] = at[t] \/ (at[t] = "dequeue" /\ at'[t] = "out")
    BY <1>a, <2>2
  <2>5. Handing' = Handing /\ \A n \in Managers : Freeing(n)' = Freeing(n)
    BY <1>0, <2>2, <2>4 DEF Handing, Freeing
  <2>6. u \notin Handing
    BY <2>3 DEF Handing, UserInv, OnePlace, Carrying
  <2>7. u \in free /\ free' = free \ {u}
    BY <2>3, <2>5, <2>6 DEF free
  <2> QED BY <1>a, <2>2, <2>3, <2>5, <2>7, GetStep
<1>5. ASSUME NEW t \in Threads, HandUser(t)
      PROVE  Pool!Next
  <2>1. PICK m \in Managers, u \in Users : m = listener[t] /\ u = val[t]
    BY <1>a
  <2>2. /\ UNCHANGED <<queue, val>>
        /\ at[t] = "handing" /\ at[m] = "waiting"
        /\ at' = [at EXCEPT ![t] = "out", ![m] = "out"]
        /\ held' = [held EXCEPT ![m] = @ \cup {u}]
    BY <1>5, <2>1 DEF HandUser, Hand
  <2>3. /\ at'[t] = "out" /\ at'[m] = "out"
        /\ \A s \in Threads \ {t, m} : at'[s] = at[s]
    BY <1>0, <1>a, <2>2
  <2>4. \A n \in Managers : Freeing(n)' = Freeing(n)
    BY <1>0, <2>2, <2>3 DEF Freeing
  <2>5. u \in Handing /\ Handing' = Handing \ {u}
    <3>1. \A s \in Threads : at[s] = "handing" /\ val[s] = u => s = t
      BY <2>1, <2>2 DEF UserInv, OnePlace, Carrying
    <3>2. \A s \in Threads : at'[s] = "handing" <=> at[s] = "handing" /\ s # t
      BY <1>0, <2>2, <2>3
    <3>3. u \in Handing
      BY <2>1, <2>2 DEF Handing
    <3>4. Handing' = {val[s] : s \in {x \in Threads : at[x] = "handing" /\ x # t}}
      BY <2>2, <3>2 DEF Handing
    <3>5. Handing \ {u} = {val[s] : s \in {x \in Threads : at[x] = "handing" /\ x # t}}
      BY <2>1, <2>2, <3>1 DEF Handing
    <3> QED BY <3>3, <3>4, <3>5
  <2>6. u \notin Elements(queue) /\ Elements(queue)' = Elements(queue)
    BY <2>1, <2>2 DEF UserInv, OnePlace, Carrying, Elements
  <2>7. u \in free /\ free' = free \ {u}
    BY <2>5, <2>6 DEF free
  <2> QED BY <1>a, <2>2, <2>4, <2>7, GetStep
<1>6. ASSUME NEW t \in Threads, QueueStep(t)
      PROVE  Pool!Next \/ UNCHANGED <<free, owned>>
  <2>0. UNCHANGED <<creator, held>>
    BY <1>6 DEF QueueStep
  <2>1. CASE TakeListener(t)
    <3>1. /\ UNCHANGED <<queue, val>>
          /\ at[t] = "enqueue" /\ at' = [at EXCEPT ![t] = "handing"]
      BY <2>1 DEF TakeListener
    <3>2. at'[t] = "handing" /\ \A s \in Threads \ {t} : at'[s] = at[s]
      BY <1>a, <3>1
    <3>3. Handing' = Handing \cup {val[t]}
      BY <3>1, <3>2 DEF Handing
    <3>4. free' = free \cup {val[t]}
      BY <3>1, <3>3 DEF free, Elements
    <3> QED BY <2>0, <3>1, <3>2, <3>4, EnqueueStep
  <2>2. CASE SendToQueue(t)
    <3>1. at[t] = "queueing" /\ UNCHANGED val
      BY <2>2 DEF SendToQueue
    <3>2. /\ at' = [at EXCEPT ![t] = "out"]
          /\ Elements(queue)' = Elements(queue) \cup {val[t]}
      BY <2>0, <2>2, SendToQueueInv
    <3>3. at'[t] = "out" /\ \A s \in Threads \ {t} : at'[s] = at[s]
      BY <1>a, <3>2
    <3>4. Handing' = Handing
      BY <3>1, <3>3 DEF Handing
    <3>5. free' = free \cup {val[t]}
      BY <3>2, <3>4 DEF free
    <3> QED BY <2>0, <3>1, <3>3, <3>5, EnqueueStep
  <2>3. CASE NoListener(t)
    <3>1. /\ at[t] = "enqueue" /\ at' = [at EXCEPT ![t] = "queueing"]
          /\ UNCHANGED <<queue, val>>
      BY <2>3 DEF NoListener
    <3> QED BY <1>0, <1>a, <2>0, <3>1, StutterStep
  <2>4. CASE Empty(t) \/ Register(t)
    <3>1. /\ at[t] \in {"dequeue", "register"} /\ UNCHANGED <<queue, val>>
          /\ \E a \in {"register", "waiting", "out"} : at' = [at EXCEPT ![t] = a]
      BY <2>4 DEF Empty, Register
    <3> QED BY <1>0, <1>a, <2>0, <3>1, StutterStep
  <2> QED BY <1>6, <2>1, <2>2, <2>3, <2>4 DEF QueueStep
<1>7. CASE UNCHANGED vars
  <2>1. UNCHANGED <<queue, at, val, held>>
    BY <1>7, Zenon DEF vars, fifoVars
  <2> QED BY <2>1, StutterStep
<1> QED BY <1>1, <1>2, <1>3, <1>4, <1>5, <1>6, <1>7, Zenon DEF Next

\* The user manager implements the pool of users.
THEOREM ManagerImplementsPool == Spec => ImplementsPool
<1>1. Init => Pool!Init
  <2> SUFFICES ASSUME Init PROVE Pool!Init
    OBVIOUS
  <2>1. /\ queue = <<>> /\ at = [t \in Threads |-> "out"]
        /\ held = [m \in Managers |-> {}]
    BY DEF Init, FIFOInit
  <2>2. Elements(queue) = {} /\ Handing = {}
    BY <2>1 DEF Elements, Handing
  <2>3. \A m \in Managers : Freeing(m) = {}
    BY <2>1, CallersAssumption DEF Freeing
  <2> QED BY <2>1, <2>2, <2>3 DEF Pool!Init
<1>2. UserInv /\ [Next]_vars => [Pool!Next]_(Pool!poolVars)
  BY PoolStep, Zenon DEF Pool!poolVars, free, owned
<1>3. Spec => []UserInv
  BY UserInvInductive, PTL DEF Spec
<1> QED BY <1>1, <1>2, <1>3, PTL DEF Spec, ImplementsPool, Pool!Spec

=============================================================================
