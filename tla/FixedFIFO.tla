------------------------------ MODULE FixedFIFO ------------------------------
(***************************************************************************)
(* The queue of fixed capacity behind the user manager                     *)
(* (vm_mgr/utils/fixed_queue.go).  Its calls run concurrently and without  *)
(* a lock; each select statement is a step.  The context of                *)
(* DequeueOrWaitForNextElementContext is always the background context,    *)
(* which never ends a wait.                                                *)
(***************************************************************************)
EXTENDS Naturals, Sequences

CONSTANTS
    Threads,        \* goroutines that call the queue
    Capacity,       \* of queue
    WaitCapacity    \* WaitForNextElementChanCapacity, 4000

VARIABLES
    queue,          \* the channel of values
    waiters,        \* waitForNextElementChan: the callers whose waitChan it holds
    at,             \* where a thread is; "out" is outside of the queue
    val,            \* the argument of a thread in Enqueue
    listener        \* the waiter a thread in Enqueue has taken

fifoVars == <<queue, waiters, at, val, listener>>

FIFOInit ==
    /\ queue = <<>> /\ waiters = <<>>

-----------------------------------------------------------------------------
(* Enqueue.                                                                *)

Enqueue(t, v) ==
    /\ at[t] = "out"
    /\ at' = [at EXCEPT ![t] = "enqueue"]
    /\ val' = [val EXCEPT ![t] = v]
    /\ UNCHANGED <<queue, waiters, listener>>

TakeListener(t) ==
    /\ at[t] = "enqueue"
    /\ waiters # <<>>
    /\ listener' = [listener EXCEPT ![t] = Head(waiters)]
    /\ waiters' = Tail(waiters)
    /\ at' = [at EXCEPT ![t] = "handing"]
    /\ UNCHANGED <<queue, val>>

NoListener(t) ==
    /\ at[t] = "enqueue"
    /\ waiters = <<>>
    /\ at' = [at EXCEPT ![t] = "queueing"]
    /\ UNCHANGED <<queue, waiters, val, listener>>

\* Mutant: one place of the queue is never used.
SendToQueue_OffByOne(t) ==
    /\ at[t] = "queueing"
    /\ LET room == Len(queue) + 1 < Capacity
       IN /\ queue' = IF room THEN Append(queue, val[t]) ELSE queue
          /\ at' = [at EXCEPT ![t] = IF room THEN "out" ELSE "failed"]
    /\ UNCHANGED <<waiters, val, listener>>

\* At full capacity the value is dropped and Enqueue returns an error.
SendToQueue(t) ==
    /\ at[t] = "queueing"
    /\ LET room == Len(queue) < Capacity
       IN /\ queue' = IF room THEN Append(queue, val[t]) ELSE queue
          /\ at' = [at EXCEPT ![t] = IF room THEN "out" ELSE "failed"]
    /\ UNCHANGED <<waiters, val, listener>>

\* listener <- value: the unbuffered send meets the waiter's receive.
Hand(t) ==
    /\ at[t] = "handing"
    /\ at[listener[t]] = "waiting"
    /\ at' = [at EXCEPT ![t] = "out", ![listener[t]] = "out"]
    /\ UNCHANGED <<queue, waiters, val, listener>>

-----------------------------------------------------------------------------
(* DequeueOrWaitForNextElement.                                            *)

Dequeue(t) ==
    /\ at[t] = "out"
    /\ at' = [at EXCEPT ![t] = "dequeue"]
    /\ UNCHANGED <<queue, waiters, val, listener>>

\* Mutant: the value is returned and stays in the queue.
Receive_Peek(t) ==
    /\ at[t] = "dequeue"
    /\ queue # <<>>
    /\ queue' = queue
    /\ at' = [at EXCEPT ![t] = "out"]
    /\ UNCHANGED <<waiters, val, listener>>

Receive(t) ==
    /\ at[t] = "dequeue"
    /\ queue # <<>>
    /\ queue' = Tail(queue)
    /\ at' = [at EXCEPT ![t] = "out"]
    /\ UNCHANGED <<waiters, val, listener>>

\* The default case: the queue was empty at the select.
Empty(t) ==
    /\ at[t] = "dequeue"
    /\ queue = <<>>
    /\ at' = [at EXCEPT ![t] = "register"]
    /\ UNCHANGED <<queue, waiters, val, listener>>

\* With too many waiters the call returns an error instead.
Register(t) ==
    /\ at[t] = "register"
    /\ LET room == Len(waiters) < WaitCapacity
       IN /\ waiters' = IF room THEN Append(waiters, t) ELSE waiters
          /\ at' = [at EXCEPT ![t] = IF room THEN "waiting" ELSE "out"]
    /\ UNCHANGED <<queue, val, listener>>

=============================================================================
