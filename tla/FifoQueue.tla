------------------------------ MODULE FifoQueue ------------------------------
(***************************************************************************)
(* What the three array queues of the repository (contextQueue,            *)
(* messageQueue, arrayLockFreeQueue) promise their callers: a bounded FIFO *)
(* queue whose successful push and pop calls each take effect at one       *)
(* instant.  A call that fails (push returns false, pop returns NULL) has  *)
(* no effect.                                                              *)
(***************************************************************************)
EXTENDS Naturals, Sequences

CONSTANTS
    Threads,    \* the threads that call the queue
    Values,     \* what can be pushed
    NoValue,    \* "nothing popped yet"
    Capacity    \* the most entries the queue holds

VARIABLES
    queue,      \* the entries, oldest first
    out         \* out[t]: what the last successful pop of thread t returned

vars == <<queue, out>>

Init ==
    /\ queue = <<>>
    /\ out = [t \in Threads |-> NoValue]

Push(v) ==
    /\ Len(queue) < Capacity
    /\ queue' = Append(queue, v)
    /\ UNCHANGED out

Pop(t) ==
    /\ queue # <<>>
    /\ queue' = Tail(queue)
    /\ out' = [out EXCEPT ![t] = Head(queue)]

Next ==
    \/ \E v \in Values : Push(v)
    \/ \E t \in Threads : Pop(t)

Spec == Init /\ [][Next]_vars
==============================================================================
