---------------------------- MODULE LockFreeQueue ----------------------------
(***************************************************************************)
(* The array queue of src/contextqueue.c.  src/messagequeue.c and          *)
(* src/arraylockfreequeue.c repeat the same algorithm with other element   *)
(* types.  Every access to a shared field is one step of the calling       *)
(* thread; any thread may push and any thread may pop.                     *)
(*                                                                         *)
(* The three indices are uint32_t counters that are reduced to a slot with *)
(* & (size - 1).  size is a power of two, so the reduction commutes with   *)
(* the wrap of the counters at 2^32.  The counters are natural numbers     *)
(* here, up to the bound MaxIndex: the model leaves out a thread that      *)
(* stalls while the others complete 2^32 calls.  count keeps its width,    *)
(* because it does go below zero.                                          *)
(***************************************************************************)
EXTENDS Integers, FiniteSets

CONSTANTS
    Threads,    \* the threads that call the queue
    Values,     \* what can be pushed
    NoValue,    \* the content of a slot that was never written (zcalloc)
    Size,       \* queue->size after nextpow2
    Word,       \* count is an unsigned integer modulo Word (2^32)
    MaxIndex    \* bound on writeIndex

ASSUME QueueAssumption ==
    /\ Size \in Nat /\ Size >= 2
    /\ Word \in Nat /\ Word >= 2
    /\ MaxIndex \in Nat
    /\ NoValue \notin Values

VARIABLES
    count, writeIndex, readIndex, maximumReadIndex,  \* struct contextQueue
    contexts,               \* the array of slots
    pc,                     \* where each thread is in its call
    currentWriteIndex,      \* locals of a call of push or pop
    currentReadIndex,
    ctx,                    \* push: its argument; pop: the entry it read
    out                     \* what the last successful pop of a thread returned

shared == <<count, writeIndex, readIndex, maximumReadIndex, contexts>>
locals == <<currentWriteIndex, currentReadIndex, ctx>>
vars == <<shared, pc, locals, out>>

Slots == 0 .. Size - 1

PushSteps == {"pushRead", "pushClaim", "pushStore", "pushPublish", "pushCount"}
PopSteps == {"popMax", "popLoad", "popClaim", "popCount"}

TypeOK ==
    /\ count \in 0 .. Word - 1
    /\ writeIndex \in Nat /\ readIndex \in Nat /\ maximumReadIndex \in Nat
    /\ contexts \in [Slots -> Values \cup {NoValue}]
    /\ pc \in [Threads -> {"idle"} \cup PushSteps \cup PopSteps]
    /\ currentWriteIndex \in [Threads -> Nat]
    /\ currentReadIndex \in [Threads -> Nat]
    /\ ctx \in [Threads -> Values \cup {NoValue}]
    /\ out \in [Threads -> Values \cup {NoValue}]

-----------------------------------------------------------------------------

countToIndex(n) == n % Size

Init ==
    /\ count = 0 /\ writeIndex = 0 /\ readIndex = 0 /\ maximumReadIndex = 0
    /\ contexts = [i \in Slots |-> NoValue]
    /\ pc = [t \in Threads |-> "idle"]
    /\ currentWriteIndex = [t \in Threads |-> 0]
    /\ currentReadIndex = [t \in Threads |-> 0]
    /\ ctx = [t \in Threads |-> NoValue]
    /\ out = [t \in Threads |-> NoValue]

Goto(t, from, to) ==
    /\ pc[t] = from
    /\ pc' = [pc EXCEPT ![t] = to]

\* The locals of a call that ends are dead: clearing them merges states.
Return(t, from) ==
    /\ Goto(t, from, "idle")
    /\ currentWriteIndex' = [currentWriteIndex EXCEPT ![t] = 0]
    /\ currentReadIndex' = [currentReadIndex EXCEPT ![t] = 0]
    /\ ctx' = [ctx EXCEPT ![t] = NoValue]

-----------------------------------------------------------------------------
(* contextQueuePush *)

PushCall(t, v) ==
    /\ writeIndex < MaxIndex
    /\ Goto(t, "idle", "pushRead")
    /\ currentWriteIndex' = [currentWriteIndex EXCEPT ![t] = writeIndex]
    /\ ctx' = [ctx EXCEPT ![t] = v]
    /\ UNCHANGED <<shared, currentReadIndex, out>>

\* Deviation: a push that meets a full queue reads the indices again.
PushRefusedSpins(t) ==
    /\ countToIndex(currentWriteIndex[t] + 1) = countToIndex(readIndex)
    /\ Goto(t, "pushRead", "pushRead")
    /\ currentWriteIndex' = [currentWriteIndex EXCEPT ![t] = writeIndex]
    /\ UNCHANGED <<shared, currentReadIndex, ctx, out>>

\* readIndex is read after writeIndex; both are compared as slots.
PushRefused(t) ==
    /\ countToIndex(currentWriteIndex[t] + 1) = countToIndex(readIndex)
    /\ Return(t, "pushRead")
    /\ UNCHANGED <<shared, out>>

\* Deviation: the comparison with readIndex is dropped.
PushRoomUnchecked(t) ==
    /\ Goto(t, "pushRead", "pushClaim")
    /\ currentReadIndex' = [currentReadIndex EXCEPT ![t] = readIndex]
    /\ UNCHANGED <<shared, currentWriteIndex, ctx, out>>

PushRoom(t) ==
    /\ countToIndex(currentWriteIndex[t] + 1) # countToIndex(readIndex)
    /\ Goto(t, "pushRead", "pushClaim")
    /\ currentReadIndex' = [currentReadIndex EXCEPT ![t] = readIndex]
    /\ UNCHANGED <<shared, currentWriteIndex, ctx, out>>

\* Deviation: writeIndex is stored without the compare-and-swap.
PushClaimBlind(t) ==
    /\ Goto(t, "pushClaim", "pushStore")
    /\ writeIndex' = currentWriteIndex[t] + 1
    /\ UNCHANGED <<count, readIndex, maximumReadIndex, contexts, locals, out>>

PushClaim(t) ==
    /\ writeIndex = currentWriteIndex[t]
    /\ Goto(t, "pushClaim", "pushStore")
    /\ writeIndex' = writeIndex + 1
    /\ UNCHANGED <<count, readIndex, maximumReadIndex, contexts, locals, out>>

\* A failed compare-and-swap takes the thread back to the reads of the loop.
PushRetry(t) ==
    /\ writeIndex # currentWriteIndex[t]
    /\ Goto(t, "pushClaim", "pushRead")
    /\ currentWriteIndex' = [currentWriteIndex EXCEPT ![t] = writeIndex]
    /\ UNCHANGED <<shared, currentReadIndex, ctx, out>>

PushStore(t) ==
    /\ Goto(t, "pushStore", "pushPublish")
    /\ contexts' = [contexts EXCEPT ![countToIndex(currentWriteIndex[t])] = ctx[t]]
    /\ UNCHANGED <<count, writeIndex, readIndex, maximumReadIndex, locals, out>>

\* Deviation: the entry is published without waiting for the earlier claims.
PushPublishEarly(t) ==
    /\ Goto(t, "pushPublish", "pushCount")
    /\ maximumReadIndex' = maximumReadIndex + 1
    /\ UNCHANGED <<count, writeIndex, readIndex, contexts, locals, out>>

\* The spin on maximumReadIndex: a failed attempt changes nothing.
PushPublish(t) ==
    /\ maximumReadIndex = currentWriteIndex[t]
    /\ Goto(t, "pushPublish", "pushCount")
    /\ maximumReadIndex' = maximumReadIndex + 1
    /\ UNCHANGED <<count, writeIndex, readIndex, contexts, locals, out>>

PushCount(t) ==
    /\ Return(t, "pushCount")
    /\ count' = (count + 1) % Word
    /\ UNCHANGED <<writeIndex, readIndex, maximumReadIndex, contexts, out>>

contextQueuePush(t) ==
    \/ \E v \in Values : PushCall(t, v)
    \/ PushRefused(t)
    \/ PushRoom(t)
    \/ PushClaim(t)
    \/ PushRetry(t)
    \/ PushStore(t)
    \/ PushPublish(t)
    \/ PushCount(t)

-----------------------------------------------------------------------------
(* contextQueuePop *)

PopCall(t) ==
    /\ Goto(t, "idle", "popMax")
    /\ currentReadIndex' = [currentReadIndex EXCEPT ![t] = readIndex]
    /\ UNCHANGED <<shared, currentWriteIndex, ctx, out>>

\* maximumReadIndex is read after readIndex; both are compared as slots.
PopEmpty(t) ==
    /\ countToIndex(currentReadIndex[t]) = countToIndex(maximumReadIndex)
    /\ Return(t, "popMax")
    /\ UNCHANGED <<shared, out>>

PopSome(t) ==
    /\ countToIndex(currentReadIndex[t]) # countToIndex(maximumReadIndex)
    /\ Goto(t, "popMax", "popLoad")
    /\ UNCHANGED <<shared, locals, out>>

PopLoad(t) ==
    /\ Goto(t, "popLoad", "popClaim")
    /\ ctx' = [ctx EXCEPT ![t] = contexts[countToIndex(currentReadIndex[t])]]
    /\ UNCHANGED <<shared, currentWriteIndex, currentReadIndex, out>>

PopClaim(t) ==
    /\ readIndex = currentReadIndex[t]
    /\ Goto(t, "popClaim", "popCount")
    /\ readIndex' = readIndex + 1
    /\ out' = [out EXCEPT ![t] = ctx[t]]
    /\ UNCHANGED <<count, writeIndex, maximumReadIndex, contexts, locals>>

PopRetry(t) ==
    /\ readIndex # currentReadIndex[t]
    /\ Goto(t, "popClaim", "popMax")
    /\ currentReadIndex' = [currentReadIndex EXCEPT ![t] = readIndex]
    /\ ctx' = [ctx EXCEPT ![t] = NoValue]
    /\ UNCHANGED <<shared, currentWriteIndex, out>>

\* Deviation: the AtomicSub is missing.
PopCountLost(t) ==
    /\ Return(t, "popCount")
    /\ UNCHANGED <<shared, out>>

PopCount(t) ==
    /\ Return(t, "popCount")
    /\ count' = (count - 1) % Word
    /\ UNCHANGED <<writeIndex, readIndex, maximumReadIndex, contexts, out>>

contextQueuePop(t) ==
    \/ PopCall(t)
    \/ PopEmpty(t)
    \/ PopSome(t)
    \/ PopLoad(t)
    \/ PopClaim(t)
    \/ PopRetry(t)
    \/ PopCount(t)

Next == \E t \in Threads : contextQueuePush(t) \/ contextQueuePop(t)

Spec == Init /\ [][Next]_vars

\* A thread inside a call keeps running; whether a call is made is up to it.
Continue(t) == pc[t] # "idle" /\ (contextQueuePush(t) \/ contextQueuePop(t))

FairSpec == Spec /\ \A t \in Threads : WF_vars(Continue(t))

-----------------------------------------------------------------------------
(* Properties *)

\* The indices keep their order and never span the whole array, so the slots
\* of live entries (readIndex up to writeIndex) are pairwise different.
IndexWindow ==
    /\ readIndex <= maximumReadIndex
    /\ maximumReadIndex <= writeIndex
    /\ writeIndex < readIndex + Size

Claimed(t) == pc[t] \in {"pushStore", "pushPublish"}

\* What a thread inside push knows.
PushInv(t) ==
    /\ pc[t] \in PushSteps => ctx[t] \in Values
    /\ pc[t] \in {"pushRead", "pushClaim"} => currentWriteIndex[t] <= writeIndex
    /\ pc[t] = "pushClaim" =>
          /\ currentReadIndex[t] <= readIndex
          /\ currentWriteIndex[t] = writeIndex =>
                currentWriteIndex[t] + 1 < currentReadIndex[t] + Size
    /\ Claimed(t) =>
          /\ maximumReadIndex <= currentWriteIndex[t]
          /\ currentWriteIndex[t] < writeIndex
    /\ pc[t] = "pushPublish" =>
          contexts[countToIndex(currentWriteIndex[t])] = ctx[t]

\* What a thread inside pop knows.
PopInv(t) ==
    /\ pc[t] \in {"popMax", "popLoad", "popClaim"} => currentReadIndex[t] <= readIndex
    /\ pc[t] \in {"popLoad", "popClaim"} =>
          (currentReadIndex[t] = readIndex => readIndex < maximumReadIndex)
    /\ pc[t] = "popClaim" =>
          (currentReadIndex[t] = readIndex => ctx[t] = contexts[countToIndex(readIndex)])

\* Two pushes never own the same index.
ClaimsDiffer ==
    \A t, u \in Threads :
        t # u /\ Claimed(t) /\ Claimed(u) => currentWriteIndex[t] # currentWriteIndex[u]

\* The inductive invariant of the queue: from every interleaving of push and
\* pop (contextqueue.c:51-106), the window of live indices is never wider than
\* the array, claims are exclusive, and a pop whose compare-and-swap can still
\* succeed holds the entry that is in its slot.
QueueInv ==
    /\ TypeOK
    /\ IndexWindow
    /\ ClaimsDiffer
    /\ \A t \in Threads : PushInv(t) /\ PopInv(t)

\* No step overwrites an entry that is published and not yet popped, although
\* push decides that there is room from indices that may be stale
\* (contextqueue.c:57-69).
NoOverwrite ==
    [][\A i \in readIndex .. maximumReadIndex - 1 :
          contexts'[countToIndex(i)] = contexts[countToIndex(i)]]_vars

\* count lags behind the indices by exactly the calls that are between their
\* compare-and-swap and their AtomicAdd or AtomicSub (contextqueue.c:74, 99); it
\* wraps below zero when a pop overtakes the AtomicAdd of the push.
CountLag ==
    count = (maximumReadIndex - readIndex
             - Cardinality({t \in Threads : pc[t] = "pushCount"})
             + Cardinality({t \in Threads : pc[t] = "popCount"})) % Word

\* The published entries, oldest first.
Entries ==
    [k \in 1 .. maximumReadIndex - readIndex |-> contexts[countToIndex(readIndex + k - 1)]]

Fifo == INSTANCE FifoQueue WITH queue <- Entries, Capacity <- Size - 1

\* The queue implements a bounded FIFO queue: push takes effect when it
\* advances maximumReadIndex, pop when it advances readIndex.
FifoSpec == Fifo!Spec

\* A call returns, unless other calls go on for ever moving the indices under
\* its compare-and-swap: a retry means that somebody else succeeded, and the
\* spin on maximumReadIndex (contextqueue.c:69-72) is never stuck behind a claim
\* that nobody publishes.
CallsReturn ==
    \A t \in Threads :
        \/ []<>(pc[t] = "idle")
        \/ []<><<writeIndex' # writeIndex \/ readIndex' # readIndex>>_vars

\* workerPoolSend reports "queue full" and stops the program when push returns
\* false (worker_pool.c:185-190): push is refused only while the queue is full.
RefusedOnlyWhenFull ==
    [][\A t \in Threads : PushRefused(t) => writeIndex - readIndex = Size - 1]_vars
==============================================================================
