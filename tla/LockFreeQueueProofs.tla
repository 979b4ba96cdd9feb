------------------------- MODULE LockFreeQueueProofs -------------------------
(***************************************************************************)
(* Proofs about LockFreeQueue, for any set of threads, any array size and  *)
(* any bound on the indices.                                               *)
(***************************************************************************)
EXTENDS LockFreeQueue, WordArithmetic, FiniteSetTheorems, SequenceTheorems, TLAPS

\* The slot of an index is a slot of the array (countToIndex).
LEMMA SlotRange ==
    ASSUME NEW n \in Nat
    PROVE  countToIndex(n) \in Slots
BY QueueAssumption DEF countToIndex, Slots

\* Euclidean division, in the form the other lemmas use.
LEMMA Division ==
    ASSUME NEW n \in Nat
    PROVE  \E q \in Nat : n = q * Size + countToIndex(n)
<1>1. n = (n \div Size) * Size + (n % Size)
  BY QueueAssumption
<1>2. n \div Size \in Nat
  BY QueueAssumption
<1> QED BY <1>1, <1>2 DEF countToIndex

\* Indices less than a lap apart have different slots.
LEMMA SlotsDiffer ==
    ASSUME NEW a \in Nat, NEW b \in Nat, a < b, b < a + Size
    PROVE  countToIndex(a) # countToIndex(b)
<1> SUFFICES ASSUME countToIndex(a) = countToIndex(b) PROVE FALSE
  OBVIOUS
<1>1. PICK q \in Nat : a = q * Size + countToIndex(a)
  BY Division
<1>2. PICK p \in Nat : b = p * Size + countToIndex(b)
  BY Division
<1>3. countToIndex(a) \in Nat /\ Size \in Nat
  BY SlotRange, QueueAssumption DEF Slots
<1>4. b - a = (p - q) * Size
  BY <1>1, <1>2, <1>3
<1>5. CASE p <= q
  BY <1>5, <1>1, <1>2, <1>3
<1>6. CASE p >= q + 1
  <2>1. p * Size >= (q + 1) * Size
    BY <1>6, <1>3
  <2> QED BY <2>1, <1>1, <1>2, <1>3
<1> QED BY <1>5, <1>6

\* An index and the one a full lap later have the same slot.
LEMMA SameSlot ==
    ASSUME NEW a \in Nat
    PROVE  countToIndex(a + Size) = countToIndex(a)
<1>1. PICK q \in Nat : a = q * Size + countToIndex(a)
  BY Division
<1>2. Size \in Nat /\ a + Size \in Nat
  BY QueueAssumption
<1>3. PICK p \in Nat : a + Size = p * Size + countToIndex(a + Size)
  BY <1>2, Division
<1>4. countToIndex(a) \in 0 .. Size - 1 /\ countToIndex(a + Size) \in 0 .. Size - 1
  BY <1>2, SlotRange DEF Slots
<1>5. (q + 1) * Size = q * Size + Size
  BY <1>2
<1>6. CASE p = q + 1
  BY <1>1, <1>2, <1>3, <1>4, <1>5, <1>6
<1>7. CASE p >= q + 2
  <2>1. p * Size >= (q + 2) * Size
    BY <1>2, <1>7
  <2>2. (q + 2) * Size = q * Size + Size + Size
    BY <1>2
  <2> QED BY <2>1, <2>2, <1>1, <1>2, <1>3, <1>4
<1>8. CASE p <= q
  <2>1. p * Size <= q * Size
    BY <1>2, <1>8
  <2> QED BY <2>1, <1>1, <1>2, <1>3, <1>4
<1> QED BY <1>6, <1>7, <1>8

-----------------------------------------------------------------------------

LEMMA InitQueueInv == Init => QueueInv
BY QueueAssumption DEF Init, QueueInv, TypeOK, IndexWindow, ClaimsDiffer, Claimed,
   PushInv, PopInv, PushSteps, PopSteps, Slots

LEMMA TypeStep ==
    ASSUME TypeOK, [Next]_vars
    PROVE  TypeOK'
<1> USE DEF TypeOK, Goto, Return, shared, locals, PushSteps, PopSteps
<1>1. ASSUME NEW t \in Threads, NEW v \in Values, PushCall(t, v) PROVE TypeOK'
  BY <1>1 DEF PushCall
<1>2. ASSUME NEW t \in Threads, PushRefused(t) PROVE TypeOK'
  BY <1>2 DEF PushRefused
<1>3. ASSUME NEW t \in Threads, PushRoom(t) PROVE TypeOK'
  BY <1>3 DEF PushRoom
<1>4. ASSUME NEW t \in Threads, PushClaim(t) PROVE TypeOK'
  BY <1>4 DEF PushClaim
<1>5. ASSUME NEW t \in Threads, PushRetry(t) PROVE TypeOK'
  BY <1>5 DEF PushRetry
<1>6. ASSUME NEW t \in Threads, PushStore(t) PROVE TypeOK'
  <2>1. countToIndex(currentWriteIndex[t]) \in Slots
    BY SlotRange
  <2> QED BY <1>6, <2>1 DEF PushStore
<1>7. ASSUME NEW t \in Threads, PushPublish(t) PROVE TypeOK'
  BY <1>7 DEF PushPublish
<1>8. ASSUME NEW t \in Threads, PushCount(t) PROVE TypeOK'
  <2>1. count' \in 0 .. Word - 1
    BY <1>8, QueueAssumption DEF PushCount
  <2> QED BY <1>8, <2>1 DEF PushCount
<1>9. ASSUME NEW t \in Threads, PopCall(t) PROVE TypeOK'
  BY <1>9 DEF PopCall
<1>10. ASSUME NEW t \in Threads, PopEmpty(t) PROVE TypeOK'
  BY <1>10 DEF PopEmpty
<1>11. ASSUME NEW t \in Threads, PopSome(t) PROVE TypeOK'
  BY <1>11 DEF PopSome
<1>12. ASSUME NEW t \in Threads, PopLoad(t) PROVE TypeOK'
  <2>1. countToIndex(currentReadIndex[t]) \in Slots
    BY SlotRange
  <2> QED BY <1>12, <2>1 DEF PopLoad
<1>13. ASSUME NEW t \in Threads, PopClaim(t) PROVE TypeOK'
  BY <1>13 DEF PopClaim
<1>14. ASSUME NEW t \in Threads, PopRetry(t) PROVE TypeOK'
  BY <1>14 DEF PopRetry
<1>15. ASSUME NEW t \in Threads, PopCount(t) PROVE TypeOK'
  <2>1. count' \in 0 .. Word - 1
    BY <1>15, QueueAssumption DEF PopCount
  <2> QED BY <1>15, <2>1 DEF PopCount
<1>16. CASE UNCHANGED vars
  BY <1>16 DEF vars
<1> QED
  BY <1>1, <1>2, <1>3, <1>4, <1>5, <1>6, <1>7, <1>8, <1>9, <1>10, <1>11, <1>12,
     <1>13, <1>14, <1>15, <1>16
  DEF Next, contextQueuePush, contextQueuePop

\* Every step of every call preserves the inductive invariant.
LEMMA QueueInvStep ==
    ASSUME QueueInv, [Next]_vars
    PROVE  QueueInv'
<1>t. TypeOK'
  BY TypeStep DEF QueueInv
<1> USE <1>t, QueueAssumption
    DEF QueueInv, IndexWindow, ClaimsDiffer, Claimed, PushInv, PopInv,
        TypeOK, Goto, Return, shared, locals, PushSteps, PopSteps
<1>1. ASSUME NEW t \in Threads, NEW v \in Values, PushCall(t, v) PROVE QueueInv'
  BY <1>1 DEF PushCall
<1>2. ASSUME NEW t \in Threads, PushRefused(t) PROVE QueueInv'
  BY <1>2 DEF PushRefused
<1>3. ASSUME NEW t \in Threads, PushRoom(t) PROVE QueueInv'
  <2>1. currentWriteIndex[t] + 1 # readIndex + Size
    BY <1>3, SameSlot DEF PushRoom
  <2> QED BY <1>3, <2>1 DEF PushRoom
<1>4. ASSUME NEW t \in Threads, PushClaim(t) PROVE QueueInv'
  BY <1>4 DEF PushClaim
<1>5. ASSUME NEW t \in Threads, PushRetry(t) PROVE QueueInv'
  BY <1>5 DEF PushRetry
<1>6. ASSUME NEW t \in Threads, PushStore(t) PROVE QueueInv'
  <2>1. countToIndex(currentWriteIndex[t]) \in Slots
    BY SlotRange
  <2>2. \A u \in Threads : pc[u] = "pushPublish" =>
          countToIndex(currentWriteIndex[u]) # countToIndex(currentWriteIndex[t])
    BY <1>6, SlotsDiffer DEF PushStore
  <2>3. readIndex < maximumReadIndex =>
          countToIndex(readIndex) # countToIndex(currentWriteIndex[t])
    BY <1>6, SlotsDiffer DEF PushStore
  <2>4. \A u \in Threads : u # t => PushInv(u)'
    BY <1>6, <2>1, <2>2 DEF PushStore
  <2>5. PushInv(t)' /\ PopInv(t)'
    BY <1>6, <2>1 DEF PushStore
  <2>6. \A u \in Threads : u # t => PopInv(u)'
    BY <1>6, <2>1, <2>3 DEF PushStore
  <2>7. IndexWindow' /\ ClaimsDiffer'
    <3>1. UNCHANGED <<writeIndex, readIndex, maximumReadIndex, currentWriteIndex>>
      BY <1>6 DEF PushStore
    <3>2. \A u \in Threads : Claimed(u)' <=> Claimed(u)
      BY <1>6 DEF PushStore
    <3> QED BY <3>1, <3>2
  <2>8. \A u \in Threads : PushInv(u)' /\ PopInv(u)'
    <3> HIDE DEF PushInv, PopInv
    <3> QED BY <2>4, <2>5, <2>6
  <2> HIDE DEF IndexWindow, ClaimsDiffer, PushInv, PopInv, TypeOK
  <2> QED BY <1>t, <2>7, <2>8
<1>7. ASSUME NEW t \in Threads, PushPublish(t) PROVE QueueInv'
  BY <1>7 DEF PushPublish
<1>8. ASSUME NEW t \in Threads, PushCount(t) PROVE QueueInv'
  BY <1>8 DEF PushCount
<1>9. ASSUME NEW t \in Threads, PopCall(t) PROVE QueueInv'
  BY <1>9 DEF PopCall
<1>10. ASSUME NEW t \in Threads, PopEmpty(t) PROVE QueueInv'
  BY <1>10 DEF PopEmpty
<1>11. ASSUME NEW t \in Threads, PopSome(t) PROVE QueueInv'
  BY <1>11 DEF PopSome
<1>12. ASSUME NEW t \in Threads, PopLoad(t) PROVE QueueInv'
  BY <1>12 DEF PopLoad
<1>13. ASSUME NEW t \in Threads, PopClaim(t) PROVE QueueInv'
  BY <1>13 DEF PopClaim
<1>14. ASSUME NEW t \in Threads, PopRetry(t) PROVE QueueInv'
  BY <1>14 DEF PopRetry
<1>15. ASSUME NEW t \in Threads, PopCount(t) PROVE QueueInv'
  BY <1>15 DEF PopCount
<1>16. CASE UNCHANGED vars
  BY <1>16 DEF vars
<1> QED
  BY <1>1, <1>2, <1>3, <1>4, <1>5, <1>6, <1>7, <1>8, <1>9, <1>10, <1>11, <1>12, <1>13, <1>14, <1>15, <1>16
  DEF Next, contextQueuePush, contextQueuePop

\* In every behaviour of push and pop (contextqueue.c:51-106), for any number
\* of threads, the live indices span less than the array, claims are exclusive
\* and a pop that succeeds returns the entry of its slot.
THEOREM QueueInvariant == Spec => []QueueInv
<1>1. QueueInv /\ [Next]_vars => QueueInv'
  BY QueueInvStep
<1> QED BY InitQueueInv, <1>1, PTL DEF Spec

-----------------------------------------------------------------------------
(* No unread entry is overwritten *)

\* A store never hits the slot of a published entry.
LEMMA StoreMisses ==
    ASSUME QueueInv, NEW t \in Threads, PushStore(t),
           NEW i \in readIndex .. maximumReadIndex - 1
    PROVE  /\ countToIndex(i) \in Slots
           /\ countToIndex(i) # countToIndex(currentWriteIndex[t])
<1>1. i \in Nat /\ i < currentWriteIndex[t] /\ currentWriteIndex[t] < i + Size
  BY QueueAssumption
  DEF QueueInv, TypeOK, IndexWindow, PushInv, Claimed, PushStore, Goto
<1>2. currentWriteIndex[t] \in Nat
  BY DEF QueueInv, TypeOK
<1> QED BY <1>1, <1>2, SlotRange, SlotsDiffer

\* Only a store changes the array.
LEMMA SlotsKept ==
    ASSUME QueueInv, [Next]_vars, NEW i \in readIndex .. maximumReadIndex - 1
    PROVE  contexts'[countToIndex(i)] = contexts[countToIndex(i)]
<1>1. CASE \E t \in Threads : PushStore(t)
  <2> PICK t \in Threads : PushStore(t)
    BY <1>1
  <2>1. countToIndex(i) # countToIndex(currentWriteIndex[t]) /\ countToIndex(i) \in Slots
    BY StoreMisses
  <2> QED BY <2>1 DEF PushStore, QueueInv, TypeOK
<1>2. CASE ~ \E t \in Threads : PushStore(t)
  <2>1. contexts' = contexts
    BY <1>2 DEF Next, vars, shared, contextQueuePush, contextQueuePop, PushCall,
       PushRefused, PushRoom, PushClaim, PushRetry, PushPublish, PushCount, PopCall,
       PopEmpty, PopSome, PopLoad, PopClaim, PopRetry, PopCount
  <2> QED BY <2>1
<1> QED BY <1>1, <1>2

\* No step of push or pop overwrites an entry that is published and not yet
\* popped, although push decides from indices that may be stale.
THEOREM NeverOverwrites == Spec => NoOverwrite
<1>1. QueueInv /\ [Next]_vars =>
        [\A i \in readIndex .. maximumReadIndex - 1 :
            contexts'[countToIndex(i)] = contexts[countToIndex(i)]]_vars
  BY SlotsKept
<1> QED BY <1>1, QueueInvariant, PTL DEF Spec, NoOverwrite

-----------------------------------------------------------------------------
(* The queue implements FifoQueue *)

\* The published entries form a sequence of values shorter than the array.
LEMMA EntriesType ==
    ASSUME QueueInv
    PROVE  /\ Entries \in Seq(Values \cup {NoValue})
           /\ Len(Entries) = maximumReadIndex - readIndex
           /\ Len(Entries) < Size
<1>1. maximumReadIndex - readIndex \in Nat /\ maximumReadIndex - readIndex < Size
  BY QueueAssumption DEF QueueInv, TypeOK, IndexWindow
<1>2. ASSUME NEW k \in 1 .. maximumReadIndex - readIndex
      PROVE  contexts[countToIndex(readIndex + k - 1)] \in Values \cup {NoValue}
  <2>1. readIndex + k - 1 \in Nat
    BY <1>1 DEF QueueInv, TypeOK
  <2> QED BY <2>1, SlotRange DEF QueueInv, TypeOK
<1> QED BY <1>1, <1>2 DEF Entries

\* Advancing maximumReadIndex appends the pushed value.
LEMMA PublishIsPush ==
    ASSUME QueueInv, NEW t \in Threads, PushPublish(t)
    PROVE  Fifo!Push(ctx[t]) /\ ctx[t] \in Values
<1> DEFINE n == maximumReadIndex - readIndex
<1>1. /\ n \in Nat /\ Len(Entries) = n
      /\ Entries \in Seq(Values \cup {NoValue})
  BY EntriesType DEF QueueInv, TypeOK, IndexWindow
<1>2. maximumReadIndex' - readIndex' = n + 1
  BY DEF PushPublish, QueueInv, TypeOK
<1>3. contexts[countToIndex(readIndex + (n + 1) - 1)] = ctx[t] /\ ctx[t] \in Values
  BY DEF PushPublish, Goto, QueueInv, TypeOK, PushInv, PushSteps
<1>4. n < Size - 1
  BY QueueAssumption DEF PushPublish, Goto, QueueInv, TypeOK, IndexWindow, PushInv, Claimed
<1>5. Entries' = [k \in 1 .. n + 1 |-> contexts[countToIndex(readIndex + k - 1)]]
  BY <1>2 DEF Entries, PushPublish, countToIndex
<1>6. Append(Entries, ctx[t]) = [k \in 1 .. n + 1 |-> IF k = n + 1 THEN ctx[t] ELSE Entries[k]]
  BY <1>1
<1>7. \A k \in 1 .. n : Entries[k] = contexts[countToIndex(readIndex + k - 1)]
  BY DEF Entries
<1>8. Entries' = Append(Entries, ctx[t])
  BY <1>1, <1>3, <1>5, <1>6, <1>7
<1>9. UNCHANGED out
  BY DEF PushPublish
<1> QED BY <1>1, <1>3, <1>4, <1>8, <1>9 DEF Fifo!Push

\* Advancing readIndex takes the oldest entry and returns it.
LEMMA ClaimIsPop ==
    ASSUME QueueInv, NEW t \in Threads, PopClaim(t)
    PROVE  Fifo!Pop(t)
<1> DEFINE n == maximumReadIndex - readIndex
<1>1. /\ n \in Nat /\ n >= 1 /\ Len(Entries) = n
      /\ Entries \in Seq(Values \cup {NoValue})
      /\ readIndex \in Nat /\ maximumReadIndex \in Nat
  BY EntriesType DEF PopClaim, Goto, QueueInv, TypeOK, IndexWindow, PopInv
<1>2. maximumReadIndex' - readIndex' = n - 1
  BY DEF PopClaim, QueueInv, TypeOK
<1>3. Entries # <<>> /\ Head(Entries) = Entries[1]
  BY <1>1
<1>4. Entries[1] = ctx[t]
  BY <1>1 DEF Entries, PopClaim, Goto, QueueInv, PopInv
<1>5. Entries' = [k \in 1 .. n - 1 |-> contexts[countToIndex(readIndex + 1 + k - 1)]]
  BY <1>2 DEF Entries, PopClaim, countToIndex
<1>6. Tail(Entries) = [k \in 1 .. n - 1 |-> Entries[k + 1]]
  <2>1. /\ Tail(Entries) \in Seq(Values \cup {NoValue})
        /\ Len(Tail(Entries)) = n - 1
        /\ \A k \in 1 .. n - 1 : Tail(Entries)[k] = Entries[k + 1]
    BY <1>1, <1>3, HeadTailProperties
  <2>2. Tail(Entries) = [k \in 1 .. n - 1 |-> Tail(Entries)[k]]
    BY <2>1, LenProperties
  <2> QED BY <2>1, <2>2
<1>7. \A k \in 1 .. n - 1 : Entries[k + 1] = contexts[countToIndex(readIndex + 1 + k - 1)]
  <2> TAKE k \in 1 .. n - 1
  <2>1. k + 1 \in 1 .. n /\ readIndex + (k + 1) - 1 = readIndex + 1 + k - 1
    BY <1>1
  <2>2. Entries[k + 1] = contexts[countToIndex(readIndex + (k + 1) - 1)]
    BY <2>1 DEF Entries
  <2> QED BY <2>1, <2>2
<1>8. Entries' = Tail(Entries)
  BY <1>5, <1>6, <1>7
<1>9. out' = [out EXCEPT ![t] = ctx[t]]
  BY DEF PopClaim
<1> QED BY <1>3, <1>4, <1>8, <1>9 DEF Fifo!Pop

\* Every other step leaves the abstract queue alone.
LEMMA OtherStepsStutter ==
    ASSUME QueueInv, [Next]_vars,
           ~ \E t \in Threads : PushPublish(t) \/ PopClaim(t)
    PROVE  Entries' = Entries /\ out' = out
<1>1. UNCHANGED <<readIndex, maximumReadIndex, out>>
  BY DEF Next, vars, shared, contextQueuePush, contextQueuePop, PushCall,
     PushRefused, PushRoom, PushClaim, PushRetry, PushStore, PushCount, PopCall,
     PopEmpty, PopSome, PopLoad, PopRetry, PopCount
<1>2. readIndex \in Nat /\ maximumReadIndex \in Nat
  BY DEF QueueInv, TypeOK
<1>3. ASSUME NEW k \in 1 .. maximumReadIndex - readIndex
      PROVE  contexts'[countToIndex(readIndex + k - 1)] = contexts[countToIndex(readIndex + k - 1)]
  <2>1. readIndex + k - 1 \in readIndex .. maximumReadIndex - 1
    BY <1>2
  <2> QED BY <2>1, SlotsKept
<1> QED BY <1>1, <1>3 DEF Entries, countToIndex

\* The array queue implements a bounded FIFO queue of capacity size - 1: each
\* successful push takes effect when it advances maximumReadIndex, each
\* successful pop when it advances readIndex, and a failed call has no effect.
THEOREM ImplementsFifo == Spec => FifoSpec
<1>1. Init => Fifo!Init
  <2> SUFFICES ASSUME Init PROVE Fifo!Init
    OBVIOUS
  <2>1. Entries = <<>>
    BY DEF Init, Entries
  <2> QED BY <2>1 DEF Init, Fifo!Init
<1>2. QueueInv /\ [Next]_vars => [Fifo!Next]_(Fifo!vars)
  <2> SUFFICES ASSUME QueueInv, [Next]_vars PROVE [Fifo!Next]_(Fifo!vars)
    OBVIOUS
  <2>1. CASE \E t \in Threads : PushPublish(t)
    BY <2>1, PublishIsPush DEF Fifo!Next
  <2>2. CASE \E t \in Threads : PopClaim(t)
    BY <2>2, ClaimIsPop DEF Fifo!Next
  <2>3. CASE ~ \E t \in Threads : PushPublish(t) \/ PopClaim(t)
    BY <2>3, OtherStepsStutter DEF Fifo!vars
  <2> QED BY <2>1, <2>2, <2>3
<1> QED BY <1>1, <1>2, QueueInvariant, PTL DEF Spec, FifoSpec, Fifo!Spec
-----------------------------------------------------------------------------
(* The counter *)

At(s) == {t \in Threads : pc[t] = s}

Lag == maximumReadIndex - readIndex - Cardinality(At("pushCount"))
       + Cardinality(At("popCount"))

(* CountLag is inductive once the threads that are about to count are known *)
(* to be finitely many, which holds although Threads need not be finite.    *)
CountInv ==
    /\ IsFiniteSet(At("pushCount")) /\ IsFiniteSet(At("popCount"))
    /\ count = Lag % Word

\* A thread that moves from one step to another leaves the set of the first
\* and joins the set of the second.
LEMMA ThreadMoves ==
    ASSUME TypeOK, NEW t \in Threads, NEW from, NEW to, from # to, Goto(t, from, to)
    PROVE  /\ At(from)' = At(from) \ {t} /\ t \in At(from)
           /\ At(to)' = At(to) \cup {t} /\ t \notin At(to)
           /\ \A s : s # from /\ s # to => At(s)' = At(s)
BY DEF TypeOK, Goto, At

\* Every step moves the counter as it moves the lag.
LEMMA CountInvStep ==
    ASSUME QueueInv, CountInv, [Next]_vars
    PROVE  CountInv'
<1>1. /\ maximumReadIndex \in Nat /\ readIndex \in Nat
      /\ Cardinality(At("pushCount")) \in Nat /\ Cardinality(At("popCount")) \in Nat
      /\ Lag \in Int
  BY FS_CardinalityType DEF QueueInv, TypeOK, CountInv, Lag
<1>2. TypeOK
  BY DEF QueueInv
<1>3. ASSUME NEW t \in Threads, PushPublish(t) PROVE CountInv'
  <2>1. /\ At("pushCount")' = At("pushCount") \cup {t} /\ t \notin At("pushCount")
        /\ At("popCount")' = At("popCount")
    BY <1>2, <1>3, ThreadMoves DEF PushPublish
  <2>2. /\ IsFiniteSet(At("pushCount")')
        /\ Cardinality(At("pushCount")') = Cardinality(At("pushCount")) + 1
    BY <2>1, FS_AddElement DEF CountInv
  <2>3. /\ maximumReadIndex' = maximumReadIndex + 1
        /\ UNCHANGED <<count, readIndex>>
    BY <1>3 DEF PushPublish
  <2>4. Lag' = Lag
    BY <1>1, <2>1, <2>2, <2>3 DEF Lag
  <2> QED BY <2>1, <2>2, <2>3, <2>4 DEF CountInv
<1>4. ASSUME NEW t \in Threads, PushCount(t) PROVE CountInv'
  <2>1. /\ At("pushCount")' = At("pushCount") \ {t} /\ t \in At("pushCount")
        /\ At("popCount")' = At("popCount")
    BY <1>2, <1>4, ThreadMoves DEF PushCount, Return
  <2>2. /\ IsFiniteSet(At("pushCount")')
        /\ Cardinality(At("pushCount")') = Cardinality(At("pushCount")) - 1
    BY <2>1, FS_RemoveElement DEF CountInv
  <2>3. /\ count' = (count + 1) % Word
        /\ UNCHANGED <<maximumReadIndex, readIndex>>
    BY <1>4 DEF PushCount
  <2>4. Lag' = Lag + 1
    BY <1>1, <2>1, <2>2, <2>3 DEF Lag
  <2>5. count' = Lag' % Word
    BY <1>1, <2>3, <2>4, WordStep, QueueAssumption DEF CountInv
  <2> QED BY <2>1, <2>2, <2>5 DEF CountInv
<1>5. ASSUME NEW t \in Threads, PopClaim(t) PROVE CountInv'
  <2>1. /\ At("popCount")' = At("popCount") \cup {t} /\ t \notin At("popCount")
        /\ At("pushCount")' = At("pushCount")
    BY <1>2, <1>5, ThreadMoves DEF PopClaim
  <2>2. /\ IsFiniteSet(At("popCount")')
        /\ Cardinality(At("popCount")') = Cardinality(At("popCount")) + 1
    BY <2>1, FS_AddElement DEF CountInv
  <2>3. /\ readIndex' = readIndex + 1
        /\ UNCHANGED <<count, maximumReadIndex>>
    BY <1>5 DEF PopClaim
  <2>4. Lag' = Lag
    BY <1>1, <2>1, <2>2, <2>3 DEF Lag
  <2> QED BY <2>1, <2>2, <2>3, <2>4 DEF CountInv
<1>6. ASSUME NEW t \in Threads, PopCount(t) PROVE CountInv'
  <2>1. /\ At("popCount")' = At("popCount") \ {t} /\ t \in At("popCount")
        /\ At("pushCount")' = At("pushCount")
    BY <1>2, <1>6, ThreadMoves DEF PopCount, Return
  <2>2. /\ IsFiniteSet(At("popCount")')
        /\ Cardinality(At("popCount")') = Cardinality(At("popCount")) - 1
    BY <2>1, FS_RemoveElement DEF CountInv
  <2>3. /\ count' = (count - 1) % Word
        /\ UNCHANGED <<maximumReadIndex, readIndex>>
    BY <1>6 DEF PopCount
  <2>4. Lag' = Lag - 1
    BY <1>1, <2>1, <2>2, <2>3 DEF Lag
  <2>5. count' = Lag' % Word
    BY <1>1, <2>3, <2>4, WordStep, QueueAssumption DEF CountInv
  <2> QED BY <2>1, <2>2, <2>5 DEF CountInv
<1>7. CASE ~ \E t \in Threads :
              PushPublish(t) \/ PushCount(t) \/ PopClaim(t) \/ PopCount(t)
  <2>1. UNCHANGED <<count, readIndex, maximumReadIndex>>
    BY <1>7
    DEF Next, vars, shared, contextQueuePush, contextQueuePop, PushCall, PushRefused,
        PushRoom, PushClaim, PushRetry, PushStore, PopCall, PopEmpty, PopSome, PopLoad,
        PopRetry
  <2>2. \/ UNCHANGED pc
        \/ \E t \in Threads, from, to \in {"idle"} \cup PushSteps \cup PopSteps :
              /\ Goto(t, from, to) /\ from # to
              /\ {from, to} \cap {"pushCount", "popCount"} = {}
    BY <1>7
    DEF Next, vars, contextQueuePush, contextQueuePop, PushCall, PushRefused,
        PushRoom, PushClaim, PushRetry, PushStore, PopCall, PopEmpty, PopSome, PopLoad,
        PopRetry, Return, PushSteps, PopSteps
  <2>3. At("pushCount")' = At("pushCount") /\ At("popCount")' = At("popCount")
    <3>1. CASE UNCHANGED pc
      BY <3>1 DEF At
    <3>2. ASSUME NEW t \in Threads, NEW from, NEW to, Goto(t, from, to), from # to,
                 {from, to} \cap {"pushCount", "popCount"} = {}
          PROVE  At("pushCount")' = At("pushCount") /\ At("popCount")' = At("popCount")
      BY <1>2, <3>2, ThreadMoves
    <3> QED BY <2>2, <3>1, <3>2
  <2> QED BY <2>1, <2>3 DEF CountInv, Lag
<1> QED BY <1>3, <1>4, <1>5, <1>6, <1>7

\* count lags behind the indices by exactly the calls between their
\* compare-and-swap and their AtomicAdd or AtomicSub, for any number of threads
\* and any width of the counter.
THEOREM CountLags == Spec => []CountLag
<1>1. Init => CountInv
  <2> SUFFICES ASSUME Init PROVE CountInv
    OBVIOUS
  <2>1. At("pushCount") = {} /\ At("popCount") = {}
    BY DEF Init, At
  <2>2. Lag = 0 /\ IsFiniteSet({})
    BY <2>1, FS_EmptySet DEF Init, Lag
  <2>3. 0 % Word = 0
    BY QueueAssumption
  <2> QED BY <2>1, <2>2, <2>3 DEF Init, CountInv
<1>2. QueueInv /\ CountInv /\ [Next]_vars => CountInv'
  BY CountInvStep
<1>3. CountInv => CountLag
  BY DEF CountInv, CountLag, Lag, At
<1> QED BY <1>1, <1>2, <1>3, QueueInvariant, PTL DEF Spec
==============================================================================
