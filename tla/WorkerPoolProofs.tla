--------------------------- MODULE WorkerPoolProofs ---------------------------
(***************************************************************************)
(* Proofs about WorkerPool, for any number of workers, other threads and   *)
(* contexts, for any queue lengths, and whether or not pushes are refused. *)
(***************************************************************************)
EXTENDS WorkerPool, WordArithmetic, FiniteSetTheorems, SequenceTheorems, TLAPS

LEMMA InitPoolInv == Init => PoolInv
<1> SUFFICES ASSUME Init PROVE PoolInv
  OBVIOUS
<1> USE PoolAssumption DEF Init, Threads
<1>1. TypeOK
  <2>1. queue \in Seq(Contexts) /\ messages \in [Contexts -> Seq(Messages)]
    <3>1. <<"init">> \in Seq(Messages) /\ <<>> \in Seq(Messages)
      BY DEF Messages
    <3>2. <<Boot>> \in Seq(Contexts)
      OBVIOUS
    <3> QED BY <3>1, <3>2
  <2>2. /\ mem \in [Contexts -> {"unborn", "live", "freed"}]
        /\ ref \in [Contexts -> Nat]
        /\ inGlobal \in [Contexts -> {0, 1}]
        /\ cb \in [Contexts -> {"none", "launch", "run"}]
        /\ drops \in [Contexts -> Nat]
    OBVIOUS
  <2>3. /\ pc \in [Threads -> WorkerSteps \cup SendSteps \cup {"idle"}]
        /\ cur \in [Workers -> Contexts \cup {None}]
        /\ toctx \in [Threads -> Contexts \cup {None}]
        /\ msg \in [Threads -> Messages]
    BY DEF Messages, WorkerSteps
  <2> QED BY <2>1, <2>2, <2>3 DEF TypeOK
<1>2. LiveRef /\ WaitInv
  BY DEF LiveRef, WaitInv
<1>3. HandInv
  BY DEF HandInv, InHand, SendSteps
<1>4. TokenInv
  BY DEF TokenInv, Owns, Queues
<1> QED BY <1>1, <1>2, <1>3, <1>4 DEF PoolInv

-----------------------------------------------------------------------------
(* Types *)

TypeInv == TypeOK /\ LiveRef /\ WaitInv /\ HandInv

\* contextRelease keeps the types, and a context that stays allocated keeps a
\* reference.
LEMMA ReleaseType ==
    ASSUME TypeOK, LiveRef, NEW c \in Contexts, contextRelease(c)
    PROVE  /\ ref' \in [Contexts -> Nat]
           /\ mem' \in [Contexts -> {"unborn", "live", "freed"}]
           /\ LiveRef'
<1>1. ref[c] \in Nat /\ ref[c] >= 1
  BY DEF TypeOK, LiveRef, contextRelease
<1>2. ref' \in [Contexts -> Nat]
  BY <1>1 DEF TypeOK, contextRelease
<1>3. mem' \in [Contexts -> {"unborn", "live", "freed"}]
  BY DEF TypeOK, contextRelease
<1>4. ASSUME NEW d \in Contexts, mem'[d] = "live" PROVE ref'[d] >= 1
  BY <1>1, <1>4 DEF TypeOK, LiveRef, contextRelease
<1> QED BY <1>2, <1>3, <1>4 DEF LiveRef

\* Taking a message leaves a sequence of messages.
LEMMA TakeType ==
    ASSUME TypeOK, NEW w \in Workers, cur[w] \in Contexts, TakeMessage(w)
    PROVE  messages' \in [Contexts -> Seq(Messages)]
<1>1. messages[cur[w]] \in Seq(Messages) /\ messages[cur[w]] # <<>>
  BY DEF TypeOK, TakeMessage
<1>2. Tail(messages[cur[w]]) \in Seq(Messages)
  BY <1>1, HeadTailProperties
<1> QED BY <1>2 DEF TypeOK, TakeMessage

LEMMA TypeStep ==
    ASSUME TypeInv, [Next]_vars
    PROVE  TypeInv'
<1> USE PoolAssumption
    DEF TypeInv, TypeOK, LiveRef, WaitInv, HandInv, InHand, ctxVars, poolVars, threadVars, stopVars, budget, Goto, SendTo, EndSend,
        AfterSend, MaySend, contextRelease, ctxMgrRemoveContext, TakeMessage, WakeAll,
        Messages, WorkerSteps, SendSteps, Threads
<1>1. ASSUME NEW t \in Threads, NEW c \in Contexts, NEW m \in {"data", "exit"}, SendCall(t, c, m)
      PROVE TypeInv'
  <2>1. TypeOK'
    <3>1. /\ toctx' \in [Threads -> Contexts \cup {None}] /\ msg' \in [Threads -> Messages]
          /\ pc' \in [Threads -> WorkerSteps \cup SendSteps \cup {"idle"}]
      BY <1>1 DEF SendCall
    <3>2. sends' \in Nat /\ exits' \in Nat
      BY <1>1 DEF SendCall
    <3>3. UNCHANGED <<ctxVars, contexts, poolVars, cur, stopVars, broken>>
      BY <1>1 DEF SendCall
    <3> QED BY <3>1, <3>2, <3>3
  <2>2. LiveRef' /\ WaitInv'
    BY <1>1 DEF SendCall
  <2>3. HandInv'
    BY <1>1 DEF SendCall
  <2> QED BY <2>1, <2>2, <2>3
<1>2. ASSUME NEW t \in Threads, SendGet(t) PROVE TypeInv'
  BY <1>2 DEF SendGet
<1>3. ASSUME NEW t \in Threads, SendNotFound(t) PROVE TypeInv'
  BY <1>3 DEF SendNotFound
<1>4. ASSUME NEW t \in Threads, contextRetain(t) PROVE TypeInv'
  BY <1>4 DEF contextRetain
<1>5. ASSUME NEW t \in Threads, messageQueuePush(t) PROVE TypeInv'
  <2>1. messages' \in [Contexts -> Seq(Messages)]
    BY <1>5 DEF messageQueuePush
  <2>2. pc' \in [Threads -> WorkerSteps \cup SendSteps \cup {"idle"}]
    BY <1>5 DEF messageQueuePush
  <2>3. /\ UNCHANGED <<mem, ref, inGlobal, cb, contexts, poolVars, cur, toctx, msg>>
        /\ UNCHANGED <<stopVars, broken, budget>>
    BY <1>5 DEF messageQueuePush
  <2>4. TypeOK'
    BY <2>1, <2>2, <2>3
  <2>5. LiveRef' /\ WaitInv' /\ HandInv'
    BY <1>5 DEF messageQueuePush
  <2> QED BY <2>4, <2>5
<1>6. ASSUME NEW t \in Threads, MessageQueueFull(t) PROVE TypeInv'
  BY <1>6 DEF MessageQueueFull
<1>7. ASSUME NEW t \in Threads, SendMark(t) PROVE TypeInv'
  BY <1>7 DEF SendMark
<1>8. ASSUME NEW t \in Threads, SendMarked(t) PROVE TypeInv'
  BY <1>8 DEF SendMarked
<1>9. ASSUME NEW t \in Threads, SendPublish(t) PROVE TypeInv'
  <2>1. TypeOK'
    <3>1. queue' \in Seq(Contexts)
      BY <1>9 DEF SendPublish
    <3>2. pc' \in [Threads -> WorkerSteps \cup SendSteps \cup {"idle"}]
      BY <1>9 DEF SendPublish
    <3>3. /\ UNCHANGED <<ctxVars, contexts, count, running, waiting, cur, toctx, msg>>
          /\ UNCHANGED <<stopVars, broken, budget>>
      BY <1>9 DEF SendPublish
    <3> QED BY <3>1, <3>2, <3>3
  <2>2. LiveRef' /\ WaitInv'
    BY <1>9 DEF SendPublish
  <2>3. HandInv'
    BY <1>9 DEF SendPublish
  <2> QED BY <2>1, <2>2, <2>3
<1>10. ASSUME NEW t \in Threads, SendPublishRefused(t) PROVE TypeInv'
  <2>1. TypeOK'
    <3>1. lost' \in [Contexts -> Nat]
      BY <1>10 DEF SendPublishRefused
    <3>2. pc' \in [Threads -> WorkerSteps \cup SendSteps \cup {"idle"}]
      BY <1>10 DEF SendPublishRefused
    <3>3. /\ UNCHANGED <<ctxVars, contexts, poolVars, cur, toctx, msg>>
          /\ UNCHANGED <<stopping, left, drops, broken, budget>>
      BY <1>10 DEF SendPublishRefused
    <3> QED BY <3>1, <3>2, <3>3
  <2>2. LiveRef' /\ WaitInv'
    BY <1>10 DEF SendPublishRefused
  <2>3. HandInv'
    BY <1>10 DEF SendPublishRefused
  <2> QED BY <2>1, <2>2, <2>3
<1>11. ASSUME NEW t \in Threads, SendCount(t) PROVE TypeInv'
  <2>1. TypeOK'
    <3>1. count' \in 0 .. Word - 1
      BY <1>11 DEF SendCount
    <3>2. pc' \in [Threads -> WorkerSteps \cup SendSteps \cup {"idle"}]
      BY <1>11 DEF SendCount
    <3>3. /\ UNCHANGED <<ctxVars, contexts, queue, running, waiting, cur, toctx, msg>>
          /\ UNCHANGED <<stopVars, broken, budget>>
      BY <1>11 DEF SendCount
    <3> QED BY <3>1, <3>2, <3>3
  <2>2. LiveRef' /\ WaitInv'
    BY <1>11 DEF SendCount
  <2>3. HandInv'
    BY <1>11 DEF SendCount
  <2> QED BY <2>1, <2>2, <2>3
<1>12. ASSUME NEW t \in Threads, threadWakeUp(t) PROVE TypeInv'
  <2>1. /\ pc[t] = "signal"
        /\ toctx' = (IF msg[t] = "init" THEN toctx ELSE [toctx EXCEPT ![t] = None])
        /\ msg' = [msg EXCEPT ![t] = "data"]
    BY <1>12 DEF threadWakeUp
  <2>2. /\ UNCHANGED <<ctxVars, contexts, queue, count, running, cur>>
        /\ UNCHANGED <<stopVars, broken, budget>>
    BY <1>12 DEF threadWakeUp
  <2>3. /\ toctx' \in [Threads -> Contexts \cup {None}] /\ msg' \in [Threads -> Messages]
        /\ \A u \in Threads : u # t => toctx'[u] = toctx[u]
        /\ toctx[t] \in Contexts /\ (t \in Workers => cur[t] \in Contexts)
    BY <2>1
  <2>4. AfterSend(t) = "launched" => toctx'[t] = toctx[t]
    BY <2>1
  <2>5. AfterSend(t) \in {"launched", "callback", "idle"}
    OBVIOUS
  <2>6. ASSUME waiting' = waiting, pc' = [pc EXCEPT ![t] = AfterSend(t)]
        PROVE  TypeInv'
    <3> HIDE DEF AfterSend
    <3>1. TypeOK'
      BY <2>2, <2>3, <2>5, <2>6
    <3>2. LiveRef' /\ WaitInv'
      BY <2>1, <2>2, <2>6
    <3>3. HandInv'
      BY <2>2, <2>3, <2>4, <2>5, <2>6
    <3> QED BY <3>1, <3>2, <3>3
  <2>7. ASSUME NEW w \in waiting, waiting' = waiting \ {w},
               pc' = [pc EXCEPT ![w] = "sleep", ![t] = AfterSend(t)]
        PROVE  TypeInv'
    <3> HIDE DEF AfterSend
    <3>1. TypeOK'
      BY <2>2, <2>3, <2>5, <2>7
    <3>2. LiveRef' /\ WaitInv'
      BY <2>1, <2>2, <2>7
    <3>3. HandInv'
      <4>1. \A u \in Threads :
               \/ u = t /\ pc'[u] = AfterSend(t)
               \/ u = w /\ pc'[u] = "sleep"
               \/ u # t /\ u # w /\ pc'[u] = pc[u]
        <5>1. w \in Threads
          OBVIOUS
        <5> QED BY <2>7, <5>1
      <4>2. \A u \in Threads : pc'[u] \in SendSteps \cup {"launched"} => toctx'[u] \in Contexts
        BY <2>2, <2>3, <2>4, <2>5, <4>1
      <4>3. \A v \in Workers : pc'[v] \in InHand => cur'[v] \in Contexts
        BY <2>2, <2>3, <2>5, <4>1
      <4> QED BY <4>2, <4>3
    <3> QED BY <3>1, <3>2, <3>3
  <2> QED BY <1>12, <2>6, <2>7 DEF threadWakeUp
<1>13. ASSUME NEW t \in Threads, SendRelease(t) PROVE TypeInv'
  <2>1. toctx[t] \in Contexts
    BY <1>13 DEF SendRelease
  <2>2. /\ ref' \in [Contexts -> Nat] /\ LiveRef'
        /\ mem' \in [Contexts -> {"unborn", "live", "freed"}]
    BY <1>13, <2>1, ReleaseType DEF SendRelease
  <2>3. CASE ref[toctx[t]] = 1
    <3>1. pc' = [pc EXCEPT ![t] = "sendRemove"] /\ pc[t] = "sendRelease"
      BY <1>13, <2>3 DEF SendRelease
    <3>2. /\ UNCHANGED <<toctx, msg, inGlobal, cb, messages, contexts, poolVars, cur>>
          /\ UNCHANGED <<stopVars, broken, budget>>
      BY <1>13, <2>3 DEF SendRelease
    <3> QED BY <2>1, <2>2, <3>1, <3>2
  <2>4. CASE ref[toctx[t]] # 1
    <3>1. CASE msg[t] = "init"
      <4>1. TypeOK'
        <5>1. toctx' = toctx /\ msg' = [msg EXCEPT ![t] = "data"]
          BY <1>13, <2>4, <3>1 DEF SendRelease
        <5>2. pc' = [pc EXCEPT ![t] = "launched"]
          BY <1>13, <2>4, <3>1 DEF SendRelease
        <5>3. /\ UNCHANGED <<inGlobal, cb, messages, contexts, poolVars, cur>>
              /\ UNCHANGED <<stopVars, broken, budget>>
          BY <1>13 DEF SendRelease
        <5> QED BY <2>2, <5>1, <5>2, <5>3
      <4>2. LiveRef' /\ WaitInv'
        BY <1>13, <2>2, <2>4, <3>1 DEF SendRelease
      <4>3. HandInv'
        BY <1>13, <2>2, <2>4, <3>1 DEF SendRelease
      <4> QED BY <4>1, <4>2, <4>3
    <3>2. CASE msg[t] # "init"
      <4>1. TypeOK'
        <5>1. toctx' = [toctx EXCEPT ![t] = None] /\ msg' = [msg EXCEPT ![t] = "data"]
          BY <1>13, <2>4, <3>2 DEF SendRelease
        <5>2. pc' = [pc EXCEPT ![t] = MaySend(t)]
          BY <1>13, <2>4, <3>2 DEF SendRelease
        <5>3. /\ UNCHANGED <<inGlobal, cb, messages, contexts, poolVars, cur>>
              /\ UNCHANGED <<stopVars, broken, budget>>
          BY <1>13 DEF SendRelease
        <5> QED BY <2>2, <5>1, <5>2, <5>3
      <4>2. LiveRef' /\ WaitInv'
        BY <1>13, <2>2, <2>4, <3>2 DEF SendRelease
      <4>3. HandInv'
        <5>1. /\ toctx' = [toctx EXCEPT ![t] = None] /\ cur' = cur
              /\ pc' = [pc EXCEPT ![t] = MaySend(t)] /\ pc[t] = "sendRelease"
          BY <1>13, <2>4, <3>2 DEF SendRelease
        <5> QED BY <2>1, <5>1
      <4> QED BY <4>1, <4>2, <4>3
    <3> QED BY <3>1, <3>2
  <2> QED BY <2>3, <2>4
<1>14. ASSUME NEW t \in Threads, SendRemove(t) PROVE TypeInv'
  BY <1>14 DEF SendRemove
<1>15. ASSUME NEW w \in Workers, contextQueuePop(w) PROVE TypeInv'
  <2>1. TypeOK'
    <3>1. queue' \in Seq(Contexts) /\ Head(queue) \in Contexts
      BY <1>15, HeadTailProperties DEF contextQueuePop
    <3>2. /\ pc' \in [Threads -> WorkerSteps \cup SendSteps \cup {"idle"}]
          /\ cur' \in [Workers -> Contexts \cup {None}]
      BY <1>15, <3>1 DEF contextQueuePop
    <3>3. /\ UNCHANGED <<ctxVars, contexts, count, running, waiting, toctx, msg>>
          /\ UNCHANGED <<stopVars, broken, budget>>
      BY <1>15 DEF contextQueuePop
    <3> QED BY <3>1, <3>2, <3>3
  <2>2. LiveRef' /\ WaitInv'
    BY <1>15 DEF contextQueuePop
  <2>3. HandInv'
    <3>1. Head(queue) \in Contexts
      BY <1>15, HeadTailProperties DEF contextQueuePop
    <3>2. /\ pc' = [pc EXCEPT ![w] = "popCount"] /\ cur' = [cur EXCEPT ![w] = Head(queue)]
          /\ toctx' = toctx
      BY <1>15 DEF contextQueuePop
    <3> QED BY <3>1, <3>2
  <2> QED BY <2>1, <2>2, <2>3
<1>16. ASSUME NEW w \in Workers, PopNothing(w) PROVE TypeInv'
  BY <1>16 DEF PopNothing
<1>17. ASSUME NEW w \in Workers, PopCount(w) PROVE TypeInv'
  <2>1. TypeOK'
    <3>1. count' \in 0 .. Word - 1
      BY <1>17 DEF PopCount
    <3>2. pc' \in [Threads -> WorkerSteps \cup SendSteps \cup {"idle"}]
      BY <1>17 DEF PopCount
    <3>3. /\ UNCHANGED <<ctxVars, contexts, queue, running, waiting, cur, toctx, msg>>
          /\ UNCHANGED <<stopVars, broken, budget>>
      BY <1>17 DEF PopCount
    <3> QED BY <3>1, <3>2, <3>3
  <2>2. LiveRef' /\ WaitInv'
    BY <1>17 DEF PopCount
  <2>3. HandInv'
    BY <1>17 DEF PopCount
  <2> QED BY <2>1, <2>2, <2>3
<1>18. ASSUME NEW w \in Workers, DispatchEmpty(w) PROVE TypeInv'
  BY <1>18 DEF DispatchEmpty
<1>19. ASSUME NEW w \in Workers, DispatchDrop(w) PROVE TypeInv'
  BY <1>19 DEF DispatchDrop
<1>20. ASSUME NEW w \in Workers, DispatchExit(w) PROVE TypeInv'
  <2>1. cur[w] \in Contexts
    BY <1>20 DEF DispatchExit
  <2>2. /\ ref' \in [Contexts -> Nat] /\ LiveRef'
        /\ mem' \in [Contexts -> {"unborn", "live", "freed"}]
    BY <1>20, <2>1, ReleaseType DEF DispatchExit
  <2>3. messages' \in [Contexts -> Seq(Messages)]
    BY <1>20, <2>1, TakeType DEF DispatchExit
  <2>4. WaitInv' /\ HandInv'
    BY <1>20, <2>1 DEF DispatchExit
  <2>5. TypeOK'
    <3>1. drops' \in [Contexts -> Nat] /\ broken' \in {"no", "uaf", "assert", "full"}
      <4>1. /\ drops' = [drops EXCEPT ![cur[w]] = @ + 1]
            /\ broken' = IF ref[cur[w]] = 1 THEN "assert" ELSE "no"
        BY <1>20 DEF DispatchExit
      <4>2. drops \in [Contexts -> Nat]
        OBVIOUS
      <4> HIDE DEF TypeInv, TypeOK, WaitInv, HandInv
      <4>3. drops' \in [Contexts -> Nat]
        BY <2>1, <4>1, <4>2
      <4>4. broken' \in {"no", "uaf", "assert", "full"}
        BY <4>1
      <4> QED BY <4>3, <4>4
    <3>2. pc' \in [Threads -> WorkerSteps \cup SendSteps \cup {"idle"}]
      BY <1>20 DEF DispatchExit
    <3>3. /\ UNCHANGED <<inGlobal, cb, contexts, poolVars, cur, toctx, msg>>
          /\ UNCHANGED <<stopping, left, lost, budget>>
      BY <1>20 DEF DispatchExit
    <3> QED BY <2>2, <2>3, <3>1, <3>2, <3>3
  <2> QED BY <2>2, <2>4, <2>5
<1>21. ASSUME NEW w \in Workers, DispatchCallback(w) PROVE TypeInv'
  BY <1>21 DEF DispatchCallback
<1>22. ASSUME NEW w \in Workers, DispatchLaunch(w) PROVE TypeInv'
  BY <1>22 DEF DispatchLaunch
<1>23. ASSUME NEW w \in Workers, LoadSucceeds(w) PROVE TypeInv'
  BY <1>23 DEF LoadSucceeds
<1>24. ASSUME NEW w \in Workers, LoadFails(w) PROVE TypeInv'
  BY <1>24 DEF LoadFails
<1>25. ASSUME NEW w \in Workers, Launched(w) PROVE TypeInv'
  BY <1>25 DEF Launched
<1>26. ASSUME NEW w \in Workers, CallbackReturns(w) PROVE TypeInv'
  BY <1>26 DEF CallbackReturns
<1>27. ASSUME NEW w \in Workers, HaveWork(w) PROVE TypeInv'
  BY <1>27 DEF HaveWork
<1>28. ASSUME NEW w \in Workers, PushBack(w) PROVE TypeInv'
  <2>1. queue' \in Seq(Contexts)
    BY <1>28 DEF PushBack
  <2>2. /\ pc' \in [Threads -> WorkerSteps \cup SendSteps \cup {"idle"}]
        /\ cur' \in [Workers -> Contexts \cup {None}]
    BY <1>28 DEF PushBack
  <2>3. /\ UNCHANGED <<ctxVars, contexts, count, running, waiting, toctx, msg>>
        /\ UNCHANGED <<stopVars, broken, budget>>
    BY <1>28 DEF PushBack
  <2>4. TypeOK'
    BY <2>1, <2>2, <2>3
  <2>5. LiveRef' /\ WaitInv' /\ HandInv'
    BY <1>28 DEF PushBack
  <2> QED BY <2>4, <2>5
<1>29. ASSUME NEW w \in Workers, PushBackRefused(w) PROVE TypeInv'
  BY <1>29 DEF PushBackRefused
<1>30. ASSUME NEW w \in Workers, PushBackCount(w) PROVE TypeInv'
  BY <1>30 DEF PushBackCount
<1>31. ASSUME NEW w \in Workers, ClearInGlobal(w) PROVE TypeInv'
  BY <1>31 DEF ClearInGlobal
<1>32. ASSUME NEW w \in Workers, ctxMgrReleaseContext(w) PROVE TypeInv'
  BY <1>32 DEF ctxMgrReleaseContext
<1>33. ASSUME NEW w \in Workers, Remove(w) PROVE TypeInv'
  BY <1>33 DEF Remove
<1>34. ASSUME NEW w \in Workers, CheckNumZero(w) PROVE TypeInv'
  BY <1>34 DEF CheckNumZero
<1>35. ASSUME NEW w \in Workers, CheckNum(w) PROVE TypeInv'
  BY <1>35 DEF CheckNum
<1>36. ASSUME NEW w \in Workers, threadSleep(w) PROVE TypeInv'
  BY <1>36 DEF threadSleep
<1>37. ASSUME NEW w \in Workers, StayAwake(w) PROVE TypeInv'
  BY <1>37 DEF StayAwake
<1>38. ASSUME NEW w \in Workers, NEW c \in Contexts, Launch(w, c) PROVE TypeInv'
  <2>1. TypeOK'
    BY <1>38 DEF Launch
  <2>2. LiveRef' /\ WaitInv'
    BY <1>38 DEF Launch
  <2>3. HandInv'
    BY <1>38 DEF Launch
  <2> QED BY <2>1, <2>2, <2>3
<1>39. ASSUME NEW c \in Contexts, StopContext(c) PROVE TypeInv'
  BY <1>39 DEF StopContext
<1>40. ASSUME StopBegin PROVE TypeInv'
  BY <1>40 DEF StopBegin
<1>41. ASSUME StopUnlock PROVE TypeInv'
  BY <1>41 DEF StopUnlock
<1>42. ASSUME workerPoolStop PROVE TypeInv'
  BY <1>42 DEF workerPoolStop
<1>43. ASSUME UseAfterFree PROVE TypeInv'
  BY <1>43 DEF UseAfterFree
<1>44. CASE UNCHANGED vars
  BY <1>44 DEF vars
<1> HIDE DEF TypeInv, TypeOK, LiveRef, WaitInv, HandInv, InHand, ctxVars, poolVars, threadVars, stopVars, budget, Goto, SendTo, EndSend,
        AfterSend, MaySend, contextRelease, ctxMgrRemoveContext, TakeMessage, WakeAll,
        Messages, WorkerSteps, SendSteps, Threads
<1> QED
  BY <1>1, <1>2, <1>3, <1>4, <1>5, <1>6, <1>7, <1>8, <1>9, <1>10, <1>11,
     <1>12, <1>13, <1>14, <1>15, <1>16, <1>17, <1>18, <1>19, <1>20, <1>21,
     <1>22, <1>23, <1>24, <1>25, <1>26, <1>27, <1>28, <1>29, <1>30, <1>31,
     <1>32, <1>33, <1>34, <1>35, <1>36, <1>37, <1>38, <1>39, <1>40, <1>41,
     <1>42, <1>43, <1>44
  DEF Next, Step, ContinueStop, workerPoolSend, handle

-----------------------------------------------------------------------------
(* Tokens *)

\* No token appears: the queue and inGlobal are left alone, and whoever owns or
\* queues a context did so before the step.
NoNewToken ==
    /\ UNCHANGED <<queue, inGlobal>>
    /\ \A w \in Workers, c \in Contexts : Owns(w, c)' => Owns(w, c)
    /\ \A t \in Threads, c \in Contexts : Queues(t, c)' => Queues(t, c)

\* A step that creates no token keeps TokenInv.
LEMMA TokensKept ==
    ASSUME TypeInv, TokenInv, NoNewToken
    PROVE  TokenInv'
<1>1. \A i \in 1 .. Len(queue) : queue[i] \in Contexts
  BY DEF TypeInv, TypeOK
<1>2. queue' = queue /\ inGlobal' = inGlobal
  BY DEF NoNewToken
<1> QED BY <1>1, <1>2 DEF TokenInv, NoNewToken

\* Every step except the five that move a token creates none.
LEMMA TokenFreeStep ==
    ASSUME TypeInv
    PROVE  /\ \A t \in Threads :
                 \/ \E c \in Contexts, m \in {"data", "exit"} : SendCall(t, c, m)
                 \/ SendGet(t)
                 \/ SendNotFound(t)
                 \/ contextRetain(t)
                 \/ messageQueuePush(t)
                 \/ MessageQueueFull(t)
                 \/ SendMarked(t)
                 \/ SendPublishRefused(t)
                 \/ SendCount(t)
                 \/ threadWakeUp(t)
                 \/ SendRelease(t)
                 \/ SendRemove(t)
                 => NoNewToken
           /\ \A w \in Workers :
                 \/ \E c \in Contexts : Launch(w, c)
                 \/ PopNothing(w)
                 \/ PopCount(w)
                 \/ DispatchEmpty(w)
                 \/ DispatchDrop(w)
                 \/ DispatchExit(w)
                 \/ DispatchCallback(w)
                 \/ DispatchLaunch(w)
                 \/ LoadSucceeds(w)
                 \/ LoadFails(w)
                 \/ Launched(w)
                 \/ CallbackReturns(w)
                 \/ HaveWork(w)
                 \/ PushBackRefused(w)
                 \/ PushBackCount(w)
                 \/ ctxMgrReleaseContext(w)
                 \/ Remove(w)
                 \/ CheckNumZero(w)
                 \/ CheckNum(w)
                 \/ threadSleep(w)
                 \/ StayAwake(w)
                 => NoNewToken
           /\ StopBegin \/ ContinueStop \/ UseAfterFree => NoNewToken
           /\ UNCHANGED vars => NoNewToken
<1> USE PoolAssumption DEF TypeInv, TypeOK, WaitInv, NoNewToken, Owns, Queues, ctxVars, poolVars, threadVars,
        stopVars, Goto, SendTo, EndSend, AfterSend, MaySend, TakeMessage, WakeAll, Threads
<1>1. ASSUME NEW t \in Threads, NEW c \in Contexts, NEW m \in {"data", "exit"}, SendCall(t, c, m)
      PROVE NoNewToken
  BY <1>1 DEF SendCall
<1>2. ASSUME NEW t \in Threads, SendGet(t) PROVE NoNewToken
  BY <1>2 DEF SendGet
<1>3. ASSUME NEW t \in Threads, SendNotFound(t) PROVE NoNewToken
  BY <1>3 DEF SendNotFound
<1>4. ASSUME NEW t \in Threads, contextRetain(t) PROVE NoNewToken
  BY <1>4 DEF contextRetain
<1>5. ASSUME NEW t \in Threads, messageQueuePush(t) PROVE NoNewToken
  BY <1>5 DEF messageQueuePush
<1>6. ASSUME NEW t \in Threads, MessageQueueFull(t) PROVE NoNewToken
  BY <1>6 DEF MessageQueueFull
<1>7. ASSUME NEW t \in Threads, SendMarked(t) PROVE NoNewToken
  BY <1>7 DEF SendMarked
<1>8. ASSUME NEW t \in Threads, SendPublishRefused(t) PROVE NoNewToken
  BY <1>8 DEF SendPublishRefused
<1>9. ASSUME NEW t \in Threads, SendCount(t) PROVE NoNewToken
  BY <1>9 DEF SendCount
<1>10. ASSUME NEW t \in Threads, threadWakeUp(t) PROVE NoNewToken
  <2>1. /\ UNCHANGED <<queue, inGlobal, cur>> /\ pc[t] = "signal"
        /\ \A u \in Threads : u # t => toctx'[u] = toctx[u]
    BY <1>10 DEF threadWakeUp
  <2>2. AfterSend(t) \in {"launched", "callback", "idle"}
    OBVIOUS
  <2> DEFINE Woken(u) == pc'[u] \in {"sleep", "launched", "callback", "idle"}
                         /\ pc[u] \in {"waiting", "signal"}
  <2>3. ASSUME NEW u \in Threads PROVE (u # t /\ pc'[u] = pc[u]) \/ Woken(u)
    <3> DEFINE next == AfterSend(t)
    <3>1. next \in {"launched", "callback", "idle"}
      BY <2>2
    <3> HIDE DEF next, AfterSend
    <3>2. CASE pc' = [pc EXCEPT ![t] = next]
      BY <2>1, <3>1, <3>2
    <3>3. ASSUME NEW w \in waiting, pc' = [pc EXCEPT ![w] = "sleep", ![t] = next]
          PROVE  (u # t /\ pc'[u] = pc[u]) \/ Woken(u)
      <4>1. w \in Threads /\ pc[w] = "waiting"
        OBVIOUS
      <4> QED BY <2>1, <3>1, <3>3, <4>1
    <3> QED BY <1>10, <3>2, <3>3 DEF threadWakeUp, next
  <2> QED BY <2>1, <2>3
<1>11. ASSUME NEW t \in Threads, SendRelease(t) PROVE NoNewToken
  BY <1>11 DEF SendRelease
<1>12. ASSUME NEW t \in Threads, SendRemove(t) PROVE NoNewToken
  BY <1>12 DEF SendRemove
<1>13. ASSUME NEW w \in Workers, NEW c \in Contexts, Launch(w, c) PROVE NoNewToken
  BY <1>13 DEF Launch
<1>14. ASSUME NEW w \in Workers, PopNothing(w) PROVE NoNewToken
  BY <1>14 DEF PopNothing
<1>15. ASSUME NEW w \in Workers, PopCount(w) PROVE NoNewToken
  BY <1>15 DEF PopCount
<1>16. ASSUME NEW w \in Workers, DispatchEmpty(w) PROVE NoNewToken
  BY <1>16 DEF DispatchEmpty
<1>17. ASSUME NEW w \in Workers, DispatchDrop(w) PROVE NoNewToken
  BY <1>17 DEF DispatchDrop
<1>18. ASSUME NEW w \in Workers, DispatchExit(w) PROVE NoNewToken
  BY <1>18 DEF DispatchExit
<1>19. ASSUME NEW w \in Workers, DispatchCallback(w) PROVE NoNewToken
  BY <1>19 DEF DispatchCallback
<1>20. ASSUME NEW w \in Workers, DispatchLaunch(w) PROVE NoNewToken
  BY <1>20 DEF DispatchLaunch
<1>21. ASSUME NEW w \in Workers, LoadSucceeds(w) PROVE NoNewToken
  BY <1>21 DEF LoadSucceeds
<1>22. ASSUME NEW w \in Workers, LoadFails(w) PROVE NoNewToken
  BY <1>22 DEF LoadFails
<1>23. ASSUME NEW w \in Workers, Launched(w) PROVE NoNewToken
  BY <1>23 DEF Launched
<1>24. ASSUME NEW w \in Workers, CallbackReturns(w) PROVE NoNewToken
  BY <1>24 DEF CallbackReturns
<1>25. ASSUME NEW w \in Workers, HaveWork(w) PROVE NoNewToken
  BY <1>25 DEF HaveWork
<1>26. ASSUME NEW w \in Workers, PushBackRefused(w) PROVE NoNewToken
  BY <1>26 DEF PushBackRefused
<1>27. ASSUME NEW w \in Workers, PushBackCount(w) PROVE NoNewToken
  BY <1>27 DEF PushBackCount
<1>28. ASSUME NEW w \in Workers, ctxMgrReleaseContext(w) PROVE NoNewToken
  BY <1>28 DEF ctxMgrReleaseContext
<1>29. ASSUME NEW w \in Workers, Remove(w) PROVE NoNewToken
  BY <1>29 DEF Remove
<1>30. ASSUME NEW w \in Workers, CheckNumZero(w) PROVE NoNewToken
  BY <1>30 DEF CheckNumZero
<1>31. ASSUME NEW w \in Workers, CheckNum(w) PROVE NoNewToken
  BY <1>31 DEF CheckNum
<1>32. ASSUME NEW w \in Workers, threadSleep(w) PROVE NoNewToken
  BY <1>32 DEF threadSleep
<1>33. ASSUME NEW w \in Workers, StayAwake(w) PROVE NoNewToken
  BY <1>33 DEF StayAwake
<1>34. ASSUME StopBegin PROVE NoNewToken
  BY <1>34 DEF StopBegin
<1>35. ASSUME NEW c \in Contexts, StopContext(c) PROVE NoNewToken
  BY <1>35 DEF StopContext
<1>36. ASSUME StopUnlock PROVE NoNewToken
  BY <1>36 DEF StopUnlock
<1>37. ASSUME workerPoolStop PROVE NoNewToken
  BY <1>37 DEF workerPoolStop
<1>38. ASSUME UseAfterFree PROVE NoNewToken
  BY <1>38 DEF UseAfterFree
<1>39. ASSUME UNCHANGED vars PROVE NoNewToken
  BY <1>39 DEF vars
<1> HIDE DEF TypeInv, TypeOK, WaitInv, NoNewToken, Owns, Queues, ctxVars, poolVars, threadVars,
        stopVars, Goto, SendTo, EndSend, AfterSend, MaySend, TakeMessage, WakeAll, Threads
<1> QED
  BY <1>1, <1>2, <1>3, <1>4, <1>5, <1>6, <1>7, <1>8, <1>9, <1>10, <1>11,
     <1>12, <1>13, <1>14, <1>15, <1>16, <1>17, <1>18, <1>19, <1>20, <1>21, <1>22,
     <1>23, <1>24, <1>25, <1>26, <1>27, <1>28, <1>29, <1>30, <1>31, <1>32, <1>33,
     <1>34, <1>35, <1>36, <1>37, <1>38, <1>39
  DEF ContinueStop

\* SendMark creates the token of a context that had none.
LEMMA MarkTakesToken ==
    ASSUME TypeInv, TokenInv, NEW t \in Threads, SendMark(t)
    PROVE  TokenInv'
<1>1. toctx[t] \in Contexts /\ inGlobal[toctx[t]] = 0
  BY DEF SendMark, Goto, TypeInv, HandInv, SendSteps
<1>2. /\ inGlobal' = [inGlobal EXCEPT ![toctx[t]] = 1]
      /\ UNCHANGED <<queue, cur, toctx>>
      /\ pc[t] = "mark" /\ pc' = [pc EXCEPT ![t] = "sendPublish"]
  BY DEF SendMark, Goto, poolVars
<1>3. \A w \in Workers, c \in Contexts : Owns(w, c)' => Owns(w, c)
  BY <1>2 DEF Owns, TypeInv, TypeOK, Threads
<1>4. \A u \in Threads, c \in Contexts :
         Queues(u, c)' => Queues(u, c) \/ (u = t /\ c = toctx[t])
  BY <1>2 DEF Queues, TypeInv, TypeOK
<1>5. \A c \in Contexts : inGlobal[c] = 1 => inGlobal'[c] = 1 /\ c # toctx[t]
  BY <1>1, <1>2 DEF TypeInv, TypeOK
<1>6. inGlobal'[toctx[t]] = 1
  BY <1>1, <1>2 DEF TypeInv, TypeOK
<1>7. \A i \in 1 .. Len(queue) : queue[i] \in Contexts
  BY DEF TypeInv, TypeOK
<1>8. queue' = queue
  BY <1>2
<1> QED BY <1>1, <1>3, <1>4, <1>5, <1>6, <1>7, <1>8 DEF TokenInv

\* A context that is appended to the queue by whoever held its token is in the
\* queue once, and nobody else holds it.
LEMMA AppendMovesToken ==
    ASSUME TypeInv, TokenInv, NEW c \in Contexts, inGlobal[c] = 1,
           UNCHANGED inGlobal, queue' = Append(queue, c),
           \A i \in 1 .. Len(queue) : queue[i] # c,
           \A w \in Workers, d \in Contexts : Owns(w, d)' => Owns(w, d) /\ d # c,
           \A t \in Threads, d \in Contexts : Queues(t, d)' => Queues(t, d) /\ d # c
    PROVE  TokenInv'
<1>1. queue \in Seq(Contexts)
  BY DEF TypeInv, TypeOK
<1>2. Len(queue') = Len(queue) + 1 /\ Len(queue) \in Nat
  BY <1>1
<1>3. \A i \in 1 .. Len(queue') :
         \/ i \in 1 .. Len(queue) /\ queue'[i] = queue[i]
         \/ i = Len(queue) + 1 /\ queue'[i] = c
  BY <1>1, <1>2
<1>4. \A i \in 1 .. Len(queue) : queue[i] \in Contexts
  BY <1>1
<1> QED BY <1>2, <1>3, <1>4 DEF TokenInv

LEMMA PublishMovesToken ==
    ASSUME TypeInv, TokenInv, NEW t \in Threads, SendPublish(t)
    PROVE  TokenInv'
<1>1. toctx[t] \in Contexts /\ Queues(t, toctx[t])
  BY DEF SendPublish, Goto, TypeInv, HandInv, SendSteps, Queues
<1>2. /\ UNCHANGED <<inGlobal, cur, toctx>>
      /\ queue' = Append(queue, toctx[t])
      /\ pc[t] = "sendPublish" /\ pc' = [pc EXCEPT ![t] = "sendCount"]
  BY DEF SendPublish, Goto, ctxVars
<1>3. /\ inGlobal[toctx[t]] = 1
      /\ \A i \in 1 .. Len(queue) : queue[i] # toctx[t]
  BY <1>1 DEF TokenInv
<1>4. \A w \in Workers, d \in Contexts : Owns(w, d)' => Owns(w, d) /\ d # toctx[t]
  <2>1. \A w \in Workers, d \in Contexts : Owns(w, d)' => Owns(w, d)
    BY <1>2 DEF Owns, TypeInv, TypeOK, Threads
  <2>2. \A w \in Workers : ~Owns(w, toctx[t])
    BY <1>1 DEF TokenInv
  <2> QED BY <2>1, <2>2
<1>5. \A u \in Threads, d \in Contexts : Queues(u, d)' => Queues(u, d) /\ d # toctx[t]
  <2>1. \A u \in Threads, d \in Contexts : Queues(u, d)' => Queues(u, d) /\ u # t
    BY <1>2 DEF Queues, TypeInv, TypeOK
  <2>2. \A u \in Threads : Queues(u, toctx[t]) => u = t
    BY <1>1 DEF TokenInv
  <2> QED BY <2>1, <2>2
<1> QED BY <1>1, <1>2, <1>3, <1>4, <1>5, AppendMovesToken

LEMMA PushBackMovesToken ==
    ASSUME TypeInv, TokenInv, NEW w \in Workers, PushBack(w)
    PROVE  TokenInv'
<1>1. cur[w] \in Contexts /\ Owns(w, cur[w])
  BY DEF PushBack, Goto, TypeInv, HandInv, InHand, Owns
<1>2. /\ UNCHANGED <<inGlobal, toctx>>
      /\ queue' = Append(queue, cur[w])
      /\ cur' = [cur EXCEPT ![w] = None]
      /\ pc[w] = "publish" /\ pc' = [pc EXCEPT ![w] = "count"]
  BY DEF PushBack, Goto, ctxVars
<1>3. /\ inGlobal[cur[w]] = 1
      /\ \A i \in 1 .. Len(queue) : queue[i] # cur[w]
  BY <1>1 DEF TokenInv
<1>4. \A v \in Workers, d \in Contexts : Owns(v, d)' => Owns(v, d) /\ d # cur[w]
  <2>1. \A v \in Workers, d \in Contexts : Owns(v, d)' => Owns(v, d) /\ v # w
    BY <1>2, PoolAssumption DEF Owns, TypeInv, TypeOK, Threads
  <2>2. \A v \in Workers : Owns(v, cur[w]) => v = w
    BY <1>1 DEF TokenInv
  <2> QED BY <2>1, <2>2
<1>5. \A t \in Threads, d \in Contexts : Queues(t, d)' => Queues(t, d) /\ d # cur[w]
  <2>1. \A t \in Threads, d \in Contexts : Queues(t, d)' => Queues(t, d)
    BY <1>2 DEF Queues, TypeInv, TypeOK, Threads
  <2>2. \A t \in Threads : ~Queues(t, cur[w])
    BY <1>1 DEF TokenInv
  <2> QED BY <2>1, <2>2
<1> QED BY <1>1, <1>2, <1>3, <1>4, <1>5, AppendMovesToken

\* The worker that pops a context becomes its only owner.
LEMMA PopMovesToken ==
    ASSUME TypeInv, TokenInv, NEW w \in Workers, contextQueuePop(w)
    PROVE  TokenInv'
<1> DEFINE c == Head(queue)
<1>1. queue \in Seq(Contexts) /\ queue # <<>>
  BY DEF contextQueuePop, TypeInv, TypeOK
<1>2. /\ UNCHANGED <<inGlobal, toctx>>
      /\ queue' = Tail(queue)
      /\ cur' = [cur EXCEPT ![w] = c]
      /\ pc[w] = "pop" /\ pc' = [pc EXCEPT ![w] = "popCount"]
  BY DEF contextQueuePop, Goto, ctxVars
<1>3. /\ c = queue[1] /\ c \in Contexts /\ 1 \in 1 .. Len(queue)
      /\ Len(queue) \in Nat /\ Len(queue') = Len(queue) - 1
      /\ \A i \in 1 .. Len(queue') : queue'[i] = queue[i + 1] /\ i + 1 \in 1 .. Len(queue)
  BY <1>1, <1>2
<1>4. \A v \in Workers, d \in Contexts :
         Owns(v, d)' => (Owns(v, d) /\ v # w) \/ (v = w /\ d = c)
  BY <1>2 DEF Owns, TypeInv, TypeOK, Threads
<1>5. \A t \in Threads, d \in Contexts : Queues(t, d)' => Queues(t, d)
  BY <1>2 DEF Queues, TypeInv, TypeOK, Threads
<1>6. /\ inGlobal[c] = 1
      /\ \A v \in Workers : ~Owns(v, c)
      /\ \A t \in Threads : ~Queues(t, c)
  BY <1>3 DEF TokenInv
<1>7. \A i \in 1 .. Len(queue') : queue'[i] # c /\ queue'[i] \in Contexts
  BY <1>1, <1>3 DEF TokenInv
<1>8. inGlobal' = inGlobal
  BY <1>2
<1> HIDE DEF c
<1>9. \A i, j \in 1 .. Len(queue') : queue'[i] = queue'[j] => i = j
  BY <1>3 DEF TokenInv
<1>10. \A i \in 1 .. Len(queue') :
          /\ inGlobal'[queue'[i]] = 1
          /\ \A v \in Workers : ~Owns(v, queue[i])'
          /\ \A t \in Threads : ~Queues(t, queue[i])'
  BY <1>3, <1>4, <1>5, <1>7, <1>8 DEF TokenInv
<1>11. \A v \in Workers, d \in Contexts : Owns(v, d)' =>
          /\ inGlobal'[d] = 1
          /\ \A u \in Workers : Owns(u, d)' => u = v
          /\ \A t \in Threads : ~Queues(t, d)'
  BY <1>4, <1>5, <1>6, <1>8 DEF TokenInv
<1>12. \A t \in Threads, d \in Contexts : Queues(t, d)' =>
          /\ inGlobal'[d] = 1
          /\ \A u \in Threads : Queues(u, d)' => u = t
  BY <1>5, <1>8 DEF TokenInv
<1> QED BY <1>9, <1>10, <1>11, <1>12 DEF TokenInv

\* ClearInGlobal gives up the token of the owner.
LEMMA ClearDropsToken ==
    ASSUME TypeInv, TokenInv, NEW w \in Workers, ClearInGlobal(w)
    PROVE  TokenInv'
<1>1. cur[w] \in Contexts /\ Owns(w, cur[w])
  BY DEF ClearInGlobal, Goto, TypeInv, HandInv, InHand, Owns
<1>2. /\ UNCHANGED <<queue, cur, toctx>>
      /\ inGlobal' = [inGlobal EXCEPT ![cur[w]] = 0]
      /\ pc[w] = "clear" /\ pc' = [pc EXCEPT ![w] = "release"]
  BY DEF ClearInGlobal, Goto, poolVars
<1>3. \A v \in Workers, d \in Contexts : Owns(v, d)' => Owns(v, d) /\ d # cur[w]
  <2>1. \A v \in Workers, d \in Contexts : Owns(v, d)' => Owns(v, d) /\ v # w
    BY <1>2 DEF Owns, TypeInv, TypeOK, Threads
  <2>2. \A v \in Workers : Owns(v, cur[w]) => v = w
    BY <1>1 DEF TokenInv
  <2> QED BY <2>1, <2>2
<1>4. \A t \in Threads, d \in Contexts : Queues(t, d)' => Queues(t, d) /\ d # cur[w]
  <2>1. \A t \in Threads, d \in Contexts : Queues(t, d)' => Queues(t, d)
    BY <1>2 DEF Queues, TypeInv, TypeOK, Threads
  <2>2. \A t \in Threads : ~Queues(t, cur[w])
    BY <1>1 DEF TokenInv
  <2> QED BY <2>1, <2>2
<1>5. \A i \in 1 .. Len(queue) : queue[i] # cur[w] /\ queue[i] \in Contexts
  <2>1. \A i \in 1 .. Len(queue) : queue[i] # cur[w]
    BY <1>1 DEF TokenInv
  <2>2. \A i \in 1 .. Len(queue) : queue[i] \in Contexts
    BY DEF TypeInv, TypeOK
  <2> QED BY <2>1, <2>2
<1>6. \A d \in Contexts : d # cur[w] => inGlobal'[d] = inGlobal[d]
  BY <1>2 DEF TypeInv, TypeOK
<1>7. queue' = queue
  BY <1>2
<1> QED BY <1>3, <1>4, <1>5, <1>6, <1>7 DEF TokenInv

LEMMA TokenStep ==
    ASSUME TypeInv, TokenInv, [Next]_vars
    PROVE  TokenInv'
<1>1. CASE \E t \in Threads : SendMark(t)
  BY <1>1, MarkTakesToken
<1>2. CASE \E t \in Threads : SendPublish(t)
  BY <1>2, PublishMovesToken
<1>3. CASE \E w \in Workers : PushBack(w)
  BY <1>3, PushBackMovesToken
<1>4. CASE \E w \in Workers : contextQueuePop(w)
  BY <1>4, PopMovesToken
<1>5. CASE \E w \in Workers : ClearInGlobal(w)
  BY <1>5, ClearDropsToken
<1>6. CASE NoNewToken
  BY <1>6, TokensKept
<1> QED
  BY <1>1, <1>2, <1>3, <1>4, <1>5, <1>6, TokenFreeStep
  DEF Next, Step, workerPoolSend, handle

-----------------------------------------------------------------------------

\* PoolInv holds in every reachable state of the scheduler, for any number of
\* workers, senders and contexts and any interleaving of handle() and
\* workerPoolSend(): inGlobal is a lock on the context.
THEOREM PoolInvariant == Spec => []PoolInv
<1>1. PoolInv /\ [Next]_vars => PoolInv'
  <2> SUFFICES ASSUME PoolInv, [Next]_vars PROVE PoolInv'
    OBVIOUS
  <2>1. TypeInv /\ TokenInv
    BY DEF PoolInv, TypeInv
  <2>2. TypeInv' /\ TokenInv'
    BY <2>1, TypeStep, TokenStep
  <2> QED BY <2>2 DEF PoolInv, TypeInv
<1> QED BY <1>1, InitPoolInv, PTL DEF Spec

\* The actor model's promise: no two worker threads ever run the same context at
\* the same time.
THEOREM Exclusive == Spec => []ActorExclusive
<1>1. PoolInv => ActorExclusive
  <2> SUFFICES ASSUME PoolInv, NEW v \in Workers, NEW w \in Workers, NEW c \in Contexts,
                      Runs(v, c), Runs(w, c)
               PROVE  v = w
    BY DEF ActorExclusive
  <2>1. Owns(v, c) /\ Owns(w, c)
    BY DEF Runs, Owns, SendSteps
  <2> QED BY <2>1 DEF PoolInv, TokenInv
<1> QED BY <1>1, PoolInvariant, PTL

-----------------------------------------------------------------------------
(* What the workers and the unborn contexts have to do with contexts *)

\* The steps at which a worker has no context.
EmptyHanded == {"pop", "count", "checkNum", "checkNumSleep", "sleep", "waiting", "done"}

FreeHands == \A w \in Workers : pc[w] \in EmptyHanded => cur[w] = None

\* Nobody knows of c yet.
Untouched(c) ==
    /\ drops[c] = 0 /\ lost[c] = 0
    /\ ~InQueue(c) /\ c \notin contexts /\ c \notin left
    /\ \A t \in Threads : toctx[t] # c
    /\ \A w \in Workers : cur[w] # c

UnbornInv == \A c \in Contexts : mem[c] = "unborn" => Untouched(c)

LEMMA FreeHandsStep ==
    ASSUME TypeInv, FreeHands, [Next]_vars
    PROVE  FreeHands'
<1> USE PoolAssumption
    DEF TypeInv, TypeOK, WaitInv, FreeHands, EmptyHanded, ctxVars, poolVars, threadVars, stopVars,
        Goto, AfterSend, MaySend, WakeAll, Threads
<1>1. ASSUME NEW t \in Threads, NEW c \in Contexts, NEW m \in {"data", "exit"}, SendCall(t, c, m) PROVE FreeHands'
  BY <1>1 DEF SendCall
<1>2. ASSUME NEW t \in Threads, SendGet(t) PROVE FreeHands'
  BY <1>2 DEF SendGet
<1>3. ASSUME NEW t \in Threads, SendNotFound(t) PROVE FreeHands'
  BY <1>3 DEF SendNotFound
<1>4. ASSUME NEW t \in Threads, contextRetain(t) PROVE FreeHands'
  BY <1>4 DEF contextRetain
<1>5. ASSUME NEW t \in Threads, messageQueuePush(t) PROVE FreeHands'
  BY <1>5 DEF messageQueuePush
<1>6. ASSUME NEW t \in Threads, MessageQueueFull(t) PROVE FreeHands'
  BY <1>6 DEF MessageQueueFull
<1>7. ASSUME NEW t \in Threads, SendMark(t) PROVE FreeHands'
  BY <1>7 DEF SendMark
<1>8. ASSUME NEW t \in Threads, SendMarked(t) PROVE FreeHands'
  BY <1>8 DEF SendMarked
<1>9. ASSUME NEW t \in Threads, SendPublish(t) PROVE FreeHands'
  BY <1>9 DEF SendPublish
<1>10. ASSUME NEW t \in Threads, SendPublishRefused(t) PROVE FreeHands'
  BY <1>10 DEF SendPublishRefused
<1>11. ASSUME NEW t \in Threads, SendCount(t) PROVE FreeHands'
  BY <1>11 DEF SendCount
<1>12. ASSUME NEW t \in Threads, threadWakeUp(t) PROVE FreeHands'
  <2>1. AfterSend(t) \notin EmptyHanded /\ cur' = cur
    BY <1>12 DEF threadWakeUp
  <2>2. CASE pc' = [pc EXCEPT ![t] = AfterSend(t)]
    BY <2>1, <2>2
  <2>3. ASSUME NEW w \in waiting, pc' = [pc EXCEPT ![w] = "sleep", ![t] = AfterSend(t)]
        PROVE  FreeHands'
    <3> HIDE DEF AfterSend
    <3>1. w \in Workers /\ cur[w] = None
      OBVIOUS
    <3>2. \A u \in Workers : pc'[u] \in EmptyHanded => u = w \/ pc'[u] = pc[u]
      BY <2>1, <2>3
    <3> QED BY <2>1, <3>1, <3>2
  <2> QED BY <1>12, <2>2, <2>3 DEF threadWakeUp
<1>13. ASSUME NEW t \in Threads, SendRelease(t) PROVE FreeHands'
  BY <1>13 DEF SendRelease
<1>14. ASSUME NEW t \in Threads, SendRemove(t) PROVE FreeHands'
  BY <1>14 DEF SendRemove
<1>15. ASSUME NEW w \in Workers, NEW c \in Contexts, Launch(w, c) PROVE FreeHands'
  BY <1>15 DEF Launch
<1>16. ASSUME NEW w \in Workers, contextQueuePop(w) PROVE FreeHands'
  BY <1>16 DEF contextQueuePop
<1>17. ASSUME NEW w \in Workers, PopNothing(w) PROVE FreeHands'
  BY <1>17 DEF PopNothing
<1>18. ASSUME NEW w \in Workers, PopCount(w) PROVE FreeHands'
  BY <1>18 DEF PopCount
<1>19. ASSUME NEW w \in Workers, DispatchEmpty(w) PROVE FreeHands'
  BY <1>19 DEF DispatchEmpty
<1>20. ASSUME NEW w \in Workers, DispatchDrop(w) PROVE FreeHands'
  BY <1>20 DEF DispatchDrop
<1>21. ASSUME NEW w \in Workers, DispatchExit(w) PROVE FreeHands'
  BY <1>21 DEF DispatchExit
<1>22. ASSUME NEW w \in Workers, DispatchCallback(w) PROVE FreeHands'
  BY <1>22 DEF DispatchCallback
<1>23. ASSUME NEW w \in Workers, DispatchLaunch(w) PROVE FreeHands'
  BY <1>23 DEF DispatchLaunch
<1>24. ASSUME NEW w \in Workers, LoadSucceeds(w) PROVE FreeHands'
  BY <1>24 DEF LoadSucceeds
<1>25. ASSUME NEW w \in Workers, LoadFails(w) PROVE FreeHands'
  BY <1>25 DEF LoadFails
<1>26. ASSUME NEW w \in Workers, Launched(w) PROVE FreeHands'
  BY <1>26 DEF Launched
<1>27. ASSUME NEW w \in Workers, CallbackReturns(w) PROVE FreeHands'
  BY <1>27 DEF CallbackReturns
<1>28. ASSUME NEW w \in Workers, HaveWork(w) PROVE FreeHands'
  BY <1>28 DEF HaveWork
<1>29. ASSUME NEW w \in Workers, PushBack(w) PROVE FreeHands'
  BY <1>29 DEF PushBack
<1>30. ASSUME NEW w \in Workers, PushBackRefused(w) PROVE FreeHands'
  BY <1>30 DEF PushBackRefused
<1>31. ASSUME NEW w \in Workers, PushBackCount(w) PROVE FreeHands'
  BY <1>31 DEF PushBackCount
<1>32. ASSUME NEW w \in Workers, ClearInGlobal(w) PROVE FreeHands'
  BY <1>32 DEF ClearInGlobal
<1>33. ASSUME NEW w \in Workers, ctxMgrReleaseContext(w) PROVE FreeHands'
  BY <1>33 DEF ctxMgrReleaseContext
<1>34. ASSUME NEW w \in Workers, Remove(w) PROVE FreeHands'
  BY <1>34 DEF Remove
<1>35. ASSUME NEW w \in Workers, CheckNumZero(w) PROVE FreeHands'
  BY <1>35 DEF CheckNumZero
<1>36. ASSUME NEW w \in Workers, CheckNum(w) PROVE FreeHands'
  BY <1>36 DEF CheckNum
<1>37. ASSUME NEW w \in Workers, threadSleep(w) PROVE FreeHands'
  BY <1>37 DEF threadSleep
<1>38. ASSUME NEW w \in Workers, StayAwake(w) PROVE FreeHands'
  BY <1>38 DEF StayAwake
<1>39. ASSUME StopBegin PROVE FreeHands'
  BY <1>39 DEF StopBegin
<1>40. ASSUME NEW c \in Contexts, StopContext(c) PROVE FreeHands'
  BY <1>40 DEF StopContext
<1>41. ASSUME StopUnlock PROVE FreeHands'
  BY <1>41 DEF StopUnlock
<1>42. ASSUME workerPoolStop PROVE FreeHands'
  BY <1>42 DEF workerPoolStop
<1>43. ASSUME UseAfterFree PROVE FreeHands'
  BY <1>43 DEF UseAfterFree
<1>44. ASSUME UNCHANGED vars PROVE FreeHands'
  BY <1>44 DEF vars
<1> HIDE DEF TypeInv, TypeOK, WaitInv, FreeHands, EmptyHanded, ctxVars, poolVars, threadVars, stopVars,
        Goto, AfterSend, MaySend, WakeAll, Threads
<1> QED
  BY <1>1, <1>2, <1>3, <1>4, <1>5, <1>6, <1>7, <1>8, <1>9, <1>10, <1>11, <1>12,
     <1>13, <1>14, <1>15, <1>16, <1>17, <1>18, <1>19, <1>20, <1>21, <1>22, <1>23,
     <1>24, <1>25, <1>26, <1>27, <1>28, <1>29, <1>30, <1>31, <1>32, <1>33, <1>34,
     <1>35, <1>36, <1>37, <1>38, <1>39, <1>40, <1>41, <1>42, <1>43, <1>44
  DEF Next, Step, ContinueStop, workerPoolSend, handle

\* What the operations on the global queue do to who is in it.
LEMMA AppendInQueue ==
    ASSUME queue \in Seq(Contexts), NEW d \in Contexts, queue' = Append(queue, d)
    PROVE  \A c \in Contexts : InQueue(c)' <=> InQueue(c) \/ c = d
<1>1. Len(queue') = Len(queue) + 1 /\ Len(queue) \in Nat
  OBVIOUS
<1>2. \A i \in 1 .. Len(queue') :
         \/ i \in 1 .. Len(queue) /\ queue'[i] = queue[i]
         \/ i = Len(queue) + 1 /\ queue'[i] = d
  BY <1>1
<1>3. \A i \in 1 .. Len(queue) : i \in 1 .. Len(queue') /\ queue'[i] = queue[i]
  BY <1>1
<1>4. Len(queue) + 1 \in 1 .. Len(queue') /\ queue'[Len(queue) + 1] = d
  BY <1>1
<1> QED BY <1>2, <1>3, <1>4 DEF InQueue

LEMMA TailInQueue ==
    ASSUME queue \in Seq(Contexts), queue # <<>>, queue' = Tail(queue)
    PROVE  /\ Head(queue) \in Contexts /\ InQueue(Head(queue))
           /\ \A c \in Contexts : InQueue(c)' => InQueue(c)
           /\ \A c \in Contexts : InQueue(c) => InQueue(c)' \/ c = Head(queue)
<1>1. /\ Len(queue) \in Nat /\ Len(queue) >= 1 /\ Len(queue') = Len(queue) - 1
      /\ Head(queue) = queue[1]
  OBVIOUS
<1>2. \A i \in 1 .. Len(queue') : queue'[i] = queue[i + 1] /\ i + 1 \in 1 .. Len(queue)
  BY <1>1
<1>3. \A i \in 1 .. Len(queue) : i = 1 \/ (i - 1 \in 1 .. Len(queue') /\ queue'[i - 1] = queue[i])
  BY <1>1
<1>4. Head(queue) \in Contexts /\ InQueue(Head(queue))
  BY <1>1 DEF InQueue
<1> QED BY <1>1, <1>2, <1>3, <1>4 DEF InQueue

LEMMA UnbornStep ==
    ASSUME TypeInv, UnbornInv, [Next]_vars
    PROVE  UnbornInv'
<1> USE PoolAssumption
    DEF TypeInv, TypeOK, HandInv, InHand, SendSteps, UnbornInv, Untouched, InQueue, ctxVars, poolVars,
        threadVars, stopVars, Goto, SendTo, EndSend, Known, contextRelease,
        ctxMgrRemoveContext, Threads
<1>1. ASSUME NEW t \in Threads, NEW c \in Contexts, NEW m \in {"data", "exit"}, SendCall(t, c, m) PROVE UnbornInv'
  BY <1>1 DEF SendCall
<1>2. ASSUME NEW t \in Threads, SendGet(t) PROVE UnbornInv'
  BY <1>2 DEF SendGet
<1>3. ASSUME NEW t \in Threads, SendNotFound(t) PROVE UnbornInv'
  BY <1>3 DEF SendNotFound
<1>4. ASSUME NEW t \in Threads, contextRetain(t) PROVE UnbornInv'
  BY <1>4 DEF contextRetain
<1>5. ASSUME NEW t \in Threads, messageQueuePush(t) PROVE UnbornInv'
  BY <1>5 DEF messageQueuePush
<1>6. ASSUME NEW t \in Threads, MessageQueueFull(t) PROVE UnbornInv'
  BY <1>6 DEF MessageQueueFull
<1>7. ASSUME NEW t \in Threads, SendMark(t) PROVE UnbornInv'
  BY <1>7 DEF SendMark
<1>8. ASSUME NEW t \in Threads, SendMarked(t) PROVE UnbornInv'
  BY <1>8 DEF SendMarked
<1>9. ASSUME NEW t \in Threads, SendPublish(t) PROVE UnbornInv'
  <2>1. queue' = Append(queue, toctx[t]) /\ queue \in Seq(Contexts)
    BY <1>9 DEF SendPublish
  <2>2. \A c \in Contexts : InQueue(c)' => InQueue(c) \/ c = toctx[t]
    <3>1. toctx[t] \in Contexts
      BY <1>9 DEF SendPublish
    <3> HIDE DEF InQueue
    <3> QED BY <2>1, <3>1, AppendInQueue
  <2>3. UNCHANGED <<mem, drops, lost, contexts, left, toctx, cur>>
    BY <1>9 DEF SendPublish
  <2> HIDE DEF InQueue
  <2> QED BY <2>2, <2>3
<1>10. ASSUME NEW t \in Threads, SendPublishRefused(t) PROVE UnbornInv'
  BY <1>10 DEF SendPublishRefused
<1>11. ASSUME NEW t \in Threads, SendCount(t) PROVE UnbornInv'
  BY <1>11 DEF SendCount
<1>12. ASSUME NEW t \in Threads, threadWakeUp(t) PROVE UnbornInv'
  BY <1>12 DEF threadWakeUp
<1>13. ASSUME NEW t \in Threads, SendRelease(t) PROVE UnbornInv'
  <2>1. /\ UNCHANGED <<queue, drops, lost, contexts, left, cur>>
        /\ \A u \in Threads : toctx'[u] \in {toctx[u], None}
        /\ \A c \in Contexts : mem'[c] = "unborn" => mem[c] = "unborn"
    BY <1>13 DEF SendRelease
  <2>2. \A c \in Contexts : InQueue(c)' => InQueue(c)
    BY <2>1
  <2> HIDE DEF InQueue
  <2> QED BY <2>1, <2>2
<1>14. ASSUME NEW t \in Threads, SendRemove(t) PROVE UnbornInv'
  BY <1>14 DEF SendRemove
<1>15. ASSUME NEW w \in Workers, NEW c \in Contexts, Launch(w, c) PROVE UnbornInv'
  BY <1>15 DEF Launch
<1>16. ASSUME NEW w \in Workers, contextQueuePop(w) PROVE UnbornInv'
  <2>1. queue' = Tail(queue) /\ queue \in Seq(Contexts) /\ queue # <<>>
    BY <1>16 DEF contextQueuePop
  <2>2. /\ \A c \in Contexts : InQueue(c)' => InQueue(c)
        /\ Head(queue) \in Contexts /\ InQueue(Head(queue))
    BY <2>1, TailInQueue
  <2>3. /\ UNCHANGED <<mem, drops, lost, contexts, left, toctx>>
        /\ cur' = [cur EXCEPT ![w] = Head(queue)]
    BY <1>16 DEF contextQueuePop
  <2> HIDE DEF InQueue
  <2> QED BY <2>2, <2>3
<1>17. ASSUME NEW w \in Workers, PopNothing(w) PROVE UnbornInv'
  BY <1>17 DEF PopNothing
<1>18. ASSUME NEW w \in Workers, PopCount(w) PROVE UnbornInv'
  BY <1>18 DEF PopCount
<1>19. ASSUME NEW w \in Workers, DispatchEmpty(w) PROVE UnbornInv'
  BY <1>19 DEF DispatchEmpty
<1>20. ASSUME NEW w \in Workers, DispatchDrop(w) PROVE UnbornInv'
  BY <1>20 DEF DispatchDrop
<1>21. ASSUME NEW w \in Workers, DispatchExit(w) PROVE UnbornInv'
  BY <1>21 DEF DispatchExit
<1>22. ASSUME NEW w \in Workers, DispatchCallback(w) PROVE UnbornInv'
  BY <1>22 DEF DispatchCallback
<1>23. ASSUME NEW w \in Workers, DispatchLaunch(w) PROVE UnbornInv'
  BY <1>23 DEF DispatchLaunch
<1>24. ASSUME NEW w \in Workers, LoadSucceeds(w) PROVE UnbornInv'
  BY <1>24 DEF LoadSucceeds
<1>25. ASSUME NEW w \in Workers, LoadFails(w) PROVE UnbornInv'
  BY <1>25 DEF LoadFails
<1>26. ASSUME NEW w \in Workers, Launched(w) PROVE UnbornInv'
  BY <1>26 DEF Launched
<1>27. ASSUME NEW w \in Workers, CallbackReturns(w) PROVE UnbornInv'
  BY <1>27 DEF CallbackReturns
<1>28. ASSUME NEW w \in Workers, HaveWork(w) PROVE UnbornInv'
  BY <1>28 DEF HaveWork
<1>29. ASSUME NEW w \in Workers, PushBack(w) PROVE UnbornInv'
  BY <1>29 DEF PushBack
<1>30. ASSUME NEW w \in Workers, PushBackRefused(w) PROVE UnbornInv'
  BY <1>30 DEF PushBackRefused
<1>31. ASSUME NEW w \in Workers, PushBackCount(w) PROVE UnbornInv'
  BY <1>31 DEF PushBackCount
<1>32. ASSUME NEW w \in Workers, ClearInGlobal(w) PROVE UnbornInv'
  BY <1>32 DEF ClearInGlobal
<1>33. ASSUME NEW w \in Workers, ctxMgrReleaseContext(w) PROVE UnbornInv'
  BY <1>33 DEF ctxMgrReleaseContext
<1>34. ASSUME NEW w \in Workers, Remove(w) PROVE UnbornInv'
  BY <1>34 DEF Remove
<1>35. ASSUME NEW w \in Workers, CheckNumZero(w) PROVE UnbornInv'
  BY <1>35 DEF CheckNumZero
<1>36. ASSUME NEW w \in Workers, CheckNum(w) PROVE UnbornInv'
  BY <1>36 DEF CheckNum
<1>37. ASSUME NEW w \in Workers, threadSleep(w) PROVE UnbornInv'
  BY <1>37 DEF threadSleep
<1>38. ASSUME NEW w \in Workers, StayAwake(w) PROVE UnbornInv'
  BY <1>38 DEF StayAwake
<1>39. ASSUME StopBegin PROVE UnbornInv'
  BY <1>39 DEF StopBegin
<1>40. ASSUME NEW c \in Contexts, StopContext(c) PROVE UnbornInv'
  BY <1>40 DEF StopContext
<1>41. ASSUME StopUnlock PROVE UnbornInv'
  BY <1>41 DEF StopUnlock
<1>42. ASSUME workerPoolStop PROVE UnbornInv'
  BY <1>42 DEF workerPoolStop
<1>43. ASSUME UseAfterFree PROVE UnbornInv'
  BY <1>43 DEF UseAfterFree
<1>44. ASSUME UNCHANGED vars PROVE UnbornInv'
  BY <1>44 DEF vars
<1> HIDE DEF TypeInv, TypeOK, HandInv, InHand, SendSteps, UnbornInv, Untouched, InQueue, ctxVars, poolVars,
        threadVars, stopVars, Goto, SendTo, EndSend, Known, contextRelease,
        ctxMgrRemoveContext, Threads
<1> QED
  BY <1>1, <1>2, <1>3, <1>4, <1>5, <1>6, <1>7, <1>8, <1>9, <1>10, <1>11, <1>12,
     <1>13, <1>14, <1>15, <1>16, <1>17, <1>18, <1>19, <1>20, <1>21, <1>22, <1>23,
     <1>24, <1>25, <1>26, <1>27, <1>28, <1>29, <1>30, <1>31, <1>32, <1>33, <1>34,
     <1>35, <1>36, <1>37, <1>38, <1>39, <1>40, <1>41, <1>42, <1>43, <1>44
  DEF Next, Step, ContinueStop, workerPoolSend, handle

-----------------------------------------------------------------------------
(* The reference count *)

\* A worker's reference, and a sender's.
Takes(w, c) == cur[w] = c /\ pc[w] # "remove"

Retains(t, c) == toctx[t] = c /\ pc[t] \in Retained

Taken(c) == {w \in Workers : Takes(w, c)}

Retainers(c) == {t \in Threads : Retains(t, c)}

Held(c) == (IF InQueue(c) THEN 1 ELSE 0) + Cardinality(Taken(c)) + Cardinality(Retainers(c))

\* The references are counted, and as long as the creation's reference was
\* dropped once at most, a context that somebody holds is allocated.
HeldInv(c) ==
    /\ IsFiniteSet(Taken(c)) /\ IsFiniteSet(Retainers(c))
    /\ mem[c] = "live" => ref[c] = 1 - drops[c] + Held(c) + lost[c]
    /\ drops[c] <= 1 /\ Held(c) > 0 => mem[c] = "live"

\* The assertion of an EXIT message fails only for a context dropped twice.
AssertInv == broken = "assert" => \E c \in Contexts : drops[c] > 1

RefInv == /\ FreeHands /\ UnbornInv /\ AssertInv
          /\ \A c \in Contexts : HeldInv(c)

\* The numbers that HeldInv is about.
LEMMA HeldTypes ==
    ASSUME TypeInv, NEW c \in Contexts, HeldInv(c)
    PROVE  /\ Cardinality(Taken(c)) \in Nat /\ Cardinality(Retainers(c)) \in Nat
           /\ Held(c) \in Nat
           /\ ref[c] \in Nat /\ drops[c] \in Nat /\ lost[c] \in Nat
<1>1. Cardinality(Taken(c)) \in Nat /\ Cardinality(Retainers(c)) \in Nat
  BY FS_CardinalityType DEF HeldInv
<1>2. Held(c) \in Nat
  BY <1>1 DEF Held
<1>3. ref[c] \in Nat /\ drops[c] \in Nat /\ lost[c] \in Nat
  BY DEF TypeInv, TypeOK
<1> QED BY <1>1, <1>2, <1>3

\* A holder counts.
LEMMA HolderCounts ==
    ASSUME NEW c \in Contexts, HeldInv(c)
    PROVE  /\ \A w \in Workers : Takes(w, c) => Cardinality(Taken(c)) >= 1
           /\ \A t \in Threads : Retains(t, c) => Cardinality(Retainers(c)) >= 1
<1>1. /\ Cardinality(Taken(c)) \in Nat /\ (Cardinality(Taken(c)) = 0 <=> Taken(c) = {})
      /\ Cardinality(Retainers(c)) \in Nat
      /\ (Cardinality(Retainers(c)) = 0 <=> Retainers(c) = {})
  BY FS_CardinalityType, FS_EmptySet DEF HeldInv
<1> QED BY <1>1 DEF Taken, Retainers

\* How the sets of holders change: not at all, ...
LEMMA TakenSame ==
    ASSUME NEW c \in Contexts, \A w \in Workers : Takes(w, c)' <=> Takes(w, c)
    PROVE  Taken(c)' = Taken(c)
BY DEF Taken

LEMMA RetainersSame ==
    ASSUME NEW c \in Contexts, \A t \in Threads : Retains(t, c)' <=> Retains(t, c)
    PROVE  Retainers(c)' = Retainers(c)
BY DEF Retainers

\* ... or by one thread.
LEMMA TakenMore ==
    ASSUME NEW c \in Contexts, IsFiniteSet(Taken(c)),
           NEW w \in Workers, ~Takes(w, c), Takes(w, c)',
           \A v \in Workers \ {w} : Takes(v, c)' <=> Takes(v, c)
    PROVE  IsFiniteSet(Taken(c)') /\ Cardinality(Taken(c)') = Cardinality(Taken(c)) + 1
<1>1. Taken(c)' = Taken(c) \cup {w} /\ w \notin Taken(c)
  BY DEF Taken
<1> QED BY <1>1, FS_AddElement

LEMMA TakenLess ==
    ASSUME NEW c \in Contexts, IsFiniteSet(Taken(c)),
           NEW w \in Workers, Takes(w, c), ~Takes(w, c)',
           \A v \in Workers \ {w} : Takes(v, c)' <=> Takes(v, c)
    PROVE  IsFiniteSet(Taken(c)') /\ Cardinality(Taken(c)') = Cardinality(Taken(c)) - 1
<1>1. Taken(c)' = Taken(c) \ {w} /\ w \in Taken(c)
  BY DEF Taken
<1> QED BY <1>1, FS_RemoveElement

LEMMA RetainersMore ==
    ASSUME NEW c \in Contexts, IsFiniteSet(Retainers(c)),
           NEW t \in Threads, ~Retains(t, c), Retains(t, c)',
           \A u \in Threads \ {t} : Retains(u, c)' <=> Retains(u, c)
    PROVE  /\ IsFiniteSet(Retainers(c)')
           /\ Cardinality(Retainers(c)') = Cardinality(Retainers(c)) + 1
<1>1. Retainers(c)' = Retainers(c) \cup {t} /\ t \notin Retainers(c)
  BY DEF Retainers
<1> QED BY <1>1, FS_AddElement

LEMMA RetainersLess ==
    ASSUME NEW c \in Contexts, IsFiniteSet(Retainers(c)),
           NEW t \in Threads, Retains(t, c), ~Retains(t, c)',
           \A u \in Threads \ {t} : Retains(u, c)' <=> Retains(u, c)
    PROVE  /\ IsFiniteSet(Retainers(c)')
           /\ Cardinality(Retainers(c)') = Cardinality(Retainers(c)) - 1
<1>1. Retainers(c)' = Retainers(c) \ {t} /\ t \in Retainers(c)
  BY DEF Retainers
<1> QED BY <1>1, FS_RemoveElement

\* A step that changes neither the holders of c nor what is recorded of it.
Same(c) ==
    /\ InQueue(c)' <=> InQueue(c)
    /\ \A w \in Workers : Takes(w, c)' <=> Takes(w, c)
    /\ \A t \in Threads : Retains(t, c)' <=> Retains(t, c)
    /\ mem'[c] = mem[c] /\ ref'[c] = ref[c] /\ drops'[c] = drops[c] /\ lost'[c] = lost[c]

LEMMA SameHeld ==
    ASSUME NEW c \in Contexts, HeldInv(c), Same(c)
    PROVE  HeldInv(c)'
<1>1. Taken(c)' = Taken(c) /\ Retainers(c)' = Retainers(c)
  BY TakenSame, RetainersSame DEF Same
<1>2. Held(c)' = Held(c)
  BY <1>1 DEF Held, Same
<1> QED BY <1>1, <1>2 DEF HeldInv, Same

\* A reference that is handed on, between the queue and a thread, or from a
\* thread to the losses of refused pushes.
LEMMA HandedOn ==
    ASSUME TypeInv, NEW c \in Contexts, HeldInv(c),
           IsFiniteSet(Taken(c)'), IsFiniteSet(Retainers(c)'), Held(c)' \in Nat,
           Held(c)' + lost'[c] = Held(c) + lost[c], lost'[c] \in Nat,
           Held(c) > 0,
           mem'[c] = mem[c], ref'[c] = ref[c], drops'[c] = drops[c]
    PROVE  HeldInv(c)'
BY HeldTypes DEF HeldInv

\* A reference that its holder gives up; the last one frees the context.
LEMMA GivenUp ==
    ASSUME TypeInv, NEW c \in Contexts, HeldInv(c), contextRelease(c),
           IsFiniteSet(Taken(c)'), IsFiniteSet(Retainers(c)'),
           Held(c)' \in Nat, Held(c)' = Held(c) - 1,
           lost'[c] = lost[c], drops'[c] = drops[c]
    PROVE  HeldInv(c)'
<1>1. /\ ref'[c] = ref[c] - 1 /\ mem[c] = "live"
      /\ mem'[c] = (IF ref[c] = 1 THEN "freed" ELSE "live")
  BY DEF contextRelease, TypeInv, TypeOK
<1>2. ref[c] = 1 - drops[c] + Held(c) + lost[c]
  BY <1>1 DEF HeldInv
<1> HIDE DEF contextRelease
<1> QED BY <1>1, <1>2, HeldTypes DEF HeldInv

\* The reference of the creation is dropped: with nobody's help but the
\* count's, a context dropped for the first time stays while it is held.
LEMMA CreationDropped ==
    ASSUME TypeInv, NEW c \in Contexts, HeldInv(c), contextRelease(c),
           Taken(c)' = Taken(c), Retainers(c)' = Retainers(c), Held(c)' = Held(c),
           lost'[c] = lost[c], drops'[c] = drops[c] + 1
    PROVE  /\ HeldInv(c)'
           /\ ref[c] = 1 /\ Held(c) > 0 => drops'[c] > 1
<1>1. /\ ref'[c] = ref[c] - 1 /\ mem[c] = "live"
      /\ mem'[c] = (IF ref[c] = 1 THEN "freed" ELSE "live")
  BY DEF contextRelease, TypeInv, TypeOK
<1>2. ref[c] = 1 - drops[c] + Held(c) + lost[c]
  BY <1>1 DEF HeldInv
<1> QED BY <1>1, <1>2, HeldTypes DEF HeldInv

\* A step that touches no reference.
Quiet ==
    /\ UNCHANGED <<queue, mem, ref, drops, lost>>
    /\ \A c \in Contexts :
          /\ \A w \in Workers : Takes(w, c)' <=> Takes(w, c)
          /\ \A t \in Threads : Retains(t, c)' <=> Retains(t, c)

\* Every step except the eleven that move, take or drop a reference is quiet.
LEMMA QuietStep ==
    ASSUME TypeInv
    PROVE  /\ \A t \in Threads :
                 \/ \E c \in Contexts, m \in {"data", "exit"} : SendCall(t, c, m)
                 \/ SendGet(t)
                 \/ SendNotFound(t)
                 \/ messageQueuePush(t)
                 \/ MessageQueueFull(t)
                 \/ SendMark(t)
                 \/ SendMarked(t)
                 \/ SendCount(t)
                 \/ threadWakeUp(t)
                 \/ SendRemove(t)
                 => Quiet
           /\ \A w \in Workers :
                 \/ PopNothing(w)
                 \/ PopCount(w)
                 \/ DispatchEmpty(w)
                 \/ DispatchDrop(w)
                 \/ DispatchCallback(w)
                 \/ DispatchLaunch(w)
                 \/ LoadSucceeds(w)
                 \/ LoadFails(w)
                 \/ Launched(w)
                 \/ CallbackReturns(w)
                 \/ HaveWork(w)
                 \/ PushBackCount(w)
                 \/ ClearInGlobal(w)
                 \/ Remove(w)
                 \/ CheckNumZero(w)
                 \/ CheckNum(w)
                 \/ threadSleep(w)
                 \/ StayAwake(w)
                 => Quiet
           /\ StopBegin \/ StopUnlock \/ workerPoolStop \/ UseAfterFree => Quiet
           /\ UNCHANGED vars => Quiet
<1> USE PoolAssumption DEF TypeInv, TypeOK, WaitInv, HandInv, InHand, SendSteps, Quiet, Takes, Retains, Retained, ctxVars, poolVars,
        threadVars, stopVars, Goto, SendTo, EndSend, AfterSend, MaySend, WakeAll, Threads
<1>1. ASSUME NEW t \in Threads, NEW c \in Contexts, NEW m \in {"data", "exit"}, SendCall(t, c, m) PROVE Quiet
  BY <1>1 DEF SendCall
<1>2. ASSUME NEW t \in Threads, SendGet(t) PROVE Quiet
  BY <1>2 DEF SendGet
<1>3. ASSUME NEW t \in Threads, SendNotFound(t) PROVE Quiet
  BY <1>3 DEF SendNotFound
<1>4. ASSUME NEW t \in Threads, messageQueuePush(t) PROVE Quiet
  BY <1>4 DEF messageQueuePush
<1>5. ASSUME NEW t \in Threads, MessageQueueFull(t) PROVE Quiet
  BY <1>5 DEF MessageQueueFull
<1>6. ASSUME NEW t \in Threads, SendMark(t) PROVE Quiet
  BY <1>6 DEF SendMark
<1>7. ASSUME NEW t \in Threads, SendMarked(t) PROVE Quiet
  BY <1>7 DEF SendMarked
<1>8. ASSUME NEW t \in Threads, SendCount(t) PROVE Quiet
  BY <1>8 DEF SendCount
<1>9. ASSUME NEW t \in Threads, threadWakeUp(t) PROVE Quiet
  <2>1. /\ UNCHANGED <<queue, mem, ref, drops, lost, cur>> /\ pc[t] = "signal"
        /\ \A u \in Threads : u # t => toctx'[u] = toctx[u]
    BY <1>9 DEF threadWakeUp
  <2> DEFINE Woken(u) == pc'[u] \in {"sleep", "launched", "callback", "idle"}
                         /\ pc[u] \in {"waiting", "signal"}
  <2>2. ASSUME NEW u \in Threads PROVE (u # t /\ pc'[u] = pc[u]) \/ Woken(u)
    <3> DEFINE next == AfterSend(t)
    <3>1. next \in {"launched", "callback", "idle"}
      OBVIOUS
    <3> HIDE DEF next, AfterSend
    <3>2. CASE pc' = [pc EXCEPT ![t] = next]
      BY <2>1, <3>1, <3>2
    <3>3. ASSUME NEW w \in waiting, pc' = [pc EXCEPT ![w] = "sleep", ![t] = next]
          PROVE  (u # t /\ pc'[u] = pc[u]) \/ Woken(u)
      <4>1. w \in Threads /\ pc[w] = "waiting"
        OBVIOUS
      <4> QED BY <2>1, <3>1, <3>3, <4>1
    <3> QED BY <1>9, <3>2, <3>3 DEF threadWakeUp, next
  <2> QED BY <2>1, <2>2
<1>10. ASSUME NEW t \in Threads, SendRemove(t) PROVE Quiet
  BY <1>10 DEF SendRemove
<1>11. ASSUME NEW w \in Workers, PopNothing(w) PROVE Quiet
  BY <1>11 DEF PopNothing
<1>12. ASSUME NEW w \in Workers, PopCount(w) PROVE Quiet
  BY <1>12 DEF PopCount
<1>13. ASSUME NEW w \in Workers, DispatchEmpty(w) PROVE Quiet
  BY <1>13 DEF DispatchEmpty
<1>14. ASSUME NEW w \in Workers, DispatchDrop(w) PROVE Quiet
  BY <1>14 DEF DispatchDrop
<1>15. ASSUME NEW w \in Workers, DispatchCallback(w) PROVE Quiet
  BY <1>15 DEF DispatchCallback
<1>16. ASSUME NEW w \in Workers, DispatchLaunch(w) PROVE Quiet
  BY <1>16 DEF DispatchLaunch
<1>17. ASSUME NEW w \in Workers, LoadSucceeds(w) PROVE Quiet
  BY <1>17 DEF LoadSucceeds
<1>18. ASSUME NEW w \in Workers, LoadFails(w) PROVE Quiet
  BY <1>18 DEF LoadFails
<1>19. ASSUME NEW w \in Workers, Launched(w) PROVE Quiet
  BY <1>19 DEF Launched
<1>20. ASSUME NEW w \in Workers, CallbackReturns(w) PROVE Quiet
  BY <1>20 DEF CallbackReturns
<1>21. ASSUME NEW w \in Workers, HaveWork(w) PROVE Quiet
  BY <1>21 DEF HaveWork
<1>22. ASSUME NEW w \in Workers, PushBackCount(w) PROVE Quiet
  BY <1>22 DEF PushBackCount
<1>23. ASSUME NEW w \in Workers, ClearInGlobal(w) PROVE Quiet
  BY <1>23 DEF ClearInGlobal
<1>24. ASSUME NEW w \in Workers, Remove(w) PROVE Quiet
  BY <1>24 DEF Remove
<1>25. ASSUME NEW w \in Workers, CheckNumZero(w) PROVE Quiet
  BY <1>25 DEF CheckNumZero
<1>26. ASSUME NEW w \in Workers, CheckNum(w) PROVE Quiet
  BY <1>26 DEF CheckNum
<1>27. ASSUME NEW w \in Workers, threadSleep(w) PROVE Quiet
  BY <1>27 DEF threadSleep
<1>28. ASSUME NEW w \in Workers, StayAwake(w) PROVE Quiet
  BY <1>28 DEF StayAwake
<1>29. ASSUME StopBegin PROVE Quiet
  BY <1>29 DEF StopBegin
<1>30. ASSUME StopUnlock PROVE Quiet
  BY <1>30 DEF StopUnlock
<1>31. ASSUME workerPoolStop PROVE Quiet
  BY <1>31 DEF workerPoolStop
<1>32. ASSUME UseAfterFree PROVE Quiet
  BY <1>32 DEF UseAfterFree
<1>33. ASSUME UNCHANGED vars PROVE Quiet
  BY <1>33 DEF vars
<1> HIDE DEF TypeInv, TypeOK, WaitInv, HandInv, InHand, SendSteps, Quiet, Takes, Retains, Retained, ctxVars, poolVars,
        threadVars, stopVars, Goto, SendTo, EndSend, AfterSend, MaySend, WakeAll, Threads
<1> QED
  BY <1>1, <1>2, <1>3, <1>4, <1>5, <1>6, <1>7, <1>8, <1>9, <1>10, <1>11, <1>12,
     <1>13, <1>14, <1>15, <1>16, <1>17, <1>18, <1>19, <1>20, <1>21, <1>22, <1>23,
     <1>24, <1>25, <1>26, <1>27, <1>28, <1>29, <1>30, <1>31, <1>32, <1>33

\* The steps that move, take or drop a reference.
LEMMA RetainHeld ==
    ASSUME TypeInv, RefInv, NEW t \in Threads, contextRetain(t)
    PROVE  \A c \in Contexts : HeldInv(c)'
<1>1. PICK d \in Contexts :
      /\ d = toctx[t] /\ mem[d] = "live" /\ pc[t] = "retain"
      /\ pc' = [pc EXCEPT ![t] = "push"] /\ ref' = [ref EXCEPT ![d] = @ + 1]
      /\ UNCHANGED <<mem, drops, lost, queue, cur, toctx>>
  BY DEF contextRetain, Goto, TypeInv, HandInv, SendSteps, poolVars, stopVars
<1>2. \A c \in Contexts : \A w \in Workers : Takes(w, c)' <=> Takes(w, c)
  BY <1>1 DEF Takes, TypeInv, TypeOK, Threads
<1>3. \A c \in Contexts : \A u \in Threads :
         (u # t \/ c # d) => (Retains(u, c)' <=> Retains(u, c))
  BY <1>1 DEF Retains, Retained, TypeInv, TypeOK
<1>4. ~Retains(t, d) /\ Retains(t, d)'
  BY <1>1 DEF Retains, Retained, TypeInv, TypeOK
<1>5. \A c \in Contexts : InQueue(c)' <=> InQueue(c)
  BY <1>1 DEF InQueue
<1>6. ref'[d] = ref[d] + 1 /\ \A c \in Contexts : c # d => ref'[c] = ref[c]
  BY <1>1 DEF TypeInv, TypeOK
<1>7. mem' = mem /\ drops' = drops /\ lost' = lost /\ mem[d] = "live"
  BY <1>1
<1>8. \A c \in Contexts : c # d => HeldInv(c)'
  BY <1>2, <1>3, <1>5, <1>6, <1>7, SameHeld DEF Same, RefInv
<1>9. HeldInv(d)'
  <2>1. HeldInv(d)
    BY <1>7 DEF RefInv
  <2>2. IsFiniteSet(Retainers(d)') /\ Cardinality(Retainers(d)') = Cardinality(Retainers(d)) + 1
    BY <1>3, <1>4, <1>7, <2>1, RetainersMore DEF HeldInv
  <2>3. Taken(d)' = Taken(d)
    BY <1>2, <1>7, TakenSame
  <2>4. Held(d)' = Held(d) + 1
    BY <1>5, <1>7, <2>1, <2>2, <2>3, HeldTypes DEF Held
  <2> QED BY <1>6, <1>7, <2>1, <2>2, <2>3, <2>4, HeldTypes DEF HeldInv
<1> QED BY <1>8, <1>9

LEMMA PublishHeld ==
    ASSUME TypeInv, TokenInv, RefInv, NEW t \in Threads, SendPublish(t)
    PROVE  \A c \in Contexts : HeldInv(c)'
<1>1. PICK d \in Contexts :
      /\ d = toctx[t] /\ pc[t] = "sendPublish"
      /\ pc' = [pc EXCEPT ![t] = "sendCount"] /\ queue' = Append(queue, d)
      /\ UNCHANGED <<mem, ref, drops, lost, cur, toctx>>
  BY DEF SendPublish, Goto, TypeInv, HandInv, SendSteps, ctxVars, stopVars
<1>2. \A c \in Contexts : \A w \in Workers : Takes(w, c)' <=> Takes(w, c)
  BY <1>1 DEF Takes, TypeInv, TypeOK, Threads
<1>3. \A c \in Contexts : \A u \in Threads :
         (u # t \/ c # d) => (Retains(u, c)' <=> Retains(u, c))
  BY <1>1 DEF Retains, Retained, TypeInv, TypeOK
<1>4. Retains(t, d) /\ ~Retains(t, d)'
  BY <1>1 DEF Retains, Retained, TypeInv, TypeOK
<1>5. \A c \in Contexts : InQueue(c)' <=> InQueue(c) \/ c = d
  BY <1>1, AppendInQueue DEF TypeInv, TypeOK
<1>6. ~InQueue(d)
  <2>1. Queues(t, d)
    BY <1>1 DEF Queues
  <2> QED BY <2>1 DEF TokenInv, InQueue
<1>7. mem' = mem /\ ref' = ref /\ drops' = drops /\ lost' = lost
  BY <1>1
<1>8. \A c \in Contexts : c # d => HeldInv(c)'
  BY <1>2, <1>3, <1>5, <1>7, SameHeld DEF Same, RefInv
<1>9. HeldInv(d)'
  <2>1. HeldInv(d)
    BY <1>7 DEF RefInv
  <2>2. IsFiniteSet(Retainers(d)') /\ Cardinality(Retainers(d)') = Cardinality(Retainers(d)) - 1
    BY <1>3, <1>4, <1>7, <2>1, RetainersLess DEF HeldInv
  <2>3. Taken(d)' = Taken(d)
    BY <1>2, <1>7, TakenSame
  <2>4. Held(d)' = Held(d) /\ Held(d) > 0
    BY <1>4, <1>5, <1>6, <1>7, <2>1, <2>2, <2>3, HeldTypes, HolderCounts DEF Held
  <2> QED BY <1>7, <2>1, <2>2, <2>3, <2>4, HeldTypes, HandedOn DEF HeldInv
<1> QED BY <1>8, <1>9

LEMMA RefusedHeld ==
    ASSUME TypeInv, RefInv, NEW t \in Threads, SendPublishRefused(t)
    PROVE  \A c \in Contexts : HeldInv(c)'
<1>1. PICK d \in Contexts :
      /\ d = toctx[t] /\ pc[t] = "sendPublish"
      /\ pc' = [pc EXCEPT ![t] = "signal"] /\ lost' = [lost EXCEPT ![d] = @ + 1]
      /\ UNCHANGED <<mem, ref, drops, queue, cur, toctx>>
  BY DEF SendPublishRefused, Goto, TypeInv, HandInv, SendSteps, ctxVars, poolVars
<1>2. \A c \in Contexts : \A w \in Workers : Takes(w, c)' <=> Takes(w, c)
  BY <1>1 DEF Takes, TypeInv, TypeOK, Threads
<1>3. \A c \in Contexts : \A u \in Threads :
         (u # t \/ c # d) => (Retains(u, c)' <=> Retains(u, c))
  BY <1>1 DEF Retains, Retained, TypeInv, TypeOK
<1>4. Retains(t, d) /\ ~Retains(t, d)'
  BY <1>1 DEF Retains, Retained, TypeInv, TypeOK
<1>5. \A c \in Contexts : InQueue(c)' <=> InQueue(c)
  BY <1>1 DEF InQueue
<1>6. lost'[d] = lost[d] + 1 /\ \A c \in Contexts : c # d => lost'[c] = lost[c]
  BY <1>1 DEF TypeInv, TypeOK
<1>7. mem' = mem /\ ref' = ref /\ drops' = drops
  BY <1>1
<1>8. \A c \in Contexts : c # d => HeldInv(c)'
  BY <1>2, <1>3, <1>5, <1>6, <1>7, SameHeld DEF Same, RefInv
<1>9. HeldInv(d)'
  <2>1. HeldInv(d)
    BY <1>7 DEF RefInv
  <2>2. IsFiniteSet(Retainers(d)') /\ Cardinality(Retainers(d)') = Cardinality(Retainers(d)) - 1
    BY <1>3, <1>4, <1>7, <2>1, RetainersLess DEF HeldInv
  <2>3. Taken(d)' = Taken(d)
    BY <1>2, <1>7, TakenSame
  <2>4. Held(d)' = Held(d) - 1 /\ Held(d) > 0
    BY <1>4, <1>5, <1>7, <2>1, <2>2, <2>3, HeldTypes, HolderCounts DEF Held
  <2>5. IsFiniteSet(Taken(d)') /\ Held(d)' \in Nat /\ lost'[d] \in Nat
        /\ Held(d)' + lost'[d] = Held(d) + lost[d]
    BY <1>6, <1>7, <2>1, <2>3, <2>4, HeldTypes DEF HeldInv
  <2> QED BY <1>7, <2>1, <2>2, <2>4, <2>5, HandedOn
<1> QED BY <1>8, <1>9

LEMMA SendReleaseHeld ==
    ASSUME TypeInv, RefInv, NEW t \in Threads, SendRelease(t)
    PROVE  \A c \in Contexts : HeldInv(c)'
<1>1. PICK d \in Contexts :
      /\ d = toctx[t] /\ pc[t] = "sendRelease" /\ contextRelease(d)
      /\ UNCHANGED <<drops, lost, queue, cur>>
      /\ \A u \in Threads : u # t => toctx'[u] = toctx[u]
  BY DEF SendRelease, Goto, EndSend, TypeInv, TypeOK, HandInv, SendSteps, poolVars, stopVars
<1>2. \E to \in {"sendRemove", "launched", "callback", "idle"} : pc' = [pc EXCEPT ![t] = to]
  BY DEF SendRelease, Goto, AfterSend, MaySend
<1>3. \A c \in Contexts : \A w \in Workers : Takes(w, c)' <=> Takes(w, c)
  BY <1>1, <1>2 DEF Takes, TypeInv, TypeOK, Threads
<1>4. \A c \in Contexts : \A u \in Threads :
         (u # t \/ c # d) => (Retains(u, c)' <=> Retains(u, c))
  BY <1>1, <1>2 DEF Retains, Retained, TypeInv, TypeOK
<1>5. Retains(t, d) /\ ~Retains(t, d)'
  BY <1>1, <1>2 DEF Retains, Retained, TypeInv, TypeOK
<1>6. \A c \in Contexts : InQueue(c)' <=> InQueue(c)
  BY <1>1 DEF InQueue
<1>7. drops' = drops /\ lost' = lost /\ contextRelease(d)
  BY <1>1
<1>8. \A c \in Contexts : c # d => mem'[c] = mem[c] /\ ref'[c] = ref[c]
  BY <1>7 DEF contextRelease, TypeInv, TypeOK
<1>9. \A c \in Contexts : c # d => HeldInv(c)'
  BY <1>3, <1>4, <1>6, <1>7, <1>8, SameHeld DEF Same, RefInv
<1>10. HeldInv(d)'
  <2>1. HeldInv(d)
    BY <1>7 DEF RefInv
  <2>2. IsFiniteSet(Retainers(d)') /\ Cardinality(Retainers(d)') = Cardinality(Retainers(d)) - 1
    BY <1>4, <1>5, <1>7, <2>1, RetainersLess DEF HeldInv
  <2>3. Taken(d)' = Taken(d) /\ IsFiniteSet(Taken(d)')
    BY <1>3, <1>7, <2>1, TakenSame DEF HeldInv
  <2>4. Held(d)' = Held(d) - 1 /\ Held(d)' \in Nat
    BY <1>5, <1>6, <1>7, <2>1, <2>2, <2>3, HeldTypes, HolderCounts DEF Held
  <2> QED BY <1>7, <2>1, <2>2, <2>3, <2>4, GivenUp
<1> QED BY <1>9, <1>10

LEMMA PopHeld ==
    ASSUME TypeInv, TokenInv, RefInv, NEW w \in Workers, contextQueuePop(w)
    PROVE  \A c \in Contexts : HeldInv(c)'
<1>1. /\ queue \in Seq(Contexts) /\ queue # <<>> /\ queue' = Tail(queue)
  BY DEF contextQueuePop, TypeInv, TypeOK
<1>2. PICK d \in Contexts :
      /\ d = Head(queue) /\ pc[w] = "pop" /\ cur[w] = None
      /\ pc' = [pc EXCEPT ![w] = "popCount"] /\ cur' = [cur EXCEPT ![w] = d]
      /\ UNCHANGED <<mem, ref, drops, lost, toctx>>
  BY <1>1, TailInQueue
  DEF contextQueuePop, Goto, RefInv, FreeHands, EmptyHanded, ctxVars, stopVars
<1>3. \A c \in Contexts : \A v \in Workers :
         (v # w \/ c # d) => (Takes(v, c)' <=> Takes(v, c))
  BY <1>2, PoolAssumption DEF Takes, TypeInv, TypeOK, Threads
<1>4. ~Takes(w, d) /\ Takes(w, d)'
  BY <1>2, PoolAssumption DEF Takes, TypeInv, TypeOK, Threads
<1>5. \A c \in Contexts : \A u \in Threads : Retains(u, c)' <=> Retains(u, c)
  BY <1>2 DEF Retains, Retained, TypeInv, TypeOK, Threads
<1>6. InQueue(d) /\ \A c \in Contexts : c # d => (InQueue(c)' <=> InQueue(c))
  BY <1>1, <1>2, TailInQueue
<1>7. ~InQueue(d)'
  <2>1. /\ Len(queue) \in Nat /\ Len(queue) >= 1 /\ Len(queue') = Len(queue) - 1
        /\ d = queue[1]
    BY <1>1, <1>2
  <2>2. \A i \in 1 .. Len(queue') : queue'[i] = queue[i + 1] /\ i + 1 \in 1 .. Len(queue)
    BY <1>1, <2>1
  <2>3. \A i \in 1 .. Len(queue) : queue[i] = d => i = 1
    BY <2>1 DEF TokenInv
  <2> QED BY <2>1, <2>2, <2>3 DEF InQueue
<1>8. mem' = mem /\ ref' = ref /\ drops' = drops /\ lost' = lost
  BY <1>2
<1>9. \A c \in Contexts : c # d => HeldInv(c)'
  BY <1>3, <1>5, <1>6, <1>8, SameHeld DEF Same, RefInv
<1>10. HeldInv(d)'
  <2>1. HeldInv(d)
    BY DEF RefInv
  <2>2. IsFiniteSet(Taken(d)') /\ Cardinality(Taken(d)') = Cardinality(Taken(d)) + 1
    BY <1>3, <1>4, <2>1, TakenMore DEF HeldInv
  <2>3. Retainers(d)' = Retainers(d)
    BY <1>5, RetainersSame
  <2>4. Held(d)' = Held(d) /\ Held(d) > 0
    BY <1>6, <1>7, <2>1, <2>2, <2>3, HeldTypes DEF Held
  <2> QED BY <1>8, <2>1, <2>2, <2>3, <2>4, HeldTypes, HandedOn DEF HeldInv
<1> QED BY <1>9, <1>10

LEMMA PushBackHeld ==
    ASSUME TypeInv, TokenInv, RefInv, NEW w \in Workers, PushBack(w)
    PROVE  \A c \in Contexts : HeldInv(c)'
<1>1. PICK d \in Contexts :
      /\ d = cur[w] /\ pc[w] = "publish"
      /\ pc' = [pc EXCEPT ![w] = "count"] /\ cur' = [cur EXCEPT ![w] = None]
      /\ queue' = Append(queue, d)
      /\ UNCHANGED <<mem, ref, drops, lost, toctx>>
  BY DEF PushBack, Goto, TypeInv, HandInv, InHand, ctxVars, stopVars
<1>2. \A c \in Contexts : \A v \in Workers :
         (v # w \/ c # d) => (Takes(v, c)' <=> Takes(v, c))
  BY <1>1, PoolAssumption DEF Takes, TypeInv, TypeOK, Threads
<1>3. Takes(w, d) /\ ~Takes(w, d)'
  BY <1>1, PoolAssumption DEF Takes, TypeInv, TypeOK, Threads
<1>4. \A c \in Contexts : \A u \in Threads : Retains(u, c)' <=> Retains(u, c)
  BY <1>1 DEF Retains, Retained, TypeInv, TypeOK, Threads
<1>5. \A c \in Contexts : InQueue(c)' <=> InQueue(c) \/ c = d
  BY <1>1, AppendInQueue DEF TypeInv, TypeOK
<1>6. ~InQueue(d)
  <2>1. Owns(w, d)
    BY <1>1 DEF Owns
  <2> QED BY <2>1 DEF TokenInv, InQueue
<1>7. mem' = mem /\ ref' = ref /\ drops' = drops /\ lost' = lost
  BY <1>1
<1>8. \A c \in Contexts : c # d => HeldInv(c)'
  BY <1>2, <1>4, <1>5, <1>7, SameHeld DEF Same, RefInv
<1>9. HeldInv(d)'
  <2>1. HeldInv(d)
    BY DEF RefInv
  <2>2. IsFiniteSet(Taken(d)') /\ Cardinality(Taken(d)') = Cardinality(Taken(d)) - 1
    BY <1>2, <1>3, <2>1, TakenLess DEF HeldInv
  <2>3. Retainers(d)' = Retainers(d)
    BY <1>4, RetainersSame
  <2>4. Held(d)' = Held(d) /\ Held(d) > 0
    BY <1>3, <1>5, <1>6, <2>1, <2>2, <2>3, HeldTypes, HolderCounts DEF Held
  <2> QED BY <1>7, <2>1, <2>2, <2>3, <2>4, HeldTypes, HandedOn DEF HeldInv
<1> QED BY <1>8, <1>9

LEMMA PushBackRefusedHeld ==
    ASSUME TypeInv, RefInv, NEW w \in Workers, PushBackRefused(w)
    PROVE  \A c \in Contexts : HeldInv(c)'
<1>1. PICK d \in Contexts :
      /\ d = cur[w] /\ pc[w] = "publish"
      /\ pc' = [pc EXCEPT ![w] = "checkNum"] /\ cur' = [cur EXCEPT ![w] = None]
      /\ lost' = [lost EXCEPT ![d] = @ + 1]
      /\ UNCHANGED <<mem, ref, drops, queue, toctx>>
  BY DEF PushBackRefused, Goto, TypeInv, HandInv, InHand, ctxVars, poolVars
<1>2. \A c \in Contexts : \A v \in Workers :
         (v # w \/ c # d) => (Takes(v, c)' <=> Takes(v, c))
  BY <1>1, PoolAssumption DEF Takes, TypeInv, TypeOK, Threads
<1>3. Takes(w, d) /\ ~Takes(w, d)'
  BY <1>1, PoolAssumption DEF Takes, TypeInv, TypeOK, Threads
<1>4. \A c \in Contexts : \A u \in Threads : Retains(u, c)' <=> Retains(u, c)
  BY <1>1 DEF Retains, Retained, TypeInv, TypeOK, Threads
<1>5. \A c \in Contexts : InQueue(c)' <=> InQueue(c)
  BY <1>1 DEF InQueue
<1>6. lost'[d] = lost[d] + 1 /\ \A c \in Contexts : c # d => lost'[c] = lost[c]
  BY <1>1 DEF TypeInv, TypeOK
<1>7. mem' = mem /\ ref' = ref /\ drops' = drops
  BY <1>1
<1>8. \A c \in Contexts : c # d => HeldInv(c)'
  BY <1>2, <1>4, <1>5, <1>6, <1>7, SameHeld DEF Same, RefInv
<1>9. HeldInv(d)'
  <2>1. HeldInv(d)
    BY DEF RefInv
  <2>2. IsFiniteSet(Taken(d)') /\ Cardinality(Taken(d)') = Cardinality(Taken(d)) - 1
    BY <1>2, <1>3, <2>1, TakenLess DEF HeldInv
  <2>3. Retainers(d)' = Retainers(d)
    BY <1>4, RetainersSame
  <2>4. Held(d)' = Held(d) - 1 /\ Held(d) > 0
    BY <1>3, <1>5, <2>1, <2>2, <2>3, HeldTypes, HolderCounts DEF Held
  <2>5. IsFiniteSet(Retainers(d)') /\ Held(d)' \in Nat /\ lost'[d] \in Nat
        /\ Held(d)' + lost'[d] = Held(d) + lost[d]
    BY <1>6, <2>1, <2>3, <2>4, HeldTypes DEF HeldInv
  <2> QED BY <1>7, <2>1, <2>2, <2>4, <2>5, HandedOn
<1> QED BY <1>8, <1>9

LEMMA WorkerReleaseHeld ==
    ASSUME TypeInv, RefInv, NEW w \in Workers, ctxMgrReleaseContext(w)
    PROVE  \A c \in Contexts : HeldInv(c)'
<1>1. PICK d \in Contexts :
      /\ d = cur[w] /\ pc[w] = "release" /\ contextRelease(d)
      /\ UNCHANGED <<drops, lost, queue, toctx>>
      /\ \/ pc' = [pc EXCEPT ![w] = "remove"] /\ cur' = cur
         \/ pc' = [pc EXCEPT ![w] = "checkNumSleep"] /\ cur' = [cur EXCEPT ![w] = None]
  BY DEF ctxMgrReleaseContext, Goto, TypeInv, HandInv, InHand, poolVars, stopVars
<1>2. \A c \in Contexts : \A v \in Workers :
         (v # w \/ c # d) => (Takes(v, c)' <=> Takes(v, c))
  BY <1>1, PoolAssumption DEF Takes, TypeInv, TypeOK, Threads
<1>3. Takes(w, d) /\ ~Takes(w, d)'
  BY <1>1, PoolAssumption DEF Takes, TypeInv, TypeOK, Threads
<1>4. \A c \in Contexts : \A u \in Threads : Retains(u, c)' <=> Retains(u, c)
  BY <1>1 DEF Retains, Retained, TypeInv, TypeOK, Threads
<1>5. \A c \in Contexts : InQueue(c)' <=> InQueue(c)
  BY <1>1 DEF InQueue
<1>6. drops' = drops /\ lost' = lost /\ contextRelease(d)
  BY <1>1
<1>7. \A c \in Contexts : c # d => mem'[c] = mem[c] /\ ref'[c] = ref[c]
  BY <1>6 DEF contextRelease, TypeInv, TypeOK
<1>8. \A c \in Contexts : c # d => HeldInv(c)'
  BY <1>2, <1>4, <1>5, <1>6, <1>7, SameHeld DEF Same, RefInv
<1>9. HeldInv(d)'
  <2>1. HeldInv(d)
    BY DEF RefInv
  <2>2. IsFiniteSet(Taken(d)') /\ Cardinality(Taken(d)') = Cardinality(Taken(d)) - 1
    BY <1>2, <1>3, <2>1, TakenLess DEF HeldInv
  <2>3. Retainers(d)' = Retainers(d) /\ IsFiniteSet(Retainers(d)')
    BY <1>4, <2>1, RetainersSame DEF HeldInv
  <2>4. Held(d)' = Held(d) - 1 /\ Held(d)' \in Nat
    BY <1>3, <1>5, <2>1, <2>2, <2>3, HeldTypes, HolderCounts DEF Held
  <2> QED BY <1>6, <2>1, <2>2, <2>3, <2>4, GivenUp
<1> QED BY <1>8, <1>9

\* A context that drops its creation's reference, by an EXIT message or by
\* ctxMgrStop, keeps its holders.
LEMMA DropHeld ==
    ASSUME TypeInv, RefInv, NEW d \in Contexts, contextRelease(d),
           drops' = [drops EXCEPT ![d] = @ + 1], lost' = lost, queue' = queue,
           \A c \in Contexts : \A v \in Workers : Takes(v, c)' <=> Takes(v, c),
           \A c \in Contexts : \A u \in Threads : Retains(u, c)' <=> Retains(u, c)
    PROVE  /\ \A c \in Contexts : HeldInv(c)'
           /\ ref[d] = 1 /\ Held(d) > 0 => drops'[d] > 1
<1>1. \A c \in Contexts : InQueue(c)' <=> InQueue(c)
  BY DEF InQueue
<1>2. drops'[d] = drops[d] + 1 /\ \A c \in Contexts : c # d => drops'[c] = drops[c]
  BY DEF TypeInv, TypeOK
<1>3. \A c \in Contexts : c # d => mem'[c] = mem[c] /\ ref'[c] = ref[c]
  BY DEF contextRelease, TypeInv, TypeOK
<1>4. \A c \in Contexts : c # d => HeldInv(c)'
  BY <1>1, <1>2, <1>3, SameHeld DEF Same, RefInv
<1>5. Taken(d)' = Taken(d) /\ Retainers(d)' = Retainers(d)
  BY TakenSame, RetainersSame
<1>6. Held(d)' = Held(d) /\ HeldInv(d)
  BY <1>1, <1>5 DEF Held, RefInv
<1> QED BY <1>2, <1>4, <1>5, <1>6, CreationDropped

\* The worker that handles the EXIT message holds the context.
LEMMA ExitHeld ==
    ASSUME TypeInv, RefInv, NEW w \in Workers, DispatchExit(w)
    PROVE  (\A c \in Contexts : HeldInv(c)') /\ AssertInv'
<1>1. PICK d \in Contexts :
      /\ d = cur[w] /\ pc[w] = "dispatch" /\ contextRelease(d)
      /\ drops' = [drops EXCEPT ![d] = @ + 1]
      /\ broken' = (IF ref[d] = 1 THEN "assert" ELSE "no")
      /\ pc' = [pc EXCEPT ![w] = "clear"]
      /\ UNCHANGED <<lost, queue, cur, toctx>>
  BY DEF DispatchExit, Goto, TypeInv, HandInv, InHand, poolVars
<1>2. \A c \in Contexts : \A v \in Workers : Takes(v, c)' <=> Takes(v, c)
  BY <1>1 DEF Takes, TypeInv, TypeOK, Threads
<1>3. \A c \in Contexts : \A u \in Threads : Retains(u, c)' <=> Retains(u, c)
  BY <1>1 DEF Retains, Retained, TypeInv, TypeOK, Threads
<1>4. /\ \A c \in Contexts : HeldInv(c)'
      /\ ref[d] = 1 /\ Held(d) > 0 => drops'[d] > 1
  BY <1>1, <1>2, <1>3, DropHeld
<1>5. Held(d) > 0
  <2>1. Takes(w, d) /\ HeldInv(d)
    BY <1>1 DEF Takes, RefInv
  <2> QED BY <2>1, HeldTypes, HolderCounts DEF Held
<1> QED BY <1>1, <1>4, <1>5 DEF AssertInv

LEMMA StopHeld ==
    ASSUME TypeInv, RefInv, NEW d \in Contexts, StopContext(d)
    PROVE  \A c \in Contexts : HeldInv(c)'
<1>1. /\ contextRelease(d) /\ drops' = [drops EXCEPT ![d] = @ + 1]
      /\ UNCHANGED <<lost, queue, pc, cur, toctx>>
  BY DEF StopContext, poolVars, threadVars
<1>2. \A c \in Contexts : \A v \in Workers : Takes(v, c)' <=> Takes(v, c)
  BY <1>1 DEF Takes
<1>3. \A c \in Contexts : \A u \in Threads : Retains(u, c)' <=> Retains(u, c)
  BY <1>1 DEF Retains
<1> QED BY <1>1, <1>2, <1>3, DropHeld

\* A new context has the reference of its creation and no holder.
LEMMA LaunchHeld ==
    ASSUME TypeInv, RefInv, NEW w \in Workers, NEW d \in Contexts, Launch(w, d)
    PROVE  \A c \in Contexts : HeldInv(c)'
<1>1. /\ pc[w] = "callback" /\ pc' = [pc EXCEPT ![w] = "get"] /\ mem[d] = "unborn"
      /\ mem' = [mem EXCEPT ![d] = "live"] /\ ref' = [ref EXCEPT ![d] = 1]
      /\ toctx' = [toctx EXCEPT ![w] = d]
      /\ UNCHANGED <<queue, cur, drops, lost>>
  BY DEF Launch, Goto, SendTo, poolVars, stopVars
<1>2. \A c \in Contexts : \A v \in Workers : Takes(v, c)' <=> Takes(v, c)
  BY <1>1 DEF Takes, TypeInv, TypeOK, Threads
<1>3. \A c \in Contexts : \A u \in Threads : Retains(u, c)' <=> Retains(u, c)
  BY <1>1 DEF Retains, Retained, TypeInv, TypeOK, Threads
<1>4. \A c \in Contexts : InQueue(c)' <=> InQueue(c)
  BY <1>1 DEF InQueue
<1>5. /\ mem'[d] = "live" /\ ref'[d] = 1
      /\ \A c \in Contexts : c # d => mem'[c] = mem[c] /\ ref'[c] = ref[c]
  BY <1>1 DEF TypeInv, TypeOK
<1>6. drops' = drops /\ lost' = lost /\ mem[d] = "unborn"
  BY <1>1
<1>7. \A c \in Contexts : c # d => HeldInv(c)'
  BY <1>2, <1>3, <1>4, <1>5, <1>6, SameHeld DEF Same, RefInv
<1>8. HeldInv(d)'
  <2>1. Untouched(d)
    BY <1>6 DEF RefInv, UnbornInv
  <2>2. Taken(d) = {} /\ Retainers(d) = {} /\ ~InQueue(d)
    BY <2>1 DEF Untouched, Taken, Takes, Retainers, Retains
  <2>3. Taken(d)' = {} /\ Retainers(d)' = {}
    BY <1>2, <1>3, <2>2, TakenSame, RetainersSame
  <2>4. Held(d)' = 0 /\ drops'[d] = 0 /\ lost'[d] = 0
    BY <1>4, <1>6, <2>1, <2>2, <2>3, FS_EmptySet DEF Held, Untouched
  <2> QED BY <1>5, <2>3, <2>4, FS_EmptySet DEF HeldInv
<1> QED BY <1>7, <1>8

LEMMA QuietHeld ==
    ASSUME RefInv, Quiet
    PROVE  \A c \in Contexts : HeldInv(c)'
<1>1. \A c \in Contexts : Same(c)
  BY DEF Quiet, Same, InQueue
<1> QED BY <1>1, SameHeld DEF RefInv

\* No other step fails an assertion: inGlobal is 1 when the worker clears it.
LEMMA NoOtherAssert ==
    ASSUME TypeInv, TokenInv, [Next]_vars, ~ \E w \in Workers : DispatchExit(w)
    PROVE  broken' # "assert" \/ UNCHANGED <<broken, drops>>
<1> DEFINE P == broken' # "assert" \/ UNCHANGED <<broken, drops>>
<1> USE DEF stopVars, Goto
<1>1. ASSUME NEW t \in Threads, NEW c \in Contexts, NEW m \in {"data", "exit"}, SendCall(t, c, m) PROVE P
  BY <1>1 DEF SendCall
<1>2. ASSUME NEW t \in Threads, SendGet(t) PROVE P
  BY <1>2 DEF SendGet
<1>3. ASSUME NEW t \in Threads, SendNotFound(t) PROVE P
  BY <1>3 DEF SendNotFound
<1>4. ASSUME NEW t \in Threads, contextRetain(t) PROVE P
  BY <1>4 DEF contextRetain
<1>5. ASSUME NEW t \in Threads, messageQueuePush(t) PROVE P
  BY <1>5 DEF messageQueuePush
<1>6. ASSUME NEW t \in Threads, MessageQueueFull(t) PROVE P
  BY <1>6 DEF MessageQueueFull
<1>7. ASSUME NEW t \in Threads, SendMark(t) PROVE P
  BY <1>7 DEF SendMark
<1>8. ASSUME NEW t \in Threads, SendMarked(t) PROVE P
  BY <1>8 DEF SendMarked
<1>9. ASSUME NEW t \in Threads, SendPublish(t) PROVE P
  BY <1>9 DEF SendPublish
<1>10. ASSUME NEW t \in Threads, SendPublishRefused(t) PROVE P
  BY <1>10 DEF SendPublishRefused
<1>11. ASSUME NEW t \in Threads, SendCount(t) PROVE P
  BY <1>11 DEF SendCount
<1>12. ASSUME NEW t \in Threads, threadWakeUp(t) PROVE P
  BY <1>12 DEF threadWakeUp
<1>13. ASSUME NEW t \in Threads, SendRelease(t) PROVE P
  BY <1>13 DEF SendRelease
<1>14. ASSUME NEW t \in Threads, SendRemove(t) PROVE P
  BY <1>14 DEF SendRemove
<1>15. ASSUME NEW w \in Workers, NEW c \in Contexts, Launch(w, c) PROVE P
  BY <1>15 DEF Launch
<1>16. ASSUME NEW w \in Workers, contextQueuePop(w) PROVE P
  BY <1>16 DEF contextQueuePop
<1>17. ASSUME NEW w \in Workers, PopNothing(w) PROVE P
  BY <1>17 DEF PopNothing
<1>18. ASSUME NEW w \in Workers, PopCount(w) PROVE P
  BY <1>18 DEF PopCount
<1>19. ASSUME NEW w \in Workers, DispatchEmpty(w) PROVE P
  BY <1>19 DEF DispatchEmpty
<1>20. ASSUME NEW w \in Workers, DispatchDrop(w) PROVE P
  BY <1>20 DEF DispatchDrop
<1>21. ASSUME NEW w \in Workers, DispatchCallback(w) PROVE P
  BY <1>21 DEF DispatchCallback
<1>22. ASSUME NEW w \in Workers, DispatchLaunch(w) PROVE P
  BY <1>22 DEF DispatchLaunch
<1>23. ASSUME NEW w \in Workers, LoadSucceeds(w) PROVE P
  BY <1>23 DEF LoadSucceeds
<1>24. ASSUME NEW w \in Workers, LoadFails(w) PROVE P
  BY <1>24 DEF LoadFails
<1>25. ASSUME NEW w \in Workers, Launched(w) PROVE P
  BY <1>25 DEF Launched
<1>26. ASSUME NEW w \in Workers, CallbackReturns(w) PROVE P
  BY <1>26 DEF CallbackReturns
<1>27. ASSUME NEW w \in Workers, HaveWork(w) PROVE P
  BY <1>27 DEF HaveWork
<1>28. ASSUME NEW w \in Workers, PushBack(w) PROVE P
  BY <1>28 DEF PushBack
<1>29. ASSUME NEW w \in Workers, PushBackRefused(w) PROVE P
  BY <1>29 DEF PushBackRefused
<1>30. ASSUME NEW w \in Workers, PushBackCount(w) PROVE P
  BY <1>30 DEF PushBackCount
<1>31. ASSUME NEW w \in Workers, ClearInGlobal(w) PROVE P
  <2>1. cur[w] \in Contexts /\ Owns(w, cur[w])
    BY <1>31 DEF ClearInGlobal, TypeInv, HandInv, InHand, Owns
  <2>2. inGlobal[cur[w]] = 1
    BY <2>1 DEF TokenInv
  <2> QED BY <1>31, <2>2 DEF ClearInGlobal
<1>32. ASSUME NEW w \in Workers, ctxMgrReleaseContext(w) PROVE P
  BY <1>32 DEF ctxMgrReleaseContext
<1>33. ASSUME NEW w \in Workers, Remove(w) PROVE P
  BY <1>33 DEF Remove
<1>34. ASSUME NEW w \in Workers, CheckNumZero(w) PROVE P
  BY <1>34 DEF CheckNumZero
<1>35. ASSUME NEW w \in Workers, CheckNum(w) PROVE P
  BY <1>35 DEF CheckNum
<1>36. ASSUME NEW w \in Workers, threadSleep(w) PROVE P
  BY <1>36 DEF threadSleep
<1>37. ASSUME NEW w \in Workers, StayAwake(w) PROVE P
  BY <1>37 DEF StayAwake
<1>38. ASSUME StopBegin PROVE P
  BY <1>38 DEF StopBegin
<1>39. ASSUME NEW c \in Contexts, StopContext(c) PROVE P
  BY <1>39 DEF StopContext, TypeInv, TypeOK
<1>40. ASSUME StopUnlock PROVE P
  BY <1>40 DEF StopUnlock
<1>41. ASSUME workerPoolStop PROVE P
  BY <1>41 DEF workerPoolStop
<1>42. ASSUME UseAfterFree PROVE P
  BY <1>42 DEF UseAfterFree
<1>43. ASSUME UNCHANGED vars PROVE P
  BY <1>43 DEF vars
<1> HIDE DEF P, stopVars, Goto
<1>44. P
  BY <1>1, <1>2, <1>3, <1>4, <1>5, <1>6, <1>7, <1>8, <1>9, <1>10, <1>11, <1>12,
     <1>13, <1>14, <1>15, <1>16, <1>17, <1>18, <1>19, <1>20, <1>21, <1>22, <1>23,
     <1>24, <1>25, <1>26, <1>27, <1>28, <1>29, <1>30, <1>31, <1>32, <1>33, <1>34,
     <1>35, <1>36, <1>37, <1>38, <1>39, <1>40, <1>41, <1>42, <1>43
  DEF Next, Step, ContinueStop, workerPoolSend, handle
<1> QED BY <1>44 DEF P

LEMMA RefStep ==
    ASSUME TypeInv, TokenInv, RefInv, [Next]_vars
    PROVE  RefInv'
<1>1. FreeHands' /\ UnbornInv'
  BY FreeHandsStep, UnbornStep DEF RefInv
<1>2. AssertInv'
  <2>1. CASE \E w \in Workers : DispatchExit(w)
    BY <2>1, ExitHeld
  <2>2. CASE ~ \E w \in Workers : DispatchExit(w)
    BY <2>2, NoOtherAssert DEF RefInv, AssertInv
  <2> QED BY <2>1, <2>2
<1>3. \A c \in Contexts : HeldInv(c)'
  <2>1. ASSUME NEW t \in Threads,
               contextRetain(t) \/ SendPublish(t) \/ SendPublishRefused(t) \/ SendRelease(t)
        PROVE  \A c \in Contexts : HeldInv(c)'
    BY <2>1, RetainHeld, PublishHeld, RefusedHeld, SendReleaseHeld
  <2>2. ASSUME NEW w \in Workers,
               \/ contextQueuePop(w) \/ PushBack(w) \/ PushBackRefused(w)
               \/ ctxMgrReleaseContext(w) \/ DispatchExit(w)
               \/ \E d \in Contexts : Launch(w, d)
        PROVE  \A c \in Contexts : HeldInv(c)'
    BY <2>2, PopHeld, PushBackHeld, PushBackRefusedHeld, WorkerReleaseHeld, ExitHeld, LaunchHeld
  <2>3. ASSUME NEW d \in Contexts, StopContext(d)
        PROVE  \A c \in Contexts : HeldInv(c)'
    BY <2>3, StopHeld
  <2>4. CASE Quiet
    BY <2>4, QuietHeld
  <2> QED BY <2>1, <2>2, <2>3, <2>4, QuietStep
          DEF Next, Step, ContinueStop, workerPoolSend, handle
<1> QED BY <1>1, <1>2, <1>3 DEF RefInv

LEMMA InitRefInv == Init => RefInv
<1> SUFFICES ASSUME Init PROVE RefInv
  OBVIOUS
<1>1. FreeHands /\ AssertInv
  BY DEF Init, FreeHands, AssertInv
<1>2. \A c \in Contexts : InQueue(c) <=> c = Boot
  BY PoolAssumption DEF Init, InQueue
<1>3. UnbornInv
  BY <1>2, PoolAssumption DEF Init, UnbornInv, Untouched
<1>4. ASSUME NEW c \in Contexts PROVE HeldInv(c)
  <2>1. Taken(c) = {} /\ Retainers(c) = {}
    BY PoolAssumption DEF Init, Taken, Takes, Retainers, Retains
  <2>2. Held(c) = (IF c = Boot THEN 1 ELSE 0)
    BY <1>2, <2>1, FS_EmptySet DEF Held
  <2>3. drops[c] = 0 /\ lost[c] = 0
    BY DEF Init
  <2>4. CASE c = Boot
    BY <2>1, <2>2, <2>3, <2>4, FS_EmptySet DEF HeldInv, Init
  <2>5. CASE c # Boot
    BY <2>1, <2>2, <2>3, <2>5, FS_EmptySet DEF HeldInv, Init
  <2> QED BY <2>4, <2>5
<1> QED BY <1>1, <1>3, <1>4 DEF RefInv

LEMMA RefInvariant == Spec => []RefInv
<1>1. PoolInv /\ RefInv /\ [Next]_vars => RefInv'
  BY RefStep DEF PoolInv, TypeInv
<1> QED BY <1>1, InitRefInv, PoolInvariant, PTL DEF Spec

\* A context is in the queue once, so that Held counts what Holders counts.
LEMMA HoldersHeld ==
    ASSUME TypeInv, TokenInv, NEW c \in Contexts
    PROVE  Holders(c) = Held(c)
<1> DEFINE Q == {i \in 1 .. Len(queue) : queue[i] = c}
<1>1. Cardinality(Q) = (IF InQueue(c) THEN 1 ELSE 0)
  <2>1. CASE InQueue(c)
    <3>1. PICK i \in 1 .. Len(queue) : queue[i] = c
      BY <2>1 DEF InQueue
    <3>2. Q = {i}
      BY <3>1 DEF TokenInv
    <3> QED BY <2>1, <3>2, FS_Singleton
  <2>2. CASE ~InQueue(c)
    <3>1. Q = {}
      BY <2>2 DEF InQueue
    <3> QED BY <2>2, <3>1, FS_EmptySet
  <2> QED BY <2>1, <2>2
<1>2. /\ Taken(c) = {w \in Workers : cur[w] = c /\ pc[w] # "remove"}
      /\ Retainers(c) = {t \in Threads : toctx[t] = c /\ pc[t] \in Retained}
  BY DEF Taken, Takes, Retainers, Retains
<1> QED BY <1>1, <1>2 DEF Holders, Held

\* The field ref of a context (context.c) is the number of its holders plus the
\* creation's reference and what refused pushes have lost, in every state and
\* for any number of threads and contexts.
THEOREM ReferencesCounted == Spec => []RefCount
<1>1. PoolInv /\ RefInv => RefCount
  BY HoldersHeld DEF PoolInv, TypeInv, RefInv, HeldInv, RefCount
<1> QED BY <1>1, PoolInvariant, RefInvariant, PTL

\* As long as no context is dropped twice the assertions of the dispatch loop
\* hold, and only contextRetain and the launcher's read of the id can touch a
\* context that was freed.
THEOREM HeldContextsLive == Spec => []OnlyUnretainedDangles
<1>1. PoolInv /\ RefInv => OnlyUnretainedDangles
  <2> SUFFICES ASSUME PoolInv, RefInv, DroppedOnce
               PROVE  /\ broken # "assert"
                      /\ \A t \in Threads : Dangling(t) => pc[t] \in {"retain", "launched"}
    BY DEF OnlyUnretainedDangles
  <2>1. \A c \in Contexts : drops[c] \in Nat /\ drops[c] <= 1
    BY DEF DroppedOnce, PoolInv, TypeOK
  <2>2. broken # "assert"
    BY <2>1 DEF RefInv, AssertInv
  <2>3. ASSUME NEW c \in Contexts, \/ \E w \in Workers : Takes(w, c)
                                   \/ \E t \in Threads : Retains(t, c)
        PROVE  mem[c] # "freed"
    <3>1. HeldInv(c) /\ TypeInv
      BY DEF RefInv, PoolInv, TypeInv
    <3>2. Held(c) > 0
      BY <2>3, <3>1, HeldTypes, HolderCounts DEF Held
    <3> QED BY <2>1, <3>1, <3>2 DEF HeldInv
  <2>4. ASSUME NEW t \in Threads, pc[t] \in TouchesReceiver, mem[toctx[t]] = "freed"
        PROVE  pc[t] \in {"retain", "launched"}
    <3>1. toctx[t] \in Contexts
      BY <2>4 DEF PoolInv, HandInv, SendSteps, TouchesReceiver
    <3>2. ~Retains(t, toctx[t])
      BY <2>3, <2>4, <3>1
    <3> QED BY <2>4, <3>2 DEF Retains, Retained, TouchesReceiver
  <2>5. ASSUME NEW w \in Workers, pc[w] \in TouchesCurrent, mem[cur[w]] = "freed"
        PROVE  FALSE
    <3>1. cur[w] \in Contexts
      BY <2>5 DEF PoolInv, HandInv, InHand, TouchesCurrent
    <3>2. Takes(w, cur[w])
      BY <2>5 DEF Takes, TouchesCurrent
    <3> QED BY <2>3, <2>5, <3>1, <3>2
  <2> QED BY <2>2, <2>4, <2>5 DEF Dangling
<1> QED BY <1>1, PoolInvariant, RefInvariant, PTL

-----------------------------------------------------------------------------
(* The counter of the global queue and the wake-up *)

\* The threads between their push or pop and the update of the counter.
Pushed(t) == pc[t] = "sendCount" \/ (t \in Workers /\ pc[t] = "count")

Popped(t) == t \in Workers /\ pc[t] = "popCount"

Pushers == {t \in Threads : Pushed(t)}

Poppers == {t \in Threads : Popped(t)}

Lag == Len(queue) - Cardinality(Pushers) + Cardinality(Poppers)

CountInv ==
    /\ IsFiniteSet(Pushers) /\ IsFiniteSet(Poppers)
    /\ Len(queue) <= QueueLen
    /\ count = Lag % Word

\* A step that neither pushes or pops nor counts.
Uncounted ==
    /\ UNCHANGED <<queue, count>>
    /\ \A t \in Threads : (Pushed(t)' <=> Pushed(t)) /\ (Popped(t)' <=> Popped(t))

LEMMA UncountedStep ==
    ASSUME TypeInv
    PROVE  /\ \A t \in Threads :
                 \/ \E c \in Contexts, m \in {"data", "exit"} : SendCall(t, c, m)
                 \/ SendGet(t)
                 \/ SendNotFound(t)
                 \/ contextRetain(t)
                 \/ messageQueuePush(t)
                 \/ MessageQueueFull(t)
                 \/ SendMark(t)
                 \/ SendMarked(t)
                 \/ SendPublishRefused(t)
                 \/ threadWakeUp(t)
                 \/ SendRelease(t)
                 \/ SendRemove(t)
                 => Uncounted
           /\ \A w \in Workers :
                 \/ \E c \in Contexts : Launch(w, c)
                 \/ PopNothing(w)
                 \/ DispatchEmpty(w)
                 \/ DispatchDrop(w)
                 \/ DispatchExit(w)
                 \/ DispatchCallback(w)
                 \/ DispatchLaunch(w)
                 \/ LoadSucceeds(w)
                 \/ LoadFails(w)
                 \/ Launched(w)
                 \/ CallbackReturns(w)
                 \/ HaveWork(w)
                 \/ PushBackRefused(w)
                 \/ ClearInGlobal(w)
                 \/ ctxMgrReleaseContext(w)
                 \/ Remove(w)
                 \/ CheckNumZero(w)
                 \/ CheckNum(w)
                 \/ threadSleep(w)
                 \/ StayAwake(w)
                 => Uncounted
           /\ StopBegin \/ ContinueStop \/ UseAfterFree => Uncounted
           /\ UNCHANGED vars => Uncounted
<1> USE PoolAssumption DEF TypeInv, TypeOK, WaitInv, Uncounted, Pushed, Popped, ctxVars, poolVars,
        threadVars, Goto, AfterSend, MaySend, WakeAll, Threads
<1>1. ASSUME NEW t \in Threads, NEW c \in Contexts, NEW m \in {"data", "exit"}, SendCall(t, c, m) PROVE Uncounted
  BY <1>1 DEF SendCall
<1>2. ASSUME NEW t \in Threads, SendGet(t) PROVE Uncounted
  BY <1>2 DEF SendGet
<1>3. ASSUME NEW t \in Threads, SendNotFound(t) PROVE Uncounted
  BY <1>3 DEF SendNotFound
<1>4. ASSUME NEW t \in Threads, contextRetain(t) PROVE Uncounted
  BY <1>4 DEF contextRetain
<1>5. ASSUME NEW t \in Threads, messageQueuePush(t) PROVE Uncounted
  BY <1>5 DEF messageQueuePush
<1>6. ASSUME NEW t \in Threads, MessageQueueFull(t) PROVE Uncounted
  BY <1>6 DEF MessageQueueFull
<1>7. ASSUME NEW t \in Threads, SendMark(t) PROVE Uncounted
  BY <1>7 DEF SendMark
<1>8. ASSUME NEW t \in Threads, SendMarked(t) PROVE Uncounted
  BY <1>8 DEF SendMarked
<1>9. ASSUME NEW t \in Threads, SendPublishRefused(t) PROVE Uncounted
  BY <1>9 DEF SendPublishRefused
<1>10. ASSUME NEW t \in Threads, threadWakeUp(t) PROVE Uncounted
  <2> DEFINE next == AfterSend(t)
             Apart(u) == pc'[u] = pc[u] \/ (pc'[u] \in {"sleep", "launched", "callback", "idle"}
                                           /\ pc[u] \in {"waiting", "signal"})
  <2>1. UNCHANGED <<queue, count>> /\ pc[t] = "signal"
    BY <1>10 DEF threadWakeUp
  <2>2. next \in {"launched", "callback", "idle"}
    OBVIOUS
  <2> HIDE DEF next, AfterSend
  <2>3. ASSUME NEW u \in Threads PROVE Apart(u)
    <3>1. CASE pc' = [pc EXCEPT ![t] = next]
      BY <2>1, <2>2, <3>1
    <3>2. ASSUME NEW w \in waiting, pc' = [pc EXCEPT ![w] = "sleep", ![t] = next]
          PROVE  Apart(u)
      <4>1. w \in Threads /\ pc[w] = "waiting"
        OBVIOUS
      <4> QED BY <2>1, <2>2, <3>2, <4>1
    <3> QED BY <1>10, <3>1, <3>2 DEF threadWakeUp, next
  <2> QED BY <2>1, <2>3
<1>11. ASSUME NEW t \in Threads, SendRelease(t) PROVE Uncounted
  BY <1>11 DEF SendRelease
<1>12. ASSUME NEW t \in Threads, SendRemove(t) PROVE Uncounted
  BY <1>12 DEF SendRemove
<1>13. ASSUME NEW w \in Workers, NEW c \in Contexts, Launch(w, c) PROVE Uncounted
  BY <1>13 DEF Launch
<1>14. ASSUME NEW w \in Workers, PopNothing(w) PROVE Uncounted
  BY <1>14 DEF PopNothing
<1>15. ASSUME NEW w \in Workers, DispatchEmpty(w) PROVE Uncounted
  BY <1>15 DEF DispatchEmpty
<1>16. ASSUME NEW w \in Workers, DispatchDrop(w) PROVE Uncounted
  BY <1>16 DEF DispatchDrop
<1>17. ASSUME NEW w \in Workers, DispatchExit(w) PROVE Uncounted
  BY <1>17 DEF DispatchExit
<1>18. ASSUME NEW w \in Workers, DispatchCallback(w) PROVE Uncounted
  BY <1>18 DEF DispatchCallback
<1>19. ASSUME NEW w \in Workers, DispatchLaunch(w) PROVE Uncounted
  BY <1>19 DEF DispatchLaunch
<1>20. ASSUME NEW w \in Workers, LoadSucceeds(w) PROVE Uncounted
  BY <1>20 DEF LoadSucceeds
<1>21. ASSUME NEW w \in Workers, LoadFails(w) PROVE Uncounted
  BY <1>21 DEF LoadFails
<1>22. ASSUME NEW w \in Workers, Launched(w) PROVE Uncounted
  BY <1>22 DEF Launched
<1>23. ASSUME NEW w \in Workers, CallbackReturns(w) PROVE Uncounted
  BY <1>23 DEF CallbackReturns
<1>24. ASSUME NEW w \in Workers, HaveWork(w) PROVE Uncounted
  BY <1>24 DEF HaveWork
<1>25. ASSUME NEW w \in Workers, PushBackRefused(w) PROVE Uncounted
  BY <1>25 DEF PushBackRefused
<1>26. ASSUME NEW w \in Workers, ClearInGlobal(w) PROVE Uncounted
  BY <1>26 DEF ClearInGlobal
<1>27. ASSUME NEW w \in Workers, ctxMgrReleaseContext(w) PROVE Uncounted
  BY <1>27 DEF ctxMgrReleaseContext
<1>28. ASSUME NEW w \in Workers, Remove(w) PROVE Uncounted
  BY <1>28 DEF Remove
<1>29. ASSUME NEW w \in Workers, CheckNumZero(w) PROVE Uncounted
  BY <1>29 DEF CheckNumZero
<1>30. ASSUME NEW w \in Workers, CheckNum(w) PROVE Uncounted
  BY <1>30 DEF CheckNum
<1>31. ASSUME NEW w \in Workers, threadSleep(w) PROVE Uncounted
  BY <1>31 DEF threadSleep
<1>32. ASSUME NEW w \in Workers, StayAwake(w) PROVE Uncounted
  BY <1>32 DEF StayAwake
<1>33. ASSUME StopBegin PROVE Uncounted
  BY <1>33 DEF StopBegin
<1>34. ASSUME NEW c \in Contexts, StopContext(c) PROVE Uncounted
  BY <1>34 DEF StopContext
<1>35. ASSUME StopUnlock PROVE Uncounted
  BY <1>35 DEF StopUnlock
<1>36. ASSUME workerPoolStop PROVE Uncounted
  BY <1>36 DEF workerPoolStop
<1>37. ASSUME UseAfterFree PROVE Uncounted
  BY <1>37 DEF UseAfterFree
<1>38. ASSUME UNCHANGED vars PROVE Uncounted
  BY <1>38 DEF vars
<1> HIDE DEF TypeInv, TypeOK, WaitInv, Uncounted, Pushed, Popped, ctxVars, poolVars,
        threadVars, Goto, AfterSend, MaySend, WakeAll, Threads
<1> QED
  BY <1>1, <1>2, <1>3, <1>4, <1>5, <1>6, <1>7, <1>8, <1>9, <1>10, <1>11, <1>12,
     <1>13, <1>14, <1>15, <1>16, <1>17, <1>18, <1>19, <1>20, <1>21, <1>22, <1>23,
     <1>24, <1>25, <1>26, <1>27, <1>28, <1>29, <1>30, <1>31, <1>32, <1>33, <1>34,
     <1>35, <1>36, <1>37, <1>38
  DEF ContinueStop

\* How a thread enters and leaves the two sets.
LEMMA PusherMoves ==
    ASSUME NEW t \in Threads, \A u \in Threads \ {t} : pc'[u] = pc[u],
           ~Popped(t), ~Popped(t)', IsFiniteSet(Pushers)
    PROVE  /\ Poppers' = Poppers /\ IsFiniteSet(Pushers')
           /\ ~Pushed(t) /\ Pushed(t)' => Cardinality(Pushers') = Cardinality(Pushers) + 1
           /\ Pushed(t) /\ ~Pushed(t)' => Cardinality(Pushers') = Cardinality(Pushers) - 1
<1>1. \A u \in Threads \ {t} : (Pushed(u)' <=> Pushed(u)) /\ (Popped(u)' <=> Popped(u))
  BY DEF Pushed, Popped
<1>2. Poppers' = Poppers
  BY <1>1 DEF Poppers
<1>3. CASE Pushed(t)'
  <2>1. Pushers' = Pushers \cup {t} /\ (t \in Pushers <=> Pushed(t))
    BY <1>1, <1>3 DEF Pushers
  <2> QED BY <1>2, <1>3, <2>1, FS_AddElement
<1>4. CASE ~Pushed(t)'
  <2>1. Pushers' = Pushers \ {t} /\ (t \in Pushers <=> Pushed(t))
    BY <1>1, <1>4 DEF Pushers
  <2> QED BY <1>2, <1>4, <2>1, FS_RemoveElement
<1> QED BY <1>3, <1>4

LEMMA PopperMoves ==
    ASSUME NEW t \in Threads, \A u \in Threads \ {t} : pc'[u] = pc[u],
           ~Pushed(t), ~Pushed(t)', IsFiniteSet(Poppers)
    PROVE  /\ Pushers' = Pushers /\ IsFiniteSet(Poppers')
           /\ ~Popped(t) /\ Popped(t)' => Cardinality(Poppers') = Cardinality(Poppers) + 1
           /\ Popped(t) /\ ~Popped(t)' => Cardinality(Poppers') = Cardinality(Poppers) - 1
<1>1. \A u \in Threads \ {t} : (Pushed(u)' <=> Pushed(u)) /\ (Popped(u)' <=> Popped(u))
  BY DEF Pushed, Popped
<1>2. Pushers' = Pushers
  BY <1>1 DEF Pushers
<1>3. CASE Popped(t)'
  <2>1. Poppers' = Poppers \cup {t} /\ (t \in Poppers <=> Popped(t))
    BY <1>1, <1>3 DEF Poppers
  <2> QED BY <1>2, <1>3, <2>1, FS_AddElement
<1>4. CASE ~Popped(t)'
  <2>1. Poppers' = Poppers \ {t} /\ (t \in Poppers <=> Popped(t))
    BY <1>1, <1>4 DEF Poppers
  <2> QED BY <1>2, <1>4, <2>1, FS_RemoveElement
<1> QED BY <1>3, <1>4

LEMMA CountStep ==
    ASSUME TypeInv, CountInv, [Next]_vars
    PROVE  CountInv'
<1>1. /\ queue \in Seq(Contexts) /\ Len(queue) \in Nat
      /\ Cardinality(Pushers) \in Nat /\ Cardinality(Poppers) \in Nat /\ Lag \in Int
      /\ Word \in Nat /\ Word >= 2 /\ QueueLen \in Nat
  <2>1. Cardinality(Pushers) \in Nat /\ Cardinality(Poppers) \in Nat
    BY FS_CardinalityType DEF CountInv
  <2>2. queue \in Seq(Contexts) /\ Len(queue) \in Nat
    BY DEF TypeInv, TypeOK
  <2> QED BY <2>1, <2>2, PoolAssumption DEF Lag
<1>2. \A w \in Workers : w \in Threads
  BY DEF Threads
\* A push adds an entry and a thread that has still to count it.
<1>3. ASSUME NEW t \in Threads, NEW c \in Contexts, Len(queue) < QueueLen,
             queue' = Append(queue, c), count' = count,
             \A u \in Threads \ {t} : pc'[u] = pc[u],
             ~Popped(t), ~Popped(t)', ~Pushed(t), Pushed(t)'
      PROVE  CountInv'
  <2>1. Len(queue') = Len(queue) + 1
    BY <1>1, <1>3
  <2>2. /\ Poppers' = Poppers /\ IsFiniteSet(Pushers')
        /\ Cardinality(Pushers') = Cardinality(Pushers) + 1
    BY <1>3, PusherMoves DEF CountInv
  <2>3. Lag' = Lag
    BY <1>1, <2>1, <2>2 DEF Lag
  <2> QED BY <1>1, <1>3, <2>1, <2>2, <2>3 DEF CountInv
<1>4. ASSUME NEW t \in Threads, SendPublish(t) PROVE CountInv'
  <2>1. toctx[t] \in Contexts
    BY <1>4 DEF SendPublish, Goto, TypeInv, HandInv, SendSteps
  <2>2. /\ ~Popped(t) /\ ~Popped(t)' /\ ~Pushed(t) /\ Pushed(t)'
        /\ \A u \in Threads \ {t} : pc'[u] = pc[u]
    BY <1>4 DEF SendPublish, Goto, Pushed, Popped, TypeInv, TypeOK
  <2> QED BY <1>3, <1>4, <2>1, <2>2 DEF SendPublish
<1>5. ASSUME NEW w \in Workers, PushBack(w) PROVE CountInv'
  <2>1. cur[w] \in Contexts
    BY <1>5 DEF PushBack, Goto, TypeInv, HandInv, InHand
  <2>2. /\ ~Popped(w) /\ ~Popped(w)' /\ ~Pushed(w) /\ Pushed(w)'
        /\ \A u \in Threads \ {w} : pc'[u] = pc[u]
    BY <1>2, <1>5 DEF PushBack, Goto, Pushed, Popped, TypeInv, TypeOK
  <2> QED BY <1>2, <1>3, <1>5, <2>1, <2>2 DEF PushBack
\* The push is counted.
<1>6. ASSUME NEW t \in Threads, SendCount(t) \/ (t \in Workers /\ PushBackCount(t))
      PROVE  CountInv'
  <2>1. count' = (count + 1) % Word /\ queue' = queue
    BY <1>6 DEF SendCount, PushBackCount
  <2>2. /\ ~Popped(t) /\ ~Popped(t)' /\ Pushed(t) /\ ~Pushed(t)'
        /\ \A u \in Threads \ {t} : pc'[u] = pc[u]
    BY <1>6 DEF SendCount, PushBackCount, Goto, Pushed, Popped, TypeInv, TypeOK
  <2>3. /\ Poppers' = Poppers /\ IsFiniteSet(Pushers')
        /\ Cardinality(Pushers') = Cardinality(Pushers) - 1
    BY <2>2, PusherMoves DEF CountInv
  <2>4. Lag' = Lag + 1
    BY <1>1, <2>1, <2>3 DEF Lag
  <2>5. count' = Lag' % Word
    BY <1>1, <2>1, <2>4, WordStep DEF CountInv
  <2> QED BY <2>1, <2>3, <2>5 DEF CountInv
\* A pop, and its counting.
<1>7. ASSUME NEW w \in Workers, contextQueuePop(w) PROVE CountInv'
  <2>1. count' = count /\ queue # <<>> /\ queue' = Tail(queue)
    BY <1>7 DEF contextQueuePop
  <2>2. Len(queue') = Len(queue) - 1
    BY <1>1, <2>1
  <2>3. /\ ~Pushed(w) /\ ~Pushed(w)' /\ ~Popped(w) /\ Popped(w)'
        /\ \A u \in Threads \ {w} : pc'[u] = pc[u]
    BY <1>2, <1>7 DEF contextQueuePop, Goto, Pushed, Popped, TypeInv, TypeOK
  <2>4. /\ Pushers' = Pushers /\ IsFiniteSet(Poppers')
        /\ Cardinality(Poppers') = Cardinality(Poppers) + 1
    BY <1>2, <2>3, PopperMoves DEF CountInv
  <2>5. Lag' = Lag
    BY <1>1, <2>2, <2>4 DEF Lag
  <2> QED BY <1>1, <2>1, <2>2, <2>4, <2>5 DEF CountInv
<1>8. ASSUME NEW w \in Workers, PopCount(w) PROVE CountInv'
  <2>1. count' = (count - 1) % Word /\ queue' = queue
    BY <1>8 DEF PopCount
  <2>2. /\ ~Pushed(w) /\ ~Pushed(w)' /\ Popped(w) /\ ~Popped(w)'
        /\ \A u \in Threads \ {w} : pc'[u] = pc[u]
    BY <1>2, <1>8 DEF PopCount, Goto, Pushed, Popped, TypeInv, TypeOK
  <2>3. /\ Pushers' = Pushers /\ IsFiniteSet(Poppers')
        /\ Cardinality(Poppers') = Cardinality(Poppers) - 1
    BY <1>2, <2>2, PopperMoves DEF CountInv
  <2>4. Lag' = Lag - 1
    BY <1>1, <2>1, <2>3 DEF Lag
  <2>5. count' = Lag' % Word
    BY <1>1, <2>1, <2>4, WordStep DEF CountInv
  <2> QED BY <2>1, <2>3, <2>5 DEF CountInv
<1>9. CASE Uncounted
  <2>1. Pushers' = Pushers /\ Poppers' = Poppers
    BY <1>9 DEF Uncounted, Pushers, Poppers
  <2> QED BY <1>9, <2>1 DEF Uncounted, CountInv, Lag
<1> QED BY <1>2, <1>4, <1>5, <1>6, <1>7, <1>8, <1>9, UncountedStep
        DEF Next, Step, workerPoolSend, handle

LEMMA CountInvariant == Spec => []CountInv
<1>1. Init => CountInv
  <2> SUFFICES ASSUME Init PROVE CountInv
    OBVIOUS
  <2>1. Pushers = {} /\ Poppers = {}
    BY DEF Init, Pushers, Poppers, Pushed, Popped
  <2>2. Len(queue) = 1 /\ Lag = 1 /\ count = 1
    BY <2>1, FS_EmptySet DEF Init, Lag
  <2>3. 1 % Word = 1 /\ 1 <= QueueLen
    BY PoolAssumption
  <2> QED BY <2>1, <2>2, <2>3, FS_EmptySet DEF CountInv
<1>2. PoolInv /\ CountInv /\ [Next]_vars => CountInv'
  BY CountStep DEF PoolInv, TypeInv
<1> QED BY <1>1, <1>2, PoolInvariant, PTL DEF Spec

\* The steps of a send that neither push, count nor signal.
LEMMA SilentSend ==
    ASSUME TypeInv, NEW t \in Threads, workerPoolSend(t),
           ~SendPublish(t), ~SendCount(t), ~threadWakeUp(t)
    PROVE  /\ UNCHANGED <<queue, waiting, running>> /\ broken = "no"
           /\ pc[t] \notin {"sendCount", "signal", "waiting"}
           /\ \A u \in Threads \ {t} : pc'[u] = pc[u]
<1> DEFINE P == /\ UNCHANGED <<queue, waiting, running>> /\ broken = "no"
                /\ pc[t] \notin {"sendCount", "signal", "waiting"}
                /\ \A u \in Threads \ {t} : pc'[u] = pc[u]
<1> USE DEF TypeInv, TypeOK, poolVars, threadVars, Goto, MaySend
<1>1. ASSUME NEW c \in Contexts, NEW m \in {"data", "exit"}, SendCall(t, c, m) PROVE P
  BY <1>1 DEF SendCall
<1>2. ASSUME SendGet(t) PROVE P
  BY <1>2 DEF SendGet
<1>3. ASSUME SendNotFound(t) PROVE P
  BY <1>3 DEF SendNotFound
<1>4. ASSUME contextRetain(t) PROVE P
  BY <1>4 DEF contextRetain
<1>5. ASSUME messageQueuePush(t) PROVE P
  BY <1>5 DEF messageQueuePush
<1>6. ASSUME MessageQueueFull(t) PROVE P
  BY <1>6 DEF MessageQueueFull
<1>7. ASSUME SendMark(t) PROVE P
  BY <1>7 DEF SendMark
<1>8. ASSUME SendMarked(t) PROVE P
  BY <1>8 DEF SendMarked
<1>9. ASSUME SendPublishRefused(t) PROVE P
  BY <1>9 DEF SendPublishRefused
<1>10. ASSUME SendRelease(t) PROVE P
  BY <1>10 DEF SendRelease
<1>11. ASSUME SendRemove(t) PROVE P
  BY <1>11 DEF SendRemove
<1> HIDE DEF P, TypeInv, TypeOK, poolVars, threadVars, Goto, MaySend
<1>12. P
  BY <1>1, <1>2, <1>3, <1>4, <1>5, <1>6, <1>7, <1>8, <1>9, <1>10, <1>11
  DEF workerPoolSend
<1> QED BY <1>12 DEF P

\* A worker that takes a step is awake, and puts nobody else to sleep.
LEMMA AwakeStep ==
    ASSUME NEW w \in Workers, handle(w), ~threadSleep(w)
    PROVE  pc[w] # "waiting" /\ waiting' \subseteq waiting
<1> DEFINE P == pc[w] # "waiting" /\ waiting' \subseteq waiting
<1> USE DEF poolVars, Goto
<1>1. ASSUME NEW c \in Contexts, Launch(w, c) PROVE P
  BY <1>1 DEF Launch
<1>2. ASSUME contextQueuePop(w) PROVE P
  BY <1>2 DEF contextQueuePop
<1>3. ASSUME PopNothing(w) PROVE P
  BY <1>3 DEF PopNothing
<1>4. ASSUME PopCount(w) PROVE P
  BY <1>4 DEF PopCount
<1>5. ASSUME DispatchEmpty(w) PROVE P
  BY <1>5 DEF DispatchEmpty
<1>6. ASSUME DispatchDrop(w) PROVE P
  BY <1>6 DEF DispatchDrop
<1>7. ASSUME DispatchExit(w) PROVE P
  BY <1>7 DEF DispatchExit
<1>8. ASSUME DispatchCallback(w) PROVE P
  BY <1>8 DEF DispatchCallback
<1>9. ASSUME DispatchLaunch(w) PROVE P
  BY <1>9 DEF DispatchLaunch
<1>10. ASSUME LoadSucceeds(w) PROVE P
  BY <1>10 DEF LoadSucceeds
<1>11. ASSUME LoadFails(w) PROVE P
  BY <1>11 DEF LoadFails
<1>12. ASSUME Launched(w) PROVE P
  BY <1>12 DEF Launched
<1>13. ASSUME CallbackReturns(w) PROVE P
  BY <1>13 DEF CallbackReturns
<1>14. ASSUME HaveWork(w) PROVE P
  BY <1>14 DEF HaveWork
<1>15. ASSUME PushBack(w) PROVE P
  BY <1>15 DEF PushBack
<1>16. ASSUME PushBackRefused(w) PROVE P
  BY <1>16 DEF PushBackRefused
<1>17. ASSUME PushBackCount(w) PROVE P
  BY <1>17 DEF PushBackCount
<1>18. ASSUME ClearInGlobal(w) PROVE P
  BY <1>18 DEF ClearInGlobal
<1>19. ASSUME ctxMgrReleaseContext(w) PROVE P
  BY <1>19 DEF ctxMgrReleaseContext
<1>20. ASSUME Remove(w) PROVE P
  BY <1>20 DEF Remove
<1>21. ASSUME CheckNumZero(w) PROVE P
  BY <1>21 DEF CheckNumZero
<1>22. ASSUME CheckNum(w) PROVE P
  BY <1>22 DEF CheckNum
<1>23. ASSUME StayAwake(w) PROVE P
  BY <1>23 DEF StayAwake
<1> HIDE DEF P, poolVars, Goto
<1>24. P
  BY <1>1, <1>2, <1>3, <1>4, <1>5, <1>6, <1>7, <1>8, <1>9, <1>10, <1>11, <1>12,
     <1>13, <1>14, <1>15, <1>16, <1>17, <1>18, <1>19, <1>20, <1>21, <1>22, <1>23
  DEF handle
<1> QED BY <1>24 DEF P

\* When the last worker falls asleep the counter is 0: whatever is in the queue
\* was pushed by a thread that has still to count and to signal.
LEMMA LastSleeper ==
    ASSUME TypeInv, CountInv, NEW w \in Workers, threadSleep(w),
           queue # <<>>, Workers \subseteq waiting \cup {w}
    PROVE  \E t \in Others : pc[t] = "sendCount"
<1> SUFFICES ASSUME \A t \in Others : pc[t] # "sendCount" PROVE FALSE
  OBVIOUS
<1>1. \A v \in Workers : pc[v] \in {"waiting", "sleep"}
  BY DEF threadSleep, Goto, TypeInv, WaitInv
<1>2. Pushers = {} /\ Poppers = {}
  BY <1>1 DEF Pushers, Poppers, Pushed, Popped, Threads
<1>3. queue \in Seq(Contexts) /\ Len(queue) \in Nat /\ Len(queue) >= 1 /\ Len(queue) < Word
  BY PoolAssumption DEF TypeInv, TypeOK, CountInv
<1>4. Lag = Len(queue)
  BY <1>2, <1>3, FS_EmptySet DEF Lag
<1>5. Len(queue) % Word = Len(queue)
  BY <1>3, PoolAssumption
<1>6. count = 0
  BY PoolAssumption DEF threadSleep, workerPoolHaveWork, TypeInv, TypeOK
<1> QED BY <1>3, <1>4, <1>5, <1>6 DEF CountInv

LEMMA WakeupStep ==
    ASSUME Workers # {}, TypeInv, CountInv, NoLostWakeup, [Next]_vars
    PROVE  NoLostWakeup'
<1> SUFFICES ASSUME broken' = "no", queue' # <<>>, running', Workers \subseteq waiting'
             PROVE  \E t \in Others : pc'[t] \in {"sendCount", "signal"}
  BY DEF NoLostWakeup
<1> DEFINE Owing == \E t \in Others : pc'[t] \in {"sendCount", "signal"}
<1>1. /\ waiting \subseteq Workers /\ \A w \in waiting : pc[w] = "waiting"
      /\ Workers \subseteq Threads /\ Others \subseteq Threads /\ Workers \cap Others = {}
  BY PoolAssumption DEF TypeInv, TypeOK, WaitInv, Threads
\* If all workers slept before, somebody owed a signal before.
<1>2. ASSUME broken = "no", queue # <<>>, running, waiting' \subseteq waiting
      PROVE  \E t \in Others : pc[t] \in {"sendCount", "signal"}
  BY <1>2 DEF NoLostWakeup
<1>3. ASSUME NEW w \in Workers, threadSleep(w) PROVE Owing
  <2>1. /\ queue' = queue /\ waiting' = waiting \cup {w}
        /\ \A t \in Others : pc'[t] = pc[t]
    BY <1>1, <1>3 DEF threadSleep, Goto, TypeInv, TypeOK
  <2> QED BY <1>3, <2>1, LastSleeper
<1>4. ASSUME NEW w \in Workers, handle(w), ~threadSleep(w) PROVE Owing
  BY <1>1, <1>4, AwakeStep
<1>5. ASSUME NEW t \in Threads, SendPublish(t) PROVE Owing
  <2>1. /\ waiting' = waiting /\ pc[t] = "sendPublish" /\ pc'[t] = "sendCount"
    BY <1>5 DEF SendPublish, Goto, TypeInv, TypeOK
  <2> QED BY <1>1, <2>1 DEF Threads
<1>6. ASSUME NEW t \in Threads, SendCount(t) PROVE Owing
  <2>1. /\ waiting' = waiting /\ pc[t] = "sendCount" /\ pc'[t] = "signal"
    BY <1>6 DEF SendCount, Goto, TypeInv, TypeOK
  <2> QED BY <1>1, <2>1 DEF Threads
<1>7. ASSUME NEW t \in Threads, threadWakeUp(t) PROVE Owing
  <2>1. (waiting = {} /\ waiting' = {}) \/ \E w \in waiting : waiting' = waiting \ {w}
    BY <1>7 DEF threadWakeUp
  <2> QED BY <1>1, <2>1
<1>8. ASSUME NEW t \in Threads, workerPoolSend(t), ~SendPublish(t), ~SendCount(t),
             ~threadWakeUp(t)
      PROVE  Owing
  <2>1. /\ queue' = queue /\ waiting' = waiting /\ running' = running /\ broken = "no"
        /\ pc[t] \notin {"sendCount", "signal", "waiting"}
        /\ \A u \in Threads \ {t} : pc'[u] = pc[u]
    BY <1>8, SilentSend
  <2> QED BY <1>1, <1>2, <1>8, <2>1
<1>9. ASSUME StopBegin \/ (\E c \in Contexts : StopContext(c)) \/ StopUnlock PROVE Owing
  <2>1. UNCHANGED <<queue, waiting, running, pc>> /\ broken = "no"
    BY <1>9 DEF StopBegin, StopContext, StopUnlock, poolVars, threadVars
  <2> QED BY <1>2, <2>1
<1>10. ASSUME workerPoolStop \/ UseAfterFree PROVE Owing
  BY <1>10 DEF workerPoolStop, UseAfterFree
<1>11. ASSUME UNCHANGED vars PROVE Owing
  <2>1. UNCHANGED <<queue, waiting, running, pc, broken>>
    BY <1>11 DEF vars, poolVars, threadVars
  <2> QED BY <1>2, <2>1
<1> QED BY <1>3, <1>4, <1>5, <1>6, <1>7, <1>8, <1>9, <1>10, <1>11
        DEF Next, Step, ContinueStop

\* No lost wake-up (worker_pool.c, threadSleep and threadWakeUp): with at least
\* one worker thread, contexts are never left in the global queue with all
\* workers asleep, unless a sender has still to signal.  The counter that
\* threadSleep tests may lag behind the queue; it is 0 with contexts queued only
\* while their senders have still to count them.
THEOREM WakeupsNotLost == ASSUME Workers # {} PROVE Spec => []NoLostWakeup
<1>1. Init => NoLostWakeup
  BY DEF Init, NoLostWakeup
<1>2. PoolInv /\ CountInv /\ NoLostWakeup /\ [Next]_vars => NoLostWakeup'
  BY WakeupStep DEF PoolInv, TypeInv
<1> QED BY <1>1, <1>2, PoolInvariant, CountInvariant, PTL DEF Spec
==============================================================================
