----------------------------- MODULE TimerProofs -----------------------------
(***************************************************************************)
(* The wake-up of the event loop, for any number of producers and any      *)
(* capacity: first for EventQueue alone, then for the timer that uses it.  *)
(***************************************************************************)
EXTENDS Timer, FiniteSetTheorems, TLAPS

\* The producers that still have to count are a finite set.
LEMMA UncountedFinite == IsFiniteSet(Uncounted)
BY EventQueueAssumption, FS_Subset DEF Uncounted

\* A producer that starts to owe a count is one more.
LEMMA OneMoreUncounted ==
    ASSUME EmTypeOK, NEW p \in Producers, pc[p] # "count",
           pc' = [pc EXCEPT ![p] = "count"]
    PROVE  Cardinality(Uncounted') = Cardinality(Uncounted) + 1
<1>1. Uncounted' = Uncounted \cup {p} /\ p \notin Uncounted
  BY DEF Uncounted, EmTypeOK
<1> QED BY <1>1, UncountedFinite, FS_AddElement

\* A producer that counts is one less.
LEMMA OneLessUncounted ==
    ASSUME EmTypeOK, NEW p \in Producers, pc[p] = "count",
           pc' = [pc EXCEPT ![p] = "size"]
    PROVE  Cardinality(Uncounted') = Cardinality(Uncounted) - 1
<1>1. Uncounted' = Uncounted \ {p} /\ p \in Uncounted
  BY DEF Uncounted, EmTypeOK
<1> QED BY <1>1, UncountedFinite, FS_RemoveElement

\* Any other move of a producer leaves the set as it is.
LEMMA SameUncounted ==
    ASSUME EmTypeOK, NEW p \in Producers, NEW to, to # "count",
           pc[p] # "count", pc' = [pc EXCEPT ![p] = to]
    PROVE  Uncounted' = Uncounted
BY DEF Uncounted, EmTypeOK

\* Cardinality(Uncounted) is a number, and 0 only when nobody owes a count.
LEMMA UncountedNumber ==
    /\ Cardinality(Uncounted) \in Nat
    /\ Cardinality(Uncounted) = 0 => \A p \in Producers : pc[p] # "count"
<1>1. Cardinality(Uncounted) \in Nat
  BY UncountedFinite, FS_CardinalityType
<1>2. Cardinality(Uncounted) = 0 => Uncounted = {}
  BY UncountedFinite, FS_EmptySet
<1> QED BY <1>1, <1>2 DEF Uncounted

\* When nobody owes a count, the loop is not between its claim and its count.
LEMMA InvImpliesNoSleep == EmInv => NoSleepOnMessage
<1> SUFFICES ASSUME EmInv, ~NoSleepOnMessage PROVE FALSE
  OBVIOUS
<1>1. Uncounted = {}
  BY DEF NoSleepOnMessage, Uncounted
<1>2. Cardinality(Uncounted) = 0
  BY <1>1, FS_EmptySet
<1>3. queue \in Seq(Messages) /\ queue # <<>> /\ loop # "popCount"
  BY DEF EmInv, EmTypeOK, NoSleepOnMessage, Popping
<1>4. Len(queue) >= 1
  BY <1>3
<1>5. count >= 1
  BY <1>2, <1>3, <1>4 DEF EmInv, CountExact
<1> QED BY <1>5 DEF EmInv, EmTypeOK, WakeUpOwed, NoSleepOnMessage

\* The initial state of the queue satisfies the invariant.
LEMMA EmInitInv == EmInit => EmInv
<1> SUFFICES ASSUME EmInit PROVE EmInv
  OBVIOUS
<1>1. EmTypeOK
  <2>1. queue \in Seq(Messages)
    BY DEF EmInit
  <2>2. /\ pc \in [Producers -> {"idle", "push", "count", "size", "send",
                               "accepted", "refused"}]
        /\ msg \in [Producers -> Messages \cup {NoMessage}]
        /\ \A p \in Producers : pc[p] = "push" => msg[p] # NoMessage
    BY DEF EmInit
  <2>3. /\ loop \in Popping \cup {"poll", "timers", "ended"}
        /\ loop \in {"popCount", "callback"} => cur # NoMessage
        /\ cur \in Messages \cup {NoMessage}
        /\ count \in Int /\ bytes \in Nat
    BY DEF EmInit, Popping
  <2>4. raced \in BOOLEAN
    BY DEF EmInit
  <2> QED BY <2>1, <2>2, <2>3, <2>4 DEF EmTypeOK
<1>2. Uncounted = {}
  BY DEF EmInit, Uncounted
<1>3. CountExact
  BY <1>2, FS_EmptySet DEF EmInit, CountExact
<1>4. WakeUpOwed
  BY DEF EmInit, WakeUpOwed
<1> QED BY <1>1, <1>3, <1>4 DEF EmInv

\* Every step keeps the types.
LEMMA EmTypeStep == EmTypeOK /\ [EmNext]_emVars => EmTypeOK'
<1> SUFFICES ASSUME EmTypeOK, [EmNext]_emVars PROVE EmTypeOK'
  OBVIOUS
<1> USE DEF EmTypeOK, Popping
<1>1. ASSUME NEW p \in Producers, NEW m \in Messages, emPush(p, m) PROVE EmTypeOK'
  BY <1>1, EventQueueAssumption DEF emPush, Goto
<1>2. ASSUME NEW p \in Producers, Publish(p) PROVE EmTypeOK'
  <2>1. msg[p] \in Messages
    BY <1>2 DEF Publish, Goto
  <2> QED BY <2>1, <1>2 DEF Publish, Goto
<1>3. ASSUME NEW p \in Producers, Refuse(p) PROVE EmTypeOK'
  BY <1>3 DEF Refuse, Goto
<1>4. ASSUME NEW p \in Producers, PushCount(p) PROVE EmTypeOK'
  BY <1>4 DEF PushCount, Goto
<1>5. ASSUME NEW p \in Producers, ReadSize(p) PROVE EmTypeOK'
  BY <1>5 DEF ReadSize, Goto
<1>6. ASSUME NEW p \in Producers, SendByte(p) PROVE EmTypeOK'
  BY <1>6 DEF SendByte, Goto
<1>7. ASSUME NEW p \in Producers, Return(p) PROVE EmTypeOK'
  BY <1>7 DEF Return
<1>8. ASSUME Poll PROVE EmTypeOK'
  BY <1>8, EventQueueAssumption DEF Poll, Advance
<1>9. ASSUME Pop PROVE EmTypeOK'
  <2>1. Head(queue) \in Messages /\ Tail(queue) \in Seq(Messages)
    BY <1>9 DEF Pop
  <2> QED BY <2>1, <1>9, EventQueueAssumption DEF Pop, Advance
<1>10. ASSUME PopEmpty \/ PopCount \/ Callback \/ PollTimeout PROVE EmTypeOK'
  BY <1>10 DEF PopEmpty, PopCount, Callback, PollTimeout, Advance
<1>11. ASSUME NEW b \in BOOLEAN, EndRound(b) PROVE EmTypeOK'
  BY <1>11 DEF EndRound, Advance
<1>12. CASE UNCHANGED emVars
  BY <1>12 DEF emVars
<1> QED BY <1>1, <1>2, <1>3, <1>4, <1>5, <1>6, <1>7, <1>8, <1>9, <1>10, <1>11,
           <1>12 DEF EmNext

\* The lemmas for one step: the steps of emPush keep count and wake-up.
LEMMA ProducerStep ==
    ASSUME EmInv, NEW p \in Producers,
           \/ \E m \in Messages : emPush(p, m)
           \/ Publish(p) \/ Refuse(p) \/ PushCount(p) \/ ReadSize(p)
           \/ SendByte(p) \/ Return(p)
    PROVE  CountExact' /\ WakeUpOwed'
<1> USE DEF EmInv
<1> DEFINE N == Cardinality(Uncounted)
<1>0. N \in Nat /\ count \in Int /\ Len(queue) \in Nat /\ bytes \in Nat
  BY UncountedNumber DEF EmTypeOK
<1>1. ASSUME NEW m \in Messages, emPush(p, m) PROVE CountExact' /\ WakeUpOwed'
  <2>1. Uncounted' = Uncounted
    BY <1>1, SameUncounted DEF emPush, Goto
  <2> QED BY <2>1, <1>1 DEF emPush, Goto, CountExact, WakeUpOwed, EmTypeOK
<1>2. CASE Publish(p)
  <2>1. Cardinality(Uncounted') = N + 1
    BY <1>2, OneMoreUncounted DEF Publish, Goto
  <2>2. msg[p] \in Messages
    BY <1>2 DEF Publish, Goto, EmTypeOK
  <2>3. Len(queue') = Len(queue) + 1
    BY <1>2, <2>2 DEF Publish, EmTypeOK
  <2>4. CountExact'
    BY <2>1, <2>3, <1>0, <1>2 DEF Publish, CountExact
  <2>5. WakeUpOwed'
    BY <1>2 DEF Publish, Goto, WakeUpOwed, EmTypeOK
  <2> QED BY <2>4, <2>5
<1>3. CASE Refuse(p)
  <2>1. Uncounted' = Uncounted
    BY <1>3, SameUncounted DEF Refuse, Goto
  <2> QED BY <2>1, <1>3 DEF Refuse, Goto, CountExact, WakeUpOwed, EmTypeOK
<1>4. CASE PushCount(p)
  <2>1. Cardinality(Uncounted') = N - 1
    BY <1>4, OneLessUncounted DEF PushCount, Goto
  <2>2. CountExact'
    BY <2>1, <1>0, <1>4 DEF PushCount, CountExact
  <2>3. ASSUME ~raced', loop \notin Popping, count' >= 1, bytes = 0,
               \A q \in Producers : pc[q] # "send"
        PROVE  pc'[p] = "size" /\ count' = 1
    <3>1. ~raced /\ \A q \in Producers : pc[q] # "size"
      BY <1>4, <2>3 DEF PushCount
    <3>2. count < 1
      BY <3>1, <2>3, <1>0 DEF WakeUpOwed
    <3> QED BY <3>2, <1>4, <2>3, <1>0 DEF PushCount, Goto, EmTypeOK
  <2>4. WakeUpOwed'
    <3>1. \A q \in Producers : pc[q] = "send" => pc'[q] = "send"
      BY <1>4 DEF PushCount, Goto, EmTypeOK
    <3>2. loop' = loop /\ bytes' = bytes /\ count' \in Int
      BY <1>4, <1>0 DEF PushCount
    <3> QED BY <2>3, <3>1, <3>2, <1>0 DEF WakeUpOwed
  <2> QED BY <2>2, <2>4
<1>5. CASE ReadSize(p)
  <2>1. Uncounted' = Uncounted
    BY <1>5, SameUncounted DEF ReadSize, Goto
  <2>2. CountExact'
    BY <2>1, <1>5 DEF ReadSize, CountExact
  <2>3. pc'[p] = IF count = 1 THEN "send" ELSE "accepted"
    BY <1>5 DEF ReadSize, Goto, EmTypeOK
  <2>4. \A q \in Producers \ {p} : pc'[q] = pc[q]
    BY <1>5 DEF ReadSize, Goto, EmTypeOK
  <2>5. pc[p] = "size"
    BY <1>5 DEF ReadSize, Goto
  <2> QED BY <2>2, <2>3, <2>4, <2>5, <1>5 DEF ReadSize, WakeUpOwed
<1>6. CASE SendByte(p)
  <2>1. Uncounted' = Uncounted
    BY <1>6, SameUncounted DEF SendByte, Goto
  <2>2. bytes' > 0
    BY <1>6, <1>0 DEF SendByte
  <2> QED BY <2>1, <2>2, <1>6 DEF SendByte, CountExact, WakeUpOwed
<1>7. CASE Return(p)
  <2>1. Uncounted' = Uncounted
    BY <1>7, SameUncounted DEF Return
  <2> QED BY <2>1, <1>7 DEF Return, CountExact, WakeUpOwed, EmTypeOK
<1> QED BY <1>1, <1>2, <1>3, <1>4, <1>5, <1>6, <1>7

\* The steps of the loop.  popMsgqueue is left only when the queue is empty,
\* and then count is not positive.
LEMMA LoopStep ==
    ASSUME EmInv,
           \/ Poll \/ Pop \/ PopEmpty \/ PopCount \/ Callback \/ PollTimeout
           \/ \E b \in BOOLEAN : EndRound(b)
    PROVE  CountExact' /\ WakeUpOwed'
<1> USE DEF EmInv
<1>0. /\ Cardinality(Uncounted) \in Nat /\ count \in Int /\ Len(queue) \in Nat
      /\ bytes \in Nat
  BY UncountedNumber DEF EmTypeOK
<1>1. Uncounted' = Uncounted
  BY DEF Poll, Pop, PopEmpty, PopCount, Callback, PollTimeout, EndRound, Uncounted
<1>2. CASE Poll
  BY <1>1, <1>2 DEF Poll, Advance, CountExact, WakeUpOwed, Popping
<1>3. CASE Pop
  <2>1. Len(queue') = Len(queue) - 1
    BY <1>3 DEF Pop, EmTypeOK
  <2> QED BY <2>1, <1>0, <1>1, <1>3
          DEF Pop, Advance, CountExact, WakeUpOwed, Popping
<1>4. CASE PopEmpty
  <2>1. Len(queue) = 0
    BY <1>4 DEF PopEmpty
  <2>2. count < 1
    BY <2>1, <1>0, <1>4 DEF PopEmpty, Advance, CountExact
  <2> QED BY <2>2, <1>1, <1>4 DEF PopEmpty, Advance, CountExact, WakeUpOwed
<1>5. CASE PopCount
  BY <1>0, <1>1, <1>5 DEF PopCount, Advance, CountExact, WakeUpOwed, Popping
<1>6. CASE Callback
  BY <1>1, <1>6 DEF Callback, Advance, CountExact, WakeUpOwed, Popping
<1>7. CASE PollTimeout
  BY <1>1, <1>7 DEF PollTimeout, Advance, CountExact, WakeUpOwed, Popping
<1>8. ASSUME NEW b \in BOOLEAN, EndRound(b) PROVE CountExact' /\ WakeUpOwed'
  BY <1>1, <1>8 DEF EndRound, Advance, CountExact, WakeUpOwed, Popping
<1> QED BY <1>2, <1>3, <1>4, <1>5, <1>6, <1>7, <1>8

\* Every step of the queue keeps the invariant.
LEMMA EmInvStep == EmInv /\ [EmNext]_emVars => EmInv'
<1> SUFFICES ASSUME EmInv, [EmNext]_emVars PROVE EmInv'
  OBVIOUS
<1>1. EmTypeOK'
  BY EmTypeStep DEF EmInv
<1>2. CASE UNCHANGED emVars
  BY <1>1, <1>2 DEF EmInv, emVars, CountExact, WakeUpOwed, Uncounted
<1>3. CASE EmNext
  BY <1>1, <1>3, ProducerStep, LoopStep DEF EmInv, EmNext
<1> QED BY <1>2, <1>3

\* The loop of event_msgqueue.c never sleeps on a queued message, whatever
\* the number of producers, unless two of them read the length after both
\* had counted.
THEOREM EventQueueWakes == EmSpec => []NoSleepOnMessage
<1>1. EmInit => EmInv
  BY EmInitInv
<1>2. EmInv /\ [EmNext]_emVars => EmInv'
  BY EmInvStep
<1>3. EmInv => NoSleepOnMessage
  BY InvImpliesNoSleep
<1> QED BY <1>1, <1>2, <1>3, PTL DEF EmSpec

\* The timer calls the queue as EventQueue allows: each of its steps is one
\* of the queue or leaves the queue alone.
LEMMA TimerStep == TypeOK /\ [Next]_vars => [EmNext]_emVars
<1> SUFFICES ASSUME TypeOK, Next PROVE [EmNext]_emVars
  BY DEF vars
<1>1. ASSUME NEW p \in Producers, NEW k \in Timers, timerTimeout(p, k)
      PROVE  EmNext
  <2>1. [type |-> "add", t |-> k] \in Messages
    BY MessagesAssumption DEF TimerMessages
  <2> QED BY <1>1, <2>1 DEF timerTimeout, EmNext
<1>2. ASSUME NEW p \in Producers, NEW k \in Timers, timerCancel(p, k)
      PROVE  EmNext
  <2>1. timers[k].told \in Sns
    BY <1>2 DEF TypeOK, timerCancel
  <2>2. [type |-> "cancel", sn |-> timers[k].told, t |-> k] \in Messages
    BY <2>1, MessagesAssumption DEF TimerMessages
  <2> QED BY <1>2, <2>2 DEF timerCancel, EmNext
<1>3. CASE timerStop
  <2>1. [type |-> "stop"] \in Messages /\ Main \in Producers
    BY MessagesAssumption, TimerAssumption DEF TimerMessages
  <2> QED BY <1>3, <2>1 DEF timerStop, EmNext
<1>4. ASSUME NEW p \in Producers,
             TimeoutReturns(p) \/ RequestReturns(p) \/ Pushing(p)
      PROVE  EmNext
  BY <1>4 DEF TimeoutReturns, RequestReturns, Pushing, EmNext
<1>5. CASE emCallback \/ Polling \/ WakeForTimer
  BY <1>5 DEF emCallback, Polling, WakeForTimer, EmNext
<1>6. CASE aeMain
  BY <1>6 DEF aeMain, EmNext
<1>7. ASSUME NEW k \in Timers, timeProc(k) \/ timerTimeoutNow(k)
      PROVE  UNCHANGED emVars
  BY <1>7 DEF timeProc, timerTimeoutNow
<1> QED BY <1>1, <1>2, <1>3, <1>4, <1>5, <1>6, <1>7 DEF Next

\* What a timer step does to the timer's own variables keeps their types.
LEMMA TimerTypeStep == TypeOK /\ [Next]_vars => TypeOK'
<1> SUFFICES ASSUME TypeOK, [Next]_vars PROVE TypeOK'
  OBVIOUS
<1>0. EmTypeOK'
  BY TimerStep, EmTypeStep DEF TypeOK
<1> DEFINE Own == /\ sn \in Sns
                  /\ timers \in [Timers -> [st : States, sn : Sns \cup {NoSn},
                                  told : Sns \cup {NoSn}, asked : BOOLEAN]]
                  /\ timerDict \in [Sns -> Timers \cup {NoTimer}]
                  /\ cancelled \subseteq Timers
                  /\ stop \in {"no", "posting", "posted", "lost", "seen"}
<1> SUFFICES Own'
  BY <1>0 DEF TypeOK
<1>a. Own /\ EmTypeOK
  BY DEF TypeOK
<1>b. SnMod \in Nat \ {0} /\ 0 \in Sns /\ timerNewSn \in Sns
  BY <1>a, TimerAssumption DEF timerNewSn, Sns
<1>c. loop = "callback" => cur \in TimerMessages
  BY <1>a, MessagesAssumption DEF EmTypeOK
<1>1. ASSUME NEW p \in Producers, NEW k \in Timers, timerTimeout(p, k) PROVE Own'
  BY <1>1, <1>a, <1>b DEF timerTimeout, States
<1>2. ASSUME NEW p \in Producers, NEW k \in Timers, timerCancel(p, k) PROVE Own'
  BY <1>2, <1>a DEF timerCancel
<1>3. CASE timerStop
  BY <1>3, <1>a DEF timerStop
<1>4. ASSUME NEW p \in Producers, TimeoutReturns(p) PROVE Own'
  <2>1. msg[p] \in TimerMessages
    BY <1>4, <1>a, MessagesAssumption DEF TimeoutReturns, EmTypeOK
  <2>2. msg[p].t \in Timers
    BY <2>1, <1>4 DEF TimeoutReturns, TimerMessages
  <2> DEFINE k == msg[p].t
  <2>3. \/ \E n \in Sns \cup {NoSn} : timers' = [timers EXCEPT ![k].told = n]
        \/ timers' = [timers EXCEPT ![k].st = "freed"]
    <3>1. timers[k].sn \in Sns \cup {NoSn}
      BY <2>2, <1>a
    <3> QED BY <3>1, <1>4 DEF TimeoutReturns
  <2>4. timers' \in [Timers -> [st : States, sn : Sns \cup {NoSn},
                                told : Sns \cup {NoSn}, asked : BOOLEAN]]
    <3>1. ASSUME NEW n \in Sns \cup {NoSn},
                 timers' = [timers EXCEPT ![k].told = n]
          PROVE  timers' \in [Timers -> [st : States, sn : Sns \cup {NoSn},
                                told : Sns \cup {NoSn}, asked : BOOLEAN]]
      BY <3>1, <2>2, <1>a
    <3>2. CASE timers' = [timers EXCEPT ![k].st = "freed"]
      BY <3>2, <2>2, <1>a DEF States
    <3> QED BY <3>1, <3>2, <2>3
  <2> QED BY <2>4, <1>4, <1>a DEF TimeoutReturns
<1>5. ASSUME NEW p \in Producers, RequestReturns(p) PROVE Own'
  BY <1>5, <1>a DEF RequestReturns
<1>6. ASSUME NEW p \in Producers, Pushing(p) PROVE Own'
  BY <1>6, <1>a DEF Pushing, timerVars
<1>7. CASE emCallback
  <2>1. cur \in TimerMessages
    BY <1>7, <1>c DEF emCallback, Callback, Advance
  <2>2. CASE CallbackAdd
    <3>1. cur.t \in Timers
      BY <2>1, <2>2 DEF CallbackAdd, TimerMessages
    <3> QED BY <3>1, <2>2, <1>7, <1>a DEF CallbackAdd, emCallback, dictAdd, States
  <2>3. CASE CallbackCancel
    <3>1. cur.t \in Timers
      BY <2>1, <2>3 DEF CallbackCancel, TimerMessages
    <3>2. timers' \in [Timers -> [st : States, sn : Sns \cup {NoSn},
                                  told : Sns \cup {NoSn}, asked : BOOLEAN]]
      <4> DEFINE d == timerDict[cur.sn]
      <4>1. timers' = timers \/ timers' = [timers EXCEPT ![d].st = "freed"]
        BY <2>3 DEF CallbackCancel, aeDeleteTimeEvent
      <4> QED BY <4>1, <1>a DEF States
    <3> QED BY <3>1, <3>2, <2>3, <1>7, <1>a DEF CallbackCancel, emCallback
  <2>4. CASE CallbackStop
    BY <2>4, <1>7, <1>a DEF CallbackStop, emCallback
  <2> QED BY <2>2, <2>3, <2>4, <1>7 DEF emCallback
<1>8. ASSUME NEW k \in Timers, timeProc(k) PROVE Own'
  BY <1>8, <1>a DEF timeProc, aeDeleteTimeEvent, States
<1>9. ASSUME NEW k \in Timers, timerTimeoutNow(k) PROVE Own'
  BY <1>9, <1>a, <1>b DEF timerTimeoutNow, States
<1>10. CASE Polling \/ WakeForTimer \/ aeMain \/ UNCHANGED vars
  BY <1>10, <1>a DEF Polling, WakeForTimer, aeMain, timerVars, vars
<1> QED BY <1>1, <1>2, <1>3, <1>4, <1>5, <1>6, <1>7, <1>8, <1>9, <1>10 DEF Next

\* The timer's initial state has the types.
LEMMA TimerInitType == Init => TypeOK
<1> SUFFICES ASSUME Init PROVE TypeOK
  OBVIOUS
<1>1. EmTypeOK
  BY EmInitInv DEF Init, EmInv
<1>2. 0 \in Sns
  BY TimerAssumption DEF Sns
<1> QED BY <1>1, <1>2 DEF Init, TypeOK, States

\* The timer's variables keep their types.
THEOREM TimerTypes == Spec => []TypeOK
<1>1. Init => TypeOK
  BY TimerInitType
<1>2. TypeOK /\ [Next]_vars => TypeOK'
  BY TimerTypeStep
<1> QED BY <1>1, <1>2, PTL DEF Spec

\* The timer uses the event queue as EventQueue allows.
THEOREM TimerUsesQueue == Spec => EmSpec
<1>1. Init => EmInit
  BY DEF Init
<1>2. TypeOK /\ [Next]_vars => [EmNext]_emVars
  BY TimerStep
<1> QED BY <1>1, <1>2, TimerTypes, PTL DEF Spec, EmSpec

\* So the timer thread never sleeps on a request of a service, with the one
\* exception of two producers that read the length at the same time.
THEOREM TimerWakes == Spec => []NoSleepOnMessage
BY TimerUsesQueue, EventQueueWakes, PTL

\* count stays exact and the wake-up byte owed in the timer's use of the queue.
THEOREM TimerQueueInvariant == Spec => []EmInv
<1>1. EmInit => EmInv
  BY EmInitInv
<1>2. EmInv /\ [EmNext]_emVars => EmInv'
  BY EmInvStep
<1> QED BY <1>1, <1>2, TimerUsesQueue, PTL DEF EmSpec

-----------------------------------------------------------------------------
(* What a cancel ends.  The queue keeps the order, and a timer can only be *)
(* cancelled by the number that timerTimeout returned after its push: so   *)
(* the add of a timer is handled before any cancel of it.                  *)

Add(k) == [type |-> "add", t |-> k]
Cancel(n, k) == [type |-> "cancel", sn |-> n, t |-> k]
Places == 1 .. Len(queue)

(* While p is in timerTimeout for k the number was told to nobody.  Until  *)
(* the message is in the queue, or when it was refused, it is nowhere else.*)
Called(k) ==
    \A p \in Producers : msg[p] = Add(k) =>
        /\ timers[k].told = NoSn /\ timers[k].st \notin {"unused", "direct"}
        /\ \A q \in Producers \ {p} : msg[q] # Add(k)
        /\ pc[p] \in {"push", "refused"} =>
              /\ timers[k].st = "posting" /\ cur # Add(k)
              /\ \A i \in Places : queue[i] # Add(k)

(* The message waits in one place at most, and only while the timer is to  *)
(* be armed.                                                               *)
Queued(k) ==
    /\ cur = Add(k) => timers[k].st = "posting"
    /\ \A i \in Places : queue[i] = Add(k) =>
        /\ timers[k].st = "posting" /\ cur # Add(k)
        /\ \A j \in Places \ {i} : queue[j] # Add(k)

Posted(k) ==
    timers[k].st = "posting" =>
        /\ timers[k].sn \in Sns
        /\ \/ \E p \in Producers : msg[p] = Add(k) /\ pc[p] \in {"push", "refused"}
           \/ \E i \in Places : queue[i] = Add(k)
           \/ cur = Add(k)

Numbered(k) ==
    /\ timers[k].st = "armed" =>
            timers[k].sn \in Sns /\ timerDict[timers[k].sn] # NoTimer
    /\ timers[k].st = "unused" => timers[k].told = NoSn /\ timers[k].sn = NoSn
    /\ timers[k].st = "direct" => timers[k].told # NoSn /\ timers[k].sn = NoSn

(* A cancel carries the number its caller was told, and its timer's add is *)
(* not behind it in the queue.                                             *)
CancelsBehind(k) ==
    \A n \in Sns :
        /\ \A p \in Producers : msg[p] = Cancel(n, k) => timers[k].told = n
        /\ \A i \in Places : queue[i] = Cancel(n, k) =>
            /\ timers[k].told = n
            /\ \A j \in Places : j > i => queue[j] # Add(k)
        /\ cur = Cancel(n, k) =>
            /\ timers[k].told = n
            /\ \A j \in Places : queue[j] # Add(k)

DictNumbers ==
    \A n \in Sns : timerDict[n] # NoTimer => timers[timerDict[n]].sn = n

Cancelled(k) ==
    k \in cancelled =>
        /\ timers[k].told # NoSn /\ timers[k].st \notin {"unused", "posting"}
        /\ timers[k].st = "freed" \/ Misnamed(k)

TimerInv ==
    /\ \A k \in Timers :
        /\ Called(k) /\ Queued(k) /\ Posted(k) /\ Numbered(k)
        /\ CancelsBehind(k) /\ Cancelled(k)
    /\ DictNumbers
    /\ loop \in {"popCount", "callback"} \/ cur = NoMessage

\* The messages are told apart.
LEMMA MessageFacts ==
    /\ \A k \in Timers : Add(k) \in Messages /\ Add(k) # NoMessage
                         /\ Add(k).type = "add" /\ Add(k).t = k
    /\ \A k \in Timers, n \in Sns :
        /\ Cancel(n, k) \in Messages /\ Cancel(n, k) # NoMessage
        /\ Cancel(n, k).type = "cancel" /\ Cancel(n, k).t = k /\ Cancel(n, k).sn = n
    /\ [type |-> "stop"] \in Messages /\ [type |-> "stop"] # NoMessage
    /\ \A m \in Messages : \/ \E k \in Timers : m = Add(k)
                           \/ \E k \in Timers, n \in Sns : m = Cancel(n, k)
                           \/ m.type = "stop"
<1>1. \A k \in Timers : Add(k) \in Messages /\ Add(k).type = "add" /\ Add(k).t = k
  BY MessagesAssumption DEF TimerMessages, Add
<1>2. \A k \in Timers, n \in Sns :
        /\ Cancel(n, k) \in Messages
        /\ Cancel(n, k).type = "cancel" /\ Cancel(n, k).t = k /\ Cancel(n, k).sn = n
  BY MessagesAssumption DEF TimerMessages, Cancel
<1>3. [type |-> "stop"] \in Messages
  BY MessagesAssumption DEF TimerMessages
<1>4. \A m \in Messages : \/ \E k \in Timers : m = Add(k)
                          \/ \E k \in Timers, n \in Sns : m = Cancel(n, k)
                          \/ m.type = "stop"
  <2> SUFFICES ASSUME NEW m \in Messages
               PROVE  \/ \E k \in Timers : m = Add(k)
                      \/ \E k \in Timers, n \in Sns : m = Cancel(n, k)
                      \/ m.type = "stop"
    OBVIOUS
  <2>1. CASE m \in [type : {"add"}, t : Timers]
    BY <2>1 DEF Add
  <2>2. CASE m \in [type : {"cancel"}, sn : Sns, t : Timers]
    BY <2>2 DEF Cancel
  <2> QED BY <2>1, <2>2, MessagesAssumption DEF TimerMessages
<1> QED BY <1>1, <1>2, <1>3, <1>4, EventQueueAssumption

\* The initial state has no messages.
LEMMA TimerInvInit == Init => TimerInv
<1> SUFFICES ASSUME Init PROVE TimerInv
  OBVIOUS
<1>1. /\ queue = <<>> /\ Places = {} /\ cur = NoMessage /\ cancelled = {}
      /\ \A p \in Producers : msg[p] = NoMessage
      /\ \A k \in Timers : /\ timers[k].st = "unused" /\ timers[k].told = NoSn
                           /\ timers[k].sn = NoSn
      /\ \A n \in Sns : timerDict[n] = NoTimer
  BY DEF Init, EmInit, Places
<1>2. ASSUME NEW k \in Timers
      PROVE  /\ Called(k) /\ Queued(k) /\ Posted(k) /\ Numbered(k)
             /\ CancelsBehind(k) /\ Cancelled(k)
  BY <1>1, MessageFacts DEF Called, Queued, Posted, Numbered, CancelsBehind, Cancelled
<1> QED BY <1>1, <1>2 DEF TimerInv, DictNumbers

(* Timer k has this number, state and told number; the others are as before. *)
TimerNow(k, st, n, told) ==
    /\ timers'[k].st = st /\ timers'[k].sn = n /\ timers'[k].told = told
    /\ \A j \in Timers \ {k} : timers'[j] = timers[j]

\* A step that leaves the timers alone keeps what is said of them only.
LEMMA SameTimers ==
    ASSUME TimerInv, UNCHANGED <<timers, timerDict, cancelled>>
    PROVE  DictNumbers' /\ \A k \in Timers : Numbered(k)' /\ Cancelled(k)'
BY DEF TimerInv, DictNumbers, Numbered, Cancelled, Misnamed

\* The steps of emPush but its publishing one.
LEMMA PushMoves ==
    ASSUME TypeOK, TimerInv, NEW p \in Producers,
           Refuse(p) \/ PushCount(p) \/ ReadSize(p) \/ SendByte(p),
           UNCHANGED timerVars
    PROVE  TimerInv'
<1>1. /\ UNCHANGED <<queue, msg, cur, loop, timers, timerDict, cancelled>>
      /\ pc'[p] \in {"push", "refused"} => pc[p] = "push"
      /\ pc[p] \in {"push", "refused"} => pc'[p] = "refused"
      /\ \A q \in Producers \ {p} : pc'[q] = pc[q]
  BY DEF Refuse, PushCount, ReadSize, SendByte, Goto, timerVars, TypeOK, EmTypeOK
<1>2. Places' = Places
  BY <1>1 DEF Places
<1>3. ASSUME NEW k \in Timers PROVE Called(k)' /\ Queued(k)' /\ CancelsBehind(k)'
  BY <1>1, <1>2 DEF TimerInv, Called, Queued, CancelsBehind
<1>4. ASSUME NEW k \in Timers PROVE Posted(k)'
  BY <1>1, <1>2 DEF TimerInv, Posted
<1> QED BY <1>1, <1>3, <1>4, SameTimers DEF TimerInv

\* A message is published behind those that wait.
LEMMA PublishTimer ==
    ASSUME TypeOK, TimerInv, NEW p \in Producers, Publish(p), UNCHANGED timerVars
    PROVE  TimerInv'
<1> DEFINE m == msg[p]
           n == Len(queue) + 1
<1>1. /\ UNCHANGED <<msg, cur, loop, timers, timerDict, cancelled>>
      /\ pc[p] = "push" /\ pc'[p] = "count" /\ m \in Messages
      /\ queue \in Seq(Messages) /\ queue' = Append(queue, m)
      /\ \A q \in Producers \ {p} : pc'[q] = pc[q]
  BY DEF Publish, Goto, timerVars, TypeOK, EmTypeOK
<1>2. /\ Len(queue) \in Nat /\ Places' = Places \cup {n} /\ n \notin Places
      /\ queue'[n] = m /\ \A i \in Places : queue'[i] = queue[i] /\ i < n
  BY <1>1 DEF Places
<1>3. ASSUME NEW k \in Timers
      PROVE  Called(k)' /\ Queued(k)' /\ Posted(k)' /\ CancelsBehind(k)'
  <2>0. Called(k) /\ Queued(k) /\ Posted(k) /\ CancelsBehind(k)
    BY DEF TimerInv
  <2>1. CASE m = Add(k)
    <3>1. /\ timers[k].told = NoSn /\ timers[k].st = "posting" /\ cur # Add(k)
          /\ \A q \in Producers \ {p} : msg[q] # Add(k)
          /\ \A i \in Places : queue[i] # Add(k)
      BY <1>1, <2>0, <2>1 DEF Called
    <3>2. Called(k)'
      BY <1>1, <2>0, <2>1, <3>1 DEF Called
    <3>3. Queued(k)'
      BY <1>1, <1>2, <2>1, <3>1 DEF Queued
    <3>4. Posted(k)'
      BY <1>1, <1>2, <2>0, <2>1 DEF Posted
    <3>5. \A l \in Sns : l # NoSn
      BY TimerAssumption DEF Sns, NoSn
    <3>6. \A l \in Sns : /\ \A q \in Producers : msg[q] # Cancel(l, k)
                         /\ \A i \in Places : queue[i] # Cancel(l, k)
                         /\ cur # Cancel(l, k)
      BY <2>0, <3>1, <3>5 DEF CancelsBehind
    <3>7. \A l \in Sns : Cancel(l, k) # Add(k)
      BY MessageFacts
    <3>8. CancelsBehind(k)'
      BY <1>1, <1>2, <2>1, <3>6, <3>7 DEF CancelsBehind
    <3> QED BY <3>2, <3>3, <3>4, <3>8
  <2>2. CASE m # Add(k)
    <3>1. Called(k)' /\ Queued(k)'
      BY <1>1, <1>2, <2>0, <2>2 DEF Called, Queued
    <3>2. Posted(k)'
      BY <1>1, <1>2, <2>0, <2>2 DEF Posted
    <3>3. CancelsBehind(k)'
      <4> SUFFICES ASSUME NEW l \in Sns
                   PROVE  /\ \A q \in Producers : msg[q] = Cancel(l, k)
                                => timers[k].told = l
                          /\ \A i \in Places' : queue'[i] = Cancel(l, k) =>
                                /\ timers[k].told = l
                                /\ \A j \in Places' : j > i => queue'[j] # Add(k)
                          /\ cur = Cancel(l, k) =>
                                /\ timers[k].told = l
                                /\ \A j \in Places' : queue'[j] # Add(k)
        BY <1>1 DEF CancelsBehind
      <4>1. ASSUME NEW i \in Places', queue'[i] = Cancel(l, k)
            PROVE  /\ timers[k].told = l
                   /\ \A j \in Places' : j > i => queue'[j] # Add(k)
        <5>1. CASE i \in Places
          BY <1>1, <1>2, <2>0, <2>2, <4>1, <5>1 DEF CancelsBehind
        <5>2. CASE i = n
          <6>1. \A j \in Places' : ~(j > n)
            BY <1>2 DEF Places
          <6> QED BY <1>2, <2>0, <4>1, <5>2, <6>1 DEF CancelsBehind
        <5> QED BY <1>2, <5>1, <5>2
      <4> QED BY <1>2, <2>0, <2>2, <4>1 DEF CancelsBehind
    <3> QED BY <3>1, <3>2, <3>3
  <2> QED BY <2>1, <2>2
<1> QED BY <1>1, <1>3, SameTimers DEF TimerInv

\* The loop takes the oldest message, or does something else with the queue.
LEMMA PollingTimer ==
    ASSUME TypeOK, TimerInv,
           \/ Poll \/ Pop \/ PopEmpty \/ PopCount \/ PollTimeout
           \/ \E b \in BOOLEAN : EndRound(b),
           UNCHANGED timerVars
    PROVE  TimerInv'
<1>0. UNCHANGED <<msg, pc, timers, timerDict, cancelled>>
  BY DEF Poll, Pop, PopEmpty, PopCount, PollTimeout, EndRound, timerVars
<1>1. CASE Pop
  <2>1. /\ queue \in Seq(Messages) /\ queue # <<>> /\ queue' = Tail(queue)
        /\ cur' = Head(queue) /\ cur = NoMessage /\ loop' = "popCount"
    BY <1>1 DEF Pop, Advance, TypeOK, EmTypeOK, TimerInv
  <2>2. /\ Head(queue) = queue[1] /\ 1 \in Places /\ Len(queue) \in Nat
        /\ \A i \in Places' : i + 1 \in Places /\ i + 1 # 1 /\ queue'[i] = queue[i + 1]
        /\ \A i \in Places : i = 1 \/ (i - 1 \in Places' /\ queue'[i - 1] = queue[i])
    BY <2>1 DEF Places
  <2>3. ASSUME NEW k \in Timers
        PROVE  Called(k)' /\ Queued(k)' /\ Posted(k)' /\ CancelsBehind(k)'
    <3>0. Called(k) /\ Queued(k) /\ Posted(k) /\ CancelsBehind(k)
      BY DEF TimerInv
    <3>1. Called(k)'
      BY <1>0, <2>1, <2>2, <3>0 DEF Called
    <3>2. Queued(k)'
      <4>1. \A i, j \in Places' : i # j => i + 1 # j + 1
        BY <2>1 DEF Places
      <4>2. ASSUME NEW i \in Places', queue'[i] = Add(k)
            PROVE  /\ timers[k].st = "posting" /\ cur' # Add(k)
                   /\ \A j \in Places' \ {i} : queue'[j] # Add(k)
        <5>1. i + 1 \in Places /\ i + 1 # 1 /\ queue[i + 1] = Add(k)
          BY <2>2, <4>2
        <5>2. /\ timers[k].st = "posting"
              /\ \A j \in Places \ {i + 1} : queue[j] # Add(k)
          BY <3>0, <5>1 DEF Queued
        <5>3. \A j \in Places' \ {i} : queue'[j] # Add(k)
          BY <2>2, <4>1, <5>2
        <5> QED BY <2>1, <2>2, <5>1, <5>2, <5>3
      <4>3. cur' = Add(k) => timers[k].st = "posting"
        BY <2>1, <2>2, <3>0 DEF Queued
      <4> QED BY <1>0, <4>2, <4>3 DEF Queued
    <3>3. Posted(k)'
      <4>1. cur # Add(k)
        BY <2>1, MessageFacts
      <4> QED BY <1>0, <2>1, <2>2, <3>0, <4>1 DEF Posted
    <3>4. CancelsBehind(k)'
      <4> SUFFICES ASSUME NEW l \in Sns
                   PROVE  /\ \A q \in Producers : msg[q] = Cancel(l, k)
                                => timers[k].told = l
                          /\ \A i \in Places' : queue'[i] = Cancel(l, k) =>
                                /\ timers[k].told = l
                                /\ \A j \in Places' : j > i => queue'[j] # Add(k)
                          /\ cur' = Cancel(l, k) =>
                                /\ timers[k].told = l
                                /\ \A j \in Places' : queue'[j] # Add(k)
        BY <1>0 DEF CancelsBehind
      <4>1. ASSUME NEW i \in Places', queue'[i] = Cancel(l, k)
            PROVE  /\ timers[k].told = l
                   /\ \A j \in Places' : j > i => queue'[j] # Add(k)
        <5>1. i + 1 \in Places /\ queue[i + 1] = Cancel(l, k)
          BY <2>2, <4>1
        <5>2. /\ timers[k].told = l
              /\ \A j \in Places : j > i + 1 => queue[j] # Add(k)
          BY <3>0, <5>1 DEF CancelsBehind
        <5>3. \A j \in Places' : j > i => j + 1 > i + 1
          BY <2>1 DEF Places
        <5> QED BY <2>2, <5>2, <5>3
      <4>2. ASSUME cur' = Cancel(l, k)
            PROVE  timers[k].told = l /\ \A j \in Places' : queue'[j] # Add(k)
        <5>1. queue[1] = Cancel(l, k)
          BY <2>1, <2>2, <4>2
        <5>2. /\ timers[k].told = l
              /\ \A j \in Places : j > 1 => queue[j] # Add(k)
          BY <2>2, <3>0, <5>1 DEF CancelsBehind
        <5>3. \A j \in Places' : j + 1 > 1
          BY <2>1 DEF Places
        <5> QED BY <2>2, <5>2, <5>3
      <4> QED BY <3>0, <4>1, <4>2 DEF CancelsBehind
    <3> QED BY <3>1, <3>2, <3>3, <3>4
  <2> QED BY <1>0, <2>1, <2>3, SameTimers DEF TimerInv
<1>2. CASE \/ Poll \/ PopEmpty \/ PopCount \/ PollTimeout
           \/ \E b \in BOOLEAN : EndRound(b)
  <2>1. /\ UNCHANGED <<queue, cur>>
        /\ loop' \in {"popCount", "callback"} \/ loop \notin {"popCount", "callback"}
    BY <1>2 DEF Poll, PopEmpty, PopCount, PollTimeout, EndRound, Advance
  <2>2. Places' = Places
    BY <2>1 DEF Places
  <2>3. ASSUME NEW k \in Timers
        PROVE  Called(k)' /\ Queued(k)' /\ Posted(k)' /\ CancelsBehind(k)'
    BY <1>0, <2>1, <2>2 DEF TimerInv, Called, Queued, Posted, CancelsBehind
  <2> QED BY <1>0, <2>1, <2>3, SameTimers DEF TimerInv
<1> QED BY <1>1, <1>2

\* Nothing is on its way for a timer that was not started.
LEMMA NoneForUnused ==
    ASSUME TimerInv, NEW k \in Timers, timers[k].st = "unused"
    PROVE  /\ \A p \in Producers : msg[p] # Add(k)
           /\ \A i \in Places : queue[i] # Add(k)
           /\ cur # Add(k)
           /\ k \notin cancelled /\ timers[k].told = NoSn /\ timers[k].sn = NoSn
           /\ \A n \in Sns : timerDict[n] # k
<1>1. Called(k) /\ Queued(k) /\ Cancelled(k) /\ Numbered(k) /\ DictNumbers
  BY DEF TimerInv
<1>2. \A n \in Sns : n # NoSn
  BY TimerAssumption DEF Sns, NoSn
<1>3. k # NoTimer
  BY DEF Timers, NoTimer
<1> QED BY <1>1, <1>2, <1>3 DEF Called, Queued, Cancelled, Numbered, DictNumbers

\* Nobody cancels a timer whose number was told to nobody.
LEMMA NoneForUntold ==
    ASSUME TimerInv, NEW k \in Timers, timers[k].told = NoSn
    PROVE  \A n \in Sns : /\ \A p \in Producers : msg[p] # Cancel(n, k)
                          /\ \A i \in Places : queue[i] # Cancel(n, k)
                          /\ cur # Cancel(n, k)
<1>1. CancelsBehind(k)
  BY DEF TimerInv
<1>2. \A n \in Sns : n # NoSn
  BY TimerAssumption DEF Sns, NoSn
<1> QED BY <1>1, <1>2 DEF CancelsBehind

\* The step changes what producer p carries, and nothing of the queue.
Carries(p, m, at) ==
    /\ msg'[p] = m /\ pc'[p] = at
    /\ \A q \in Producers \ {p} : msg'[q] = msg[q] /\ pc'[q] = pc[q]
    /\ UNCHANGED <<queue, cur, loop>>

\* A call with message m starts.
LEMMA PushCarries ==
    ASSUME TypeOK, NEW p \in Producers, NEW m \in Messages, emPush(p, m)
    PROVE  Carries(p, m, "push") /\ pc[p] = "idle"
BY DEF TypeOK, EmTypeOK, emPush, Goto, Carries

\* A call returns.
LEMMA ReturnCarries ==
    ASSUME TypeOK, NEW p \in Producers, Return(p)
    PROVE  Carries(p, NoMessage, "idle") /\ pc[p] \in {"accepted", "refused"}
BY DEF TypeOK, EmTypeOK, Return, Carries

\* What p takes up or puts down has nothing to do with timer k, which stays
\* as it is.
LEMMA CarryOther ==
    ASSUME TimerInv, NEW p \in Producers, NEW m, NEW at, Carries(p, m, at),
           NEW k \in Timers, timers'[k].st = timers[k].st,
           timers'[k].sn = timers[k].sn, timers'[k].told = timers[k].told,
           m # Add(k), \A n \in Sns : m = Cancel(n, k) => n = timers[k].told,
           pc[p] \in {"push", "refused"} => msg[p] # Add(k)
    PROVE  Called(k)' /\ Queued(k)' /\ Posted(k)' /\ CancelsBehind(k)'
<1>0. /\ Called(k) /\ Queued(k) /\ Posted(k) /\ CancelsBehind(k) /\ Places' = Places
      /\ UNCHANGED <<queue, cur>>
  BY DEF TimerInv, Carries, Places
<1>1. Called(k)'
  BY <1>0 DEF Called, Carries
<1>2. Queued(k)'
  BY <1>0 DEF Queued
<1>3. Posted(k)'
  BY <1>0 DEF Posted, Carries
<1>4. CancelsBehind(k)'
  BY <1>0 DEF CancelsBehind, Carries
<1> QED BY <1>1, <1>2, <1>3, <1>4

\* A timer that is started or told its number does not clear another one's
\* name.
LEMMA CancelledKept ==
    ASSUME TimerInv, NEW k \in Timers, NEW st, NEW n, NEW told,
           TimerNow(k, st, n, told), k \notin cancelled, UNCHANGED cancelled,
           n = timers[k].sn \/ timers[k].sn = NoSn
    PROVE  \A j \in Timers : Cancelled(j)'
<1> SUFFICES ASSUME NEW j \in Timers, j \in cancelled PROVE Cancelled(j)'
  BY DEF Cancelled
<1>1. j # k /\ timers'[j] = timers[j]
  BY DEF TimerNow
<1>2. /\ timers[j].told # NoSn /\ timers[j].st \notin {"unused", "posting"}
      /\ timers[j].st = "freed" \/ Misnamed(j)
  BY DEF TimerInv, Cancelled
<1>3. Misnamed(j) => Misnamed(j)'
  <2> SUFFICES ASSUME Misnamed(j) PROVE Misnamed(j)'
    OBVIOUS
  <2>1. CASE timers[j].told # timers[j].sn
    BY <1>1, <2>1 DEF Misnamed
  <2>2. CASE timers[j].told = timers[j].sn
    <3>1. PICK i \in Timers \ {j} : timers[i].sn = timers[j].sn
      BY <2>2 DEF Misnamed
    <3>2. timers'[i].sn = timers[i].sn
      BY <1>2, <2>2, <3>1 DEF TimerNow
    <3> QED BY <1>1, <3>1, <3>2 DEF Misnamed
  <2> QED BY <2>1, <2>2
<1> QED BY <1>1, <1>2, <1>3 DEF Cancelled

\* timerTimeout starts timer k.
LEMMA TimeoutTimer ==
    ASSUME TypeOK, TimerInv, NEW p \in Producers, NEW k \in Timers, timerTimeout(p, k)
    PROVE  TimerInv'
<1> DEFINE n == timerNewSn
<1>0. /\ n \in Sns /\ timers[k].st = "unused" /\ UNCHANGED <<timerDict, cancelled>>
      /\ TimerNow(k, "posting", n, timers[k].told)
  BY TimerAssumption DEF TypeOK, timerTimeout, Fresh, timerNewSn, Sns, TimerNow
<1>1. Carries(p, Add(k), "push") /\ pc[p] = "idle"
  BY PushCarries, MessageFacts DEF timerTimeout, Add
<1>2. /\ \A q \in Producers : msg[q] # Add(k)
      /\ \A i \in Places : queue[i] # Add(k)
      /\ cur # Add(k)
      /\ k \notin cancelled /\ timers[k].told = NoSn /\ timers[k].sn = NoSn
      /\ \A l \in Sns : timerDict[l] # k
  BY <1>0, NoneForUnused
<1>3. UNCHANGED <<queue, cur, loop>> /\ Places' = Places
  BY <1>1 DEF Carries, Places
<1>4. ASSUME NEW j \in Timers \ {k}
      PROVE  Called(j)' /\ Queued(j)' /\ Posted(j)' /\ CancelsBehind(j)' /\ Numbered(j)'
  <2>1. timers'[j] = timers[j]
    BY <1>0 DEF TimerNow
  <2>2. Add(k) # Add(j) /\ \A l \in Sns : Add(k) # Cancel(l, j)
    BY MessageFacts
  <2>3. Numbered(j)'
    BY <1>0, <2>1 DEF TimerInv, Numbered
  <2> QED BY <1>1, <2>1, <2>2, <2>3, CarryOther
<1>5. Called(k)' /\ Queued(k)' /\ Posted(k)'
  BY <1>0, <1>1, <1>2, <1>3 DEF Called, Queued, Posted, Carries, TimerNow
<1>6. CancelsBehind(k)'
  <2>1. \A l \in Sns : /\ \A q \in Producers : msg[q] # Cancel(l, k)
                       /\ \A i \in Places : queue[i] # Cancel(l, k)
                       /\ cur # Cancel(l, k)
    BY <1>2, NoneForUntold
  <2>2. \A l \in Sns : Add(k) # Cancel(l, k)
    BY MessageFacts
  <2> QED BY <1>1, <1>3, <2>1, <2>2 DEF CancelsBehind, Carries
<1>7. Numbered(k)'
  BY <1>0 DEF Numbered, TimerNow
<1>8. DictNumbers'
  <2>1. timerDict \in [Sns -> Timers \cup {NoTimer}]
    BY DEF TypeOK
  <2> QED BY <1>0, <1>2, <2>1 DEF TimerInv, DictNumbers, TimerNow
<1>9. \A j \in Timers : Cancelled(j)'
  BY <1>0, <1>2, CancelledKept
<1> QED BY <1>3, <1>4, <1>5, <1>6, <1>7, <1>8, <1>9 DEF TimerInv

\* timerTimeout with time 0 sends the answer at once.
LEMMA TimeoutNowTimer ==
    ASSUME TypeOK, TimerInv, NEW k \in Timers, timerTimeoutNow(k)
    PROVE  TimerInv'
<1>0. /\ timers[k].st = "unused" /\ UNCHANGED <<timerDict, cancelled>>
      /\ TimerNow(k, "direct", timers[k].sn, 0)
      /\ UNCHANGED <<queue, cur, loop, msg, pc>>
  BY DEF TypeOK, timerTimeoutNow, Fresh, TimerNow, emVars
<1>1. /\ \A q \in Producers : msg[q] # Add(k)
      /\ \A i \in Places : queue[i] # Add(k)
      /\ cur # Add(k)
      /\ k \notin cancelled /\ timers[k].told = NoSn /\ timers[k].sn = NoSn
      /\ \A l \in Sns : timerDict[l] # k
  BY <1>0, NoneForUnused
<1>2. Places' = Places /\ 0 # NoSn
  BY <1>0, TimerAssumption DEF Places, NoSn
<1>3. ASSUME NEW j \in Timers \ {k}
      PROVE  Called(j)' /\ Queued(j)' /\ Posted(j)' /\ CancelsBehind(j)' /\ Numbered(j)'
  <2>1. timers'[j] = timers[j]
    BY <1>0 DEF TimerNow
  <2> QED BY <1>0, <1>2, <2>1
          DEF TimerInv, Called, Queued, Posted, CancelsBehind, Numbered
<1>4. Called(k)' /\ Queued(k)' /\ Posted(k)' /\ Numbered(k)'
  BY <1>0, <1>1, <1>2 DEF Called, Queued, Posted, Numbered, TimerNow
<1>5. CancelsBehind(k)'
  <2>1. \A l \in Sns : /\ \A q \in Producers : msg[q] # Cancel(l, k)
                       /\ \A i \in Places : queue[i] # Cancel(l, k)
                       /\ cur # Cancel(l, k)
    BY <1>1, NoneForUntold
  <2> QED BY <1>0, <1>2, <2>1 DEF CancelsBehind
<1>6. DictNumbers'
  <2>1. timerDict \in [Sns -> Timers \cup {NoTimer}]
    BY DEF TypeOK
  <2> QED BY <1>0, <1>1, <2>1 DEF TimerInv, DictNumbers, TimerNow
<1>7. \A j \in Timers : Cancelled(j)'
  BY <1>0, <1>1, CancelledKept
<1> QED BY <1>0, <1>3, <1>4, <1>5, <1>6, <1>7 DEF TimerInv

\* timerTimeout tells its caller the number, or frees a refused timer.
LEMMA TimeoutReturnsTimer ==
    ASSUME TypeOK, TimerInv, NEW p \in Producers, TimeoutReturns(p)
    PROVE  TimerInv'
<1> DEFINE k == msg[p].t
<1>0. Carries(p, NoMessage, "idle") /\ pc[p] \in {"accepted", "refused"}
  BY ReturnCarries DEF TimeoutReturns
<1>1. k \in Timers /\ msg[p] = Add(k)
  <2>1. msg[p] \in Messages /\ msg[p].type = "add"
    BY DEF TypeOK, EmTypeOK, TimeoutReturns
  <2> QED BY <2>1, MessageFacts
<1>2. PICK c \in Timers : c = k /\ msg[p] = Add(c)
  BY <1>1
<1>3. /\ timers[c].told = NoSn /\ timers[c].st \notin {"unused", "direct"}
      /\ \A q \in Producers \ {p} : msg[q] # Add(c)
      /\ pc[p] = "refused" =>
            /\ timers[c].st = "posting" /\ cur # Add(c)
            /\ \A i \in Places : queue[i] # Add(c)
  BY <1>2 DEF TimerInv, Called
<1>4. c \notin cancelled
  BY <1>3 DEF TimerInv, Cancelled
<1>5. /\ UNCHANGED <<queue, cur, loop, timerDict, cancelled>> /\ Places' = Places
  BY <1>0 DEF Carries, Places, TimeoutReturns
<1>6. \/ pc[p] = "accepted" /\ \E n : TimerNow(c, timers[c].st, timers[c].sn, n)
      \/ pc[p] = "refused" /\ TimerNow(c, "freed", timers[c].sn, timers[c].told)
  <2>1. ASSUME NEW n, timers' = [timers EXCEPT ![c].told = n]
        PROVE  TimerNow(c, timers[c].st, timers[c].sn, n)
    BY <2>1 DEF TimerNow, TypeOK
  <2>2. ASSUME timers' = [timers EXCEPT ![c].st = "freed"]
        PROVE  TimerNow(c, "freed", timers[c].sn, timers[c].told)
    BY <2>2 DEF TimerNow, TypeOK
  <2>3. \/ pc[p] = "accepted" /\ \E n : timers' = [timers EXCEPT ![c].told = n]
        \/ pc[p] = "refused" /\ timers' = [timers EXCEPT ![c].st = "freed"]
    BY <1>2 DEF TimeoutReturns
  <2> QED BY <2>1, <2>2, <2>3
<1>7. /\ \A j \in Timers \ {c} : timers'[j] = timers[j]
      /\ timers'[c].sn = timers[c].sn
      /\ timers'[c].st = IF pc[p] = "accepted" THEN timers[c].st ELSE "freed"
      /\ \A q \in Producers : msg'[q] # Add(c)
  <2>1. \A q \in Producers : msg'[q] # Add(c)
    BY <1>0, <1>3, MessageFacts DEF Carries
  <2>2. CASE pc[p] = "accepted"
    BY <1>6, <2>1, <2>2 DEF TimerNow
  <2>3. CASE pc[p] = "refused"
    BY <1>6, <2>1, <2>3 DEF TimerNow
  <2> QED BY <1>0, <2>2, <2>3
<1>8. ASSUME NEW j \in Timers \ {c}
      PROVE  Called(j)' /\ Queued(j)' /\ Posted(j)' /\ CancelsBehind(j)' /\ Numbered(j)'
  <2>1. Add(c) # Add(j) /\ NoMessage # Add(j) /\ \A l \in Sns : NoMessage # Cancel(l, j)
    BY MessageFacts
  <2>2. Numbered(j)'
    BY <1>5, <1>7 DEF TimerInv, Numbered
  <2> QED BY <1>0, <1>2, <1>7, <2>1, <2>2, CarryOther
<1>9. Called(c)' /\ Queued(c)' /\ Numbered(c)'
  <2>1. Called(c)'
    BY <1>7 DEF Called
  <2>2. Queued(c)'
    BY <1>0, <1>3, <1>5, <1>7 DEF TimerInv, Queued
  <2>3. Numbered(c)'
    BY <1>3, <1>5, <1>7 DEF TimerInv, Numbered
  <2> QED BY <2>1, <2>2, <2>3
<1>10. Posted(c)'
  <2>1. \A q \in Producers : pc[p] = "accepted" =>
            ~(msg[q] = Add(c) /\ pc[q] \in {"push", "refused"})
    BY <1>3
  <2> QED BY <1>0, <1>5, <1>7, <2>1 DEF TimerInv, Posted
<1>11. CancelsBehind(c)'
  <2>1. \A l \in Sns : /\ \A q \in Producers : msg[q] # Cancel(l, c)
                       /\ \A i \in Places : queue[i] # Cancel(l, c)
                       /\ cur # Cancel(l, c)
    BY <1>3, NoneForUntold
  <2>2. \A l \in Sns : NoMessage # Cancel(l, c)
    BY MessageFacts
  <2> QED BY <1>0, <1>5, <2>1, <2>2 DEF CancelsBehind, Carries
<1>12. DictNumbers'
  <2>1. timerDict \in [Sns -> Timers \cup {NoTimer}]
    BY DEF TypeOK
  <2>2. \A j \in Timers : timers'[j].sn = timers[j].sn
    BY <1>7
  <2> QED BY <1>5, <2>1, <2>2 DEF TimerInv, DictNumbers
<1>13. \A j \in Timers : Cancelled(j)'
  BY <1>4, <1>5, <1>6, CancelledKept
<1> QED BY <1>5, <1>8, <1>9, <1>10, <1>11, <1>12, <1>13 DEF TimerInv

\* timerCancel, timerStop and their ends: no timer changes.
LEMMA RequestsTimer ==
    ASSUME TypeOK, TimerInv, NEW p \in Producers,
           \/ \E k \in Timers : timerCancel(p, k)
           \/ p = Main /\ timerStop
           \/ RequestReturns(p)
    PROVE  TimerInv'
<1>1. \A j \in Timers : /\ timers'[j].st = timers[j].st /\ timers'[j].sn = timers[j].sn
                        /\ timers'[j].told = timers[j].told
  <2>1. \/ UNCHANGED timers
        \/ \E k \in Timers : timers' = [timers EXCEPT ![k].asked = TRUE]
    BY DEF timerCancel, timerStop, RequestReturns
  <2>2. ASSUME NEW k \in Timers, timers' = [timers EXCEPT ![k].asked = TRUE]
        PROVE  \A j \in Timers : /\ timers'[j].st = timers[j].st
                                 /\ timers'[j].sn = timers[j].sn
                                 /\ timers'[j].told = timers[j].told
    BY <2>2 DEF TypeOK
  <2> QED BY <2>1, <2>2
<1>2. UNCHANGED <<timerDict, cancelled>>
  BY DEF timerCancel, timerStop, RequestReturns
<1>3. \E m, at : /\ Carries(p, m, at)
                 /\ \A j \in Timers :
                      /\ m # Add(j)
                      /\ \A n \in Sns : m = Cancel(n, j) => n = timers[j].told
                      /\ pc[p] \in {"push", "refused"} => msg[p] # Add(j)
  <2>1. ASSUME NEW k \in Timers, timerCancel(p, k)
        PROVE  \E m, at : /\ Carries(p, m, at)
                 /\ \A j \in Timers :
                      /\ m # Add(j)
                      /\ \A n \in Sns : m = Cancel(n, j) => n = timers[j].told
                      /\ pc[p] \in {"push", "refused"} => msg[p] # Add(j)
    <3> DEFINE m == Cancel(timers[k].told, k)
    <3>1. timers[k].told \in Sns /\ emPush(p, m)
      BY <2>1 DEF timerCancel, TypeOK, Cancel
    <3>2. m \in Messages /\ \A j \in Timers : m # Add(j)
      BY <3>1, MessageFacts
    <3>3. \A j \in Timers : \A n \in Sns : m = Cancel(n, j) => n = timers[j].told
      BY <3>1, MessageFacts
    <3>4. Carries(p, m, "push") /\ pc[p] = "idle"
      BY <3>1, <3>2, PushCarries
    <3> QED BY <3>2, <3>3, <3>4
  <2>2. ASSUME timerStop, p = Main
        PROVE  \E m, at : /\ Carries(p, m, at)
                 /\ \A j \in Timers :
                      /\ m # Add(j)
                      /\ \A n \in Sns : m = Cancel(n, j) => n = timers[j].told
                      /\ pc[p] \in {"push", "refused"} => msg[p] # Add(j)
    <3> DEFINE m == [type |-> "stop"]
    <3>1. /\ m \in Messages /\ \A j \in Timers : m # Add(j)
          /\ \A j \in Timers : \A n \in Sns : m # Cancel(n, j)
      <4>1. m.type = "stop"
        OBVIOUS
      <4>2. "stop" # "add" /\ "stop" # "cancel"
        OBVIOUS
      <4> HIDE DEF m
      <4> QED BY <4>1, <4>2, MessageFacts DEF m
    <3>2. Carries(p, m, "push") /\ pc[p] = "idle"
      BY <2>2, <3>1, PushCarries DEF timerStop
    <3> QED BY <3>1, <3>2
  <2>3. ASSUME RequestReturns(p)
        PROVE  \E m, at : /\ Carries(p, m, at)
                 /\ \A j \in Timers :
                      /\ m # Add(j)
                      /\ \A n \in Sns : m = Cancel(n, j) => n = timers[j].told
                      /\ pc[p] \in {"push", "refused"} => msg[p] # Add(j)
    <3>1. Carries(p, NoMessage, "idle")
      BY <2>3, ReturnCarries DEF RequestReturns
    <3>2. \A j \in Timers : msg[p] # Add(j)
      BY <2>3, MessageFacts DEF RequestReturns
    <3> QED BY <3>1, <3>2, MessageFacts
  <2> QED BY <2>1, <2>2, <2>3
<1>4. \A j \in Timers : Called(j)' /\ Queued(j)' /\ Posted(j)' /\ CancelsBehind(j)'
  BY <1>1, <1>3, CarryOther
<1>5. \A j \in Timers : Numbered(j)' /\ Cancelled(j)'
  BY <1>1, <1>2 DEF TimerInv, Numbered, Cancelled, Misnamed
<1>6. DictNumbers'
  <2>1. timerDict \in [Sns -> Timers \cup {NoTimer}]
    BY DEF TypeOK
  <2> QED BY <1>1, <1>2, <2>1 DEF TimerInv, DictNumbers
<1>7. UNCHANGED <<cur, loop>>
  BY <1>3 DEF Carries
<1> QED BY <1>4, <1>5, <1>6, <1>7 DEF TimerInv

\* An armed timer ends, in timeProc or by a cancel; no message is about it
\* any more but cancels.
LEMMA EndsTimer ==
    ASSUME TimerInv, NEW k \in Timers, timers[k].st = "armed",
           TimerNow(k, "freed", timers[k].sn, timers[k].told),
           UNCHANGED <<queue, msg, pc, timerDict>>,
           cur' = cur \/ (cur' = NoMessage /\ \A j \in Timers : cur # Add(j))
    PROVE  \A j \in Timers : Called(j)' /\ Queued(j)' /\ Posted(j)' /\ Numbered(j)'
                             /\ CancelsBehind(j)'
<1>1. Places' = Places
  BY DEF Places
<1>2. \A j \in Timers : /\ cur' = Add(j) <=> cur = Add(j)
                        /\ \A n \in Sns : cur' = Cancel(n, j) => cur = Cancel(n, j)
  BY MessageFacts
<1> SUFFICES ASSUME NEW j \in Timers
             PROVE  Called(j)' /\ Queued(j)' /\ Posted(j)' /\ Numbered(j)'
                    /\ CancelsBehind(j)'
  OBVIOUS
<1>3. Called(j) /\ Queued(j) /\ Posted(j) /\ Numbered(j) /\ CancelsBehind(j)
  BY DEF TimerInv
<1>4. /\ timers'[j].sn = timers[j].sn /\ timers'[j].told = timers[j].told
      /\ timers'[j].st = timers[j].st
            \/ (timers[j].st = "armed" /\ timers'[j].st = "freed")
  BY DEF TimerNow
<1>5. Called(j)'
  BY <1>1, <1>2, <1>3, <1>4 DEF Called
<1>6. Queued(j)' /\ Posted(j)' /\ Numbered(j)'
  BY <1>1, <1>2, <1>3, <1>4 DEF Queued, Posted, Numbered
<1>7. CancelsBehind(j)'
  BY <1>1, <1>2, <1>3, <1>4 DEF CancelsBehind
<1> QED BY <1>5, <1>6, <1>7

\* The numbers stay what they are: so do the dictionary and the names.
LEMMA SameNumbers ==
    ASSUME TypeOK, TimerInv, UNCHANGED timerDict,
           \A j \in Timers : timers'[j].sn = timers[j].sn
                             /\ timers'[j].told = timers[j].told
    PROVE  DictNumbers' /\ \A j \in Timers : Misnamed(j)' <=> Misnamed(j)
<1>1. timerDict \in [Sns -> Timers \cup {NoTimer}]
  BY DEF TypeOK
<1> QED BY <1>1 DEF TimerInv, DictNumbers, Misnamed

\* A due timer.
LEMMA TimeProcTimer ==
    ASSUME TypeOK, TimerInv, NEW k \in Timers, timeProc(k) PROVE TimerInv'
<1>0. /\ UNCHANGED <<queue, msg, pc, cur, loop, timerDict, cancelled>>
      /\ timers[k].st = "armed"
  BY DEF timeProc, emVars
<1>1. CASE UNCHANGED timers
  <2>1. Places' = Places
    BY <1>0 DEF Places
  <2>2. \A j \in Timers : Called(j)' /\ Queued(j)' /\ Posted(j)' /\ CancelsBehind(j)'
    BY <1>0, <1>1, <2>1 DEF TimerInv, Called, Queued, Posted, CancelsBehind
  <2> QED BY <1>0, <1>1, <2>2, SameTimers DEF TimerInv
<1>2. CASE timers' = [timers EXCEPT ![k].st = "freed"]
  <2>1. TimerNow(k, "freed", timers[k].sn, timers[k].told)
    BY <1>2 DEF TimerNow, TypeOK
  <2>2. \A j \in Timers : Called(j)' /\ Queued(j)' /\ Posted(j)' /\ Numbered(j)'
                          /\ CancelsBehind(j)'
    BY <1>0, <2>1, EndsTimer
  <2>3. \A j \in Timers : /\ timers'[j].sn = timers[j].sn
                          /\ timers'[j].told = timers[j].told
                          /\ timers'[j].st \in {timers[j].st, "freed"}
    BY <2>1 DEF TimerNow
  <2>4. DictNumbers' /\ \A j \in Timers : Misnamed(j)' <=> Misnamed(j)
    BY <1>0, <2>3, SameNumbers
  <2>5. \A j \in Timers : Cancelled(j)'
    BY <1>0, <2>3, <2>4 DEF TimerInv, Cancelled
  <2> QED BY <1>0, <2>2, <2>4, <2>5 DEF TimerInv
<1>3. k # NoTimer
  BY DEF Timers, NoTimer
<1> QED BY <1>0, <1>1, <1>2, <1>3 DEF timeProc, aeDeleteTimeEvent

\* What a cancel finds: its timer was added before, and if the number in it is
\* the timer's alone, the entry of the dictionary is the timer's.
LEMMA CancelFinds ==
    ASSUME TypeOK, TimerInv, NEW k \in Timers, NEW n \in Sns, cur = Cancel(n, k)
    PROVE  /\ timers[k].told = n /\ timers[k].st \notin {"unused", "posting"}
           /\ timerDict[n] \in Timers =>
                /\ timers[timerDict[n]].sn = n
                /\ timerDict[n] = k \/ Misnamed(k)
           /\ timerDict[n] = NoTimer => timers[k].st # "armed" \/ Misnamed(k)
<1>1. /\ timers[k].told = n /\ \A j \in Places : queue[j] # Add(k)
  BY DEF TimerInv, CancelsBehind
<1>2. n # NoSn /\ NoTimer \notin Timers
  BY TimerAssumption DEF Sns, NoSn, Timers, NoTimer
<1>3. timers[k].st # "unused"
  BY <1>1, <1>2 DEF TimerInv, Numbered
<1>4. timers[k].st # "posting"
  <2>1. \A p \in Producers : msg[p] # Add(k)
    BY <1>1, <1>2 DEF TimerInv, Called
  <2>2. cur # Add(k)
    BY MessageFacts
  <2> QED BY <1>1, <2>1, <2>2 DEF TimerInv, Posted
<1>5. timerDict[n] \in Timers => timers[timerDict[n]].sn = n
  BY <1>2 DEF TimerInv, DictNumbers
<1>6. ASSUME timerDict[n] \in Timers, timerDict[n] # k PROVE Misnamed(k)
  BY <1>1, <1>5, <1>6 DEF Misnamed
<1>7. ASSUME timerDict[n] = NoTimer, timers[k].st = "armed" PROVE Misnamed(k)
  BY <1>1, <1>7 DEF TimerInv, Numbered, Misnamed
<1> QED BY <1>1, <1>3, <1>4, <1>5, <1>6, <1>7

\* The timer thread handles a message.
LEMMA CallbackTimer == ASSUME TypeOK, TimerInv, emCallback PROVE TimerInv'
<1>0. /\ loop = "callback" /\ loop' = "pop" /\ cur' = NoMessage
      /\ UNCHANGED <<queue, msg, pc>> /\ Places' = Places
      /\ cur \in Messages
  BY DEF emCallback, Callback, Advance, Places, TypeOK, EmTypeOK
<1>1. \A j \in Timers : NoMessage # Add(j) /\ \A n \in Sns : NoMessage # Cancel(n, j)
  BY MessageFacts
<1>2. CASE CallbackAdd
  <2>1. PICK k \in Timers : cur = Add(k) /\ cur.t = k
    BY <1>0, <1>2, MessageFacts DEF CallbackAdd
  <2> DEFINE n == timers[k].sn
  <2>2. /\ timers' = [timers EXCEPT ![k].st = "armed"]
        /\ timerDict' = IF timerDict[n] = NoTimer THEN [timerDict EXCEPT ![n] = k]
                        ELSE timerDict
        /\ UNCHANGED cancelled
    BY <1>2, <2>1 DEF CallbackAdd, dictAdd
  <2>3. TimerNow(k, "armed", n, timers[k].told)
    BY <2>2 DEF TimerNow, TypeOK
  <2>4. timers[k].st = "posting" /\ n \in Sns /\ k # NoTimer
    BY <2>1 DEF TimerInv, Queued, Posted, Timers, NoTimer
  <2>5. /\ \A i \in Places : queue[i] # Add(k)
        /\ \A p \in Producers : msg[p] = Add(k) => pc[p] \notin {"push", "refused"}
    BY <2>1 DEF TimerInv, Queued, Called
  <2>6. timerDict \in [Sns -> Timers \cup {NoTimer}]
    BY DEF TypeOK
  <2>7. /\ timerDict'[n] # NoTimer
        /\ \A l \in Sns : timerDict[l] # NoTimer => timerDict'[l] = timerDict[l]
        /\ \A l \in Sns : timerDict'[l] = timerDict[l] \/ (l = n /\ timerDict'[l] = k)
    BY <2>2, <2>4, <2>6
  <2>8. \A j \in Timers : /\ timers'[j].sn = timers[j].sn
                          /\ timers'[j].told = timers[j].told
    BY <2>3 DEF TimerNow
  <2>9. DictNumbers'
    BY <2>6, <2>7, <2>8 DEF TimerInv, DictNumbers
  <2>10. ASSUME NEW j \in Timers \ {k}
         PROVE  Called(j)' /\ Queued(j)' /\ Posted(j)' /\ CancelsBehind(j)' /\ Numbered(j)'
    <3>1. timers'[j] = timers[j] /\ cur # Add(j)
      BY <2>1, <2>3, MessageFacts DEF TimerNow
    <3>2. Called(j)' /\ Queued(j)' /\ Posted(j)'
      BY <1>0, <1>1, <3>1 DEF TimerInv, Called, Queued, Posted
    <3>3. CancelsBehind(j)' /\ Numbered(j)'
      BY <1>0, <1>1, <2>7, <3>1 DEF TimerInv, CancelsBehind, Numbered
    <3> QED BY <3>2, <3>3
  <2>11. Called(k)' /\ Queued(k)' /\ Posted(k)' /\ Numbered(k)'
    <3>1. Called(k)'
      BY <1>0, <2>3, <2>5 DEF TimerInv, Called, TimerNow
    <3> QED BY <1>0, <1>1, <2>3, <2>4, <2>5, <2>7, <3>1
            DEF Queued, Posted, Numbered, TimerNow
  <2>12. CancelsBehind(k)'
    BY <1>0, <1>1, <2>5, <2>8 DEF TimerInv, CancelsBehind
  <2>13. \A j \in Timers : Cancelled(j)'
    <3>1. k \notin cancelled
      BY <2>4 DEF TimerInv, Cancelled
    <3> QED BY <2>2, <2>3, <3>1, CancelledKept
  <2> QED BY <1>0, <2>9, <2>10, <2>11, <2>12, <2>13 DEF TimerInv
<1>3. CASE CallbackCancel
  <2>1. PICK k \in Timers, n \in Sns : cur = Cancel(n, k) /\ cur.t = k /\ cur.sn = n
    BY <1>0, <1>3, MessageFacts DEF CallbackCancel
  <2> DEFINE d == timerDict[n]
  <2>2. /\ timers' = IF d # NoTimer /\ timers[d].st = "armed"
                     THEN [timers EXCEPT ![d].st = "freed"] ELSE timers
        /\ cancelled' = cancelled \cup {k} /\ UNCHANGED timerDict
    BY <1>3, <2>1 DEF CallbackCancel, aeDeleteTimeEvent
  <2>3. d \in Timers \cup {NoTimer} /\ \A j \in Timers : cur # Add(j)
    BY <2>1, MessageFacts DEF TypeOK
  <2>4. /\ timers[k].told = n /\ timers[k].st \notin {"unused", "posting"} /\ n # NoSn
        /\ d \in Timers => d = k \/ Misnamed(k)
        /\ d = NoTimer => timers[k].st # "armed" \/ Misnamed(k)
    BY <2>1, CancelFinds, TimerAssumption DEF Sns, NoSn
  <2>5. \/ /\ d \in Timers /\ timers[d].st = "armed"
           /\ TimerNow(d, "freed", timers[d].sn, timers[d].told)
        \/ UNCHANGED timers /\ (d = NoTimer \/ timers[d].st # "armed")
    BY <2>2, <2>3 DEF TimerNow, TypeOK
  <2>6. \A j \in Timers : /\ timers'[j].sn = timers[j].sn
                          /\ timers'[j].told = timers[j].told
                          /\ timers'[j].st \in {timers[j].st, "freed"}
    BY <2>5 DEF TimerNow
  <2>7. DictNumbers' /\ \A j \in Timers : Misnamed(j)' <=> Misnamed(j)
    BY <2>2, <2>6, SameNumbers
  <2>8. \A j \in Timers : Called(j)' /\ Queued(j)' /\ Posted(j)' /\ Numbered(j)'
                          /\ CancelsBehind(j)'
    <3>1. CASE UNCHANGED timers
      BY <1>0, <1>1, <2>2, <2>3, <3>1
      DEF TimerInv, Called, Queued, Posted, Numbered, CancelsBehind
    <3>2. CASE /\ d \in Timers /\ timers[d].st = "armed"
               /\ TimerNow(d, "freed", timers[d].sn, timers[d].told)
      BY <1>0, <2>2, <2>3, <3>2, EndsTimer
    <3> QED BY <2>5, <3>1, <3>2
  <2>9. timers'[k].st = "freed" \/ Misnamed(k)
    <3>1. CASE d = k
      <4>1. timers[k].st \in {"armed", "freed"} \/ timers[k].st = "direct"
        BY <2>4 DEF TypeOK, States
      <4>2. timers[k].st = "direct" => Misnamed(k)
        BY <2>4 DEF TimerInv, Numbered, Misnamed
      <4>3. k # NoTimer
        BY DEF Timers, NoTimer
      <4>4. CASE TimerNow(d, "freed", timers[d].sn, timers[d].told)
        BY <3>1, <4>4 DEF TimerNow
      <4>5. CASE UNCHANGED timers /\ (d = NoTimer \/ timers[d].st # "armed")
        <5>1. timers[k].st # "armed" /\ timers'[k].st = timers[k].st
          BY <3>1, <4>3, <4>5
        <5> QED BY <4>1, <4>2, <5>1
      <4> QED BY <2>5, <4>4, <4>5
    <3>2. CASE d = NoTimer
      <4>1. timers[k].st \in {"armed", "freed", "direct"} /\ UNCHANGED timers
        BY <2>2, <2>4, <3>2 DEF TypeOK, States
      <4>2. timers[k].st = "direct" => Misnamed(k)
        BY <2>4 DEF TimerInv, Numbered, Misnamed
      <4> QED BY <2>4, <3>2, <4>1, <4>2
    <3> QED BY <2>3, <2>4, <3>1, <3>2
  <2>10. \A j \in Timers : Cancelled(j)'
    BY <2>2, <2>4, <2>6, <2>7, <2>9 DEF TimerInv, Cancelled
  <2> QED BY <1>0, <2>7, <2>8, <2>10 DEF TimerInv
<1>4. CASE CallbackStop
  <2>1. UNCHANGED <<timers, timerDict, cancelled>>
    BY <1>4 DEF CallbackStop
  <2>2. \A j \in Timers : cur # Add(j)
    <3>1. cur.type = "stop"
      BY <1>4 DEF CallbackStop
    <3> QED BY <3>1, MessageFacts
  <2>3. \A j \in Timers : Called(j)' /\ Queued(j)' /\ Posted(j)' /\ CancelsBehind(j)'
    BY <1>0, <1>1, <2>1, <2>2 DEF TimerInv, Called, Queued, Posted, CancelsBehind
  <2> QED BY <1>0, <2>1, <2>3, SameTimers DEF TimerInv
<1> QED BY <1>2, <1>3, <1>4 DEF emCallback

\* Every step of the timer keeps the invariant.
LEMMA TimerInvStep == TypeOK /\ TimerInv /\ [Next]_vars => TimerInv'
<1> SUFFICES ASSUME TypeOK, TimerInv, [Next]_vars PROVE TimerInv'
  OBVIOUS
<1>1. ASSUME NEW p \in Producers, NEW k \in Timers, timerTimeout(p, k) PROVE TimerInv'
  BY <1>1, TimeoutTimer
<1>2. ASSUME NEW p \in Producers, NEW k \in Timers, timerCancel(p, k) PROVE TimerInv'
  BY <1>2, RequestsTimer
<1>3. ASSUME NEW p \in Producers, TimeoutReturns(p) PROVE TimerInv'
  BY <1>3, TimeoutReturnsTimer
<1>4. ASSUME NEW p \in Producers, RequestReturns(p) PROVE TimerInv'
  BY <1>4, RequestsTimer
<1>5. ASSUME NEW p \in Producers, Pushing(p) PROVE TimerInv'
  BY <1>5, PublishTimer, PushMoves DEF Pushing
<1>6. ASSUME NEW k \in Timers, timerTimeoutNow(k) \/ timeProc(k) PROVE TimerInv'
  BY <1>6, TimeoutNowTimer, TimeProcTimer
<1>7. CASE timerStop
  BY <1>7, RequestsTimer, TimerAssumption
<1>8. CASE emCallback
  BY <1>8, CallbackTimer
<1>9. CASE Polling \/ WakeForTimer
  BY <1>9, PollingTimer DEF Polling, WakeForTimer
<1>10. CASE aeMain
  <2>1. (stop = "seen") \in BOOLEAN
    OBVIOUS
  <2> QED BY <1>10, <2>1, PollingTimer DEF aeMain
<1>11. CASE UNCHANGED vars
  <2>1. /\ UNCHANGED <<queue, cur, loop, msg, pc, timers, timerDict, cancelled>>
    BY <1>11 DEF vars, emVars, timerVars
  <2>2. Places' = Places
    BY <2>1 DEF Places
  <2>3. \A j \in Timers : Called(j)' /\ Queued(j)' /\ Posted(j)' /\ CancelsBehind(j)'
    BY <2>1, <2>2 DEF TimerInv, Called, Queued, Posted, CancelsBehind
  <2> QED BY <2>1, <2>3, SameTimers DEF TimerInv
<1> QED BY <1>1, <1>2, <1>3, <1>4, <1>5, <1>6, <1>7, <1>8, <1>9, <1>10, <1>11 DEF Next

\* What is on its way for the timers, in every reachable state.
LEMMA TimerInvHolds == Spec => []TimerInv
<1>1. Init => TimerInv
  BY TimerInvInit
<1>2. TypeOK /\ TimerInv /\ [Next]_vars => TimerInv'
  BY TimerInvStep
<1> QED BY <1>1, <1>2, TimerTypes, PTL DEF Spec

\* timerCancel stops what it names, for any number of threads, timers and
\* numbers: a timer whose cancel was handled never fires again.
THEOREM CancelStopsTimer == Spec => []CancelStops
<1>1. TypeOK /\ TimerInv => CancelStops
  BY DEF TypeOK, TimerInv, Cancelled, CancelStops
<1> QED BY <1>1, TimerTypes, TimerInvHolds, PTL

\* A cancel ends no other timer than the one it was sent for.
THEOREM CancelHitsOwnTimer == Spec => CancelHitsOwn
<1>1. ASSUME TypeOK, TimerInv, [Next]_vars
      PROVE  [\A k \in Timers :
                loop = "callback" /\ timers[k].st = "armed"
                   /\ timers'[k].st = "freed"
                => cur.t = k \/ Misnamed(cur.t)]_vars
  <2> SUFFICES ASSUME Next, NEW k \in Timers, loop = "callback",
                      timers[k].st = "armed", timers'[k].st = "freed"
               PROVE  cur.t = k \/ Misnamed(cur.t)
    BY <1>1
  <2>1. emCallback
    <3>1. ASSUME NEW p \in Producers, NEW j \in Timers, timerTimeout(p, j) PROVE FALSE
      BY <3>1 DEF timerTimeout, Fresh, TypeOK
    <3>2. ASSUME NEW p \in Producers, NEW j \in Timers, timerCancel(p, j) PROVE FALSE
      BY <3>2 DEF timerCancel, TypeOK
    <3>3. ASSUME NEW p \in Producers, TimeoutReturns(p) PROVE FALSE
      <4>1. PICK j \in Timers : msg[p] = Add(j) /\ msg[p].t = j
        <5>1. msg[p] \in Messages /\ msg[p].type = "add"
          BY <1>1, <3>3 DEF TypeOK, EmTypeOK, TimeoutReturns
        <5> QED BY <5>1, MessageFacts
      <4>2. ASSUME NEW n, timers' = [timers EXCEPT ![j].told = n] PROVE FALSE
        BY <4>2 DEF TypeOK
      <4>3. ASSUME pc[p] = "refused", timers' = [timers EXCEPT ![j].st = "freed"]
            PROVE  FALSE
        <5>1. timers[j].st = "posting"
          BY <1>1, <4>1, <4>3 DEF TimerInv, Called
        <5> QED BY <4>3, <5>1 DEF TypeOK
      <4> QED BY <3>3, <4>1, <4>2, <4>3 DEF TimeoutReturns
    <3>4. ASSUME NEW j \in Timers, timerTimeoutNow(j) PROVE FALSE
      BY <3>4 DEF timerTimeoutNow, Fresh, TypeOK
    <3>5. ~ \E j \in Timers : timeProc(j)
      BY DEF timeProc
    <3>6. ASSUME timerStop \/ Polling \/ WakeForTimer \/ aeMain
                 \/ \E p \in Producers : RequestReturns(p) \/ Pushing(p)
          PROVE  FALSE
      BY <3>6 DEF timerStop, Polling, WakeForTimer, aeMain, RequestReturns, Pushing,
                  timerVars
    <3> QED BY <3>1, <3>2, <3>3, <3>4, <3>5, <3>6 DEF Next
  <2>2. CallbackCancel
    <3>1. CASE CallbackAdd
      <4>1. timers' = [timers EXCEPT ![cur.t].st = "armed"]
        BY <3>1 DEF CallbackAdd
      <4> QED BY <4>1 DEF TypeOK
    <3>2. CASE CallbackStop
      BY <3>2 DEF CallbackStop
    <3> QED BY <2>1, <3>1, <3>2 DEF emCallback
  <2>3. PICK c \in Timers, n \in Sns : cur = Cancel(n, c) /\ cur.t = c /\ cur.sn = n
    <3>1. cur \in Messages /\ cur.type = "cancel"
      BY <1>1, <2>2 DEF TypeOK, EmTypeOK, CallbackCancel
    <3> QED BY <3>1, MessageFacts
  <2>4. timerDict[n] = k
    BY <2>2, <2>3 DEF CallbackCancel, aeDeleteTimeEvent, TypeOK
  <2> QED BY <1>1, <2>3, <2>4, CancelFinds
<1>2. TypeOK /\ TimerInv /\ [Next]_vars =>
        [\A k \in Timers :
            loop = "callback" /\ timers[k].st = "armed" /\ timers'[k].st = "freed"
              => cur.t = k \/ Misnamed(cur.t)]_vars
  BY <1>1
<1> QED BY <1>2, TimerTypes, TimerInvHolds, PTL DEF Spec, CancelHitsOwn
==============================================================================
