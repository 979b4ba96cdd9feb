----------------------------- MODULE WorkerPool -----------------------------
(***************************************************************************)
(* The actor scheduler: src/worker_pool.c with the context life cycle of   *)
(* src/context.c and the part of src/ctx_mgr.c it uses.                    *)
(*                                                                         *)
(* Worker threads take contexts (actors) from one global queue and         *)
(* dispatch their messages.  Any thread may send: a worker inside a        *)
(* callback, or one of the other threads (timer, sockets).  A context is   *)
(* put in the global queue by the sender that turns inGlobal from 0 to 1.  *)
(* Each access to shared memory is a step of its own; a critical section   *)
(* of the pool's mutex or of the table's rwlock is one step.               *)
(*                                                                         *)
(* Both kinds of queue are FIFO queues (module LockFreeQueue shows that    *)
(* contextQueue is one), except that a push may be refused although there  *)
(* is room; LossyPush says whether that happens.                           *)
(***************************************************************************)
EXTENDS Integers, Sequences, FiniteSets

CONSTANTS
    Workers,        \* the threads that run handle()
    Others,         \* the timer and event loop threads, which only send
    Contexts,       \* all contexts that can ever exist
    Boot,           \* the context made by bootstrap() before the threads start
    None,           \* no context
    Word,           \* the queue's count is an unsigned integer modulo Word (2^32)
    QueueLen,       \* capacity of the global queue (1023)
    MessageLen,     \* capacity of a context's message queue (1023)
    LossyPush,      \* TRUE: a push may be refused although there is room
    MayStop,        \* TRUE: SIGTERM or SIGINT may arrive
    MaxSends,       \* bound: messages sent by callbacks and other threads
    MaxExits        \* bound: EXIT commands among them

Threads == Workers \cup Others

ASSUME PoolAssumption ==
    /\ Workers \cap Others = {}
    /\ Boot \in Contexts /\ None \notin Contexts
    /\ Word \in Nat /\ Word >= 2
    /\ QueueLen \in Nat \ {0} /\ QueueLen < Word /\ MessageLen \in Nat \ {0}
    /\ LossyPush \in BOOLEAN /\ MayStop \in BOOLEAN
    /\ MaxSends \in Nat /\ MaxExits \in Nat

VARIABLES
    \* struct context
    mem,            \* is the memory of the context allocated?
    ref, inGlobal, cb, messages,
    \* struct ctxMgr: the contexts that have a slot
    contexts,
    \* struct workerPool
    queue, count, running,
    waiting,        \* the threads inside pthread_cond_wait
    \* the threads
    pc,
    cur,            \* the context a worker took from the queue
    toctx, msg,     \* the receiver and the message of a send in progress
    \* main: the progress of stop() and the slots ctxMgrStop has still to visit
    stopping, left,
    \* history: how often the reference of the creation was dropped (by an EXIT
    \* message or by ctxMgrStop), and how many refused pushes into the global
    \* queue have lost a reference
    drops, lost,
    \* "no", or how the process failed
    broken,
    \* budgets of the bounds
    sends, exits

ctxVars == <<mem, ref, inGlobal, cb, messages>>
poolVars == <<queue, count, running, waiting>>
threadVars == <<pc, cur, toctx, msg>>
stopVars == <<stopping, left, drops, lost>>
budget == <<sends, exits>>
vars == <<ctxVars, contexts, poolVars, threadVars, stopVars, broken, budget>>

Messages == {"init", "data", "exit"}

WorkerSteps == {"pop", "popCount", "dispatch", "loading", "callback", "haveWork",
                "publish", "count", "clear", "release", "remove", "checkNum",
                "checkNumSleep", "sleep", "waiting", "done", "launched"}
SendSteps == {"get", "retain", "push", "mark", "sendPublish", "sendCount", "signal",
              "sendRelease", "sendRemove"}

TypeOK ==
    /\ mem \in [Contexts -> {"unborn", "live", "freed"}]
    /\ ref \in [Contexts -> Nat]
    /\ inGlobal \in [Contexts -> {0, 1}]
    /\ cb \in [Contexts -> {"none", "launch", "run"}]
    /\ messages \in [Contexts -> Seq(Messages)]
    /\ contexts \in SUBSET Contexts
    /\ queue \in Seq(Contexts)
    /\ count \in 0 .. Word - 1
    /\ running \in BOOLEAN
    /\ waiting \in SUBSET Workers
    /\ pc \in [Threads -> WorkerSteps \cup SendSteps \cup {"idle"}]
    /\ cur \in [Workers -> Contexts \cup {None}]
    /\ toctx \in [Threads -> Contexts \cup {None}]
    /\ msg \in [Threads -> Messages]
    /\ stopping \in {"no", "contexts", "pool", "done"}
    /\ left \in SUBSET Contexts
    /\ drops \in [Contexts -> Nat] /\ lost \in [Contexts -> Nat]
    /\ broken \in {"no", "uaf", "assert", "full"}
    /\ sends \in Nat /\ exits \in Nat

-----------------------------------------------------------------------------

\* bootstrap() has created the first context, whose zluaInit has sent it its
\* first message; the threads have just been started.
Init ==
    /\ mem = [c \in Contexts |-> IF c = Boot THEN "live" ELSE "unborn"]
    /\ ref = [c \in Contexts |-> IF c = Boot THEN 2 ELSE 0]
    /\ inGlobal = [c \in Contexts |-> IF c = Boot THEN 1 ELSE 0]
    /\ cb = [c \in Contexts |-> IF c = Boot THEN "launch" ELSE "none"]
    /\ messages = [c \in Contexts |-> IF c = Boot THEN <<"init">> ELSE <<>>]
    /\ contexts = {Boot}
    /\ queue = <<Boot>> /\ count = 1
    /\ running = TRUE /\ waiting = {}
    /\ pc = [t \in Threads |-> IF t \in Workers THEN "pop" ELSE "idle"]
    /\ cur = [w \in Workers |-> None]
    /\ toctx = [t \in Threads |-> None]
    /\ msg = [t \in Threads |-> "data"]
    /\ stopping = "no" /\ left = {}
    /\ drops = [c \in Contexts |-> 0] /\ lost = [c \in Contexts |-> 0]
    /\ broken = "no"
    /\ sends = 0 /\ exits = 0

Goto(t, from, to) ==
    /\ broken = "no"
    /\ pc[t] = from
    /\ pc' = [pc EXCEPT ![t] = to]

\* The step at which a thread may call workerPoolSend, and where it continues
\* after the call: zLauchCmd still reads the id of the context it launched.
MaySend(t) == IF t \in Workers THEN "callback" ELSE "idle"

AfterSend(t) == IF msg[t] = "init" THEN "launched" ELSE MaySend(t)

EndSend(t) ==
    /\ toctx' = IF msg[t] = "init" THEN toctx ELSE [toctx EXCEPT ![t] = None]
    /\ msg' = [msg EXCEPT ![t] = "data"]

workerPoolHaveWork == count > 0

ctxMgrGetContextNum == Cardinality(contexts)

\* contextRelease drops one reference and frees the context with the last one.
contextRelease(c) ==
    /\ mem[c] = "live"
    /\ ref' = [ref EXCEPT ![c] = @ - 1]
    /\ mem' = IF ref[c] = 1 THEN [mem EXCEPT ![c] = "freed"] ELSE mem

\* The table's rwlock is held for writing while ctxMgrStop runs.
TableUnlocked == stopping # "contexts"

ctxMgrRemoveContext(c) ==
    /\ TableUnlocked
    /\ contexts' = contexts \ {c}

-----------------------------------------------------------------------------
(* workerPoolSend *)

SendTo(t, c, m) ==
    /\ toctx' = [toctx EXCEPT ![t] = c]
    /\ msg' = [msg EXCEPT ![t] = m]

\* The id of a context is known to others once its first message is queued.
Known(c) == mem[c] # "unborn" /\ ~(cb[c] = "launch" /\ messages[c] = <<>>)

\* Only zExitCmd, a command of callbacks, sends EXIT messages.
SendCall(t, c, m) ==
    /\ Goto(t, MaySend(t), "get")
    /\ Known(c)
    /\ sends < MaxSends /\ sends' = sends + 1
    /\ m = "exit" => t \in Workers /\ exits < MaxExits
    /\ exits' = IF m = "exit" THEN exits + 1 ELSE exits
    /\ SendTo(t, c, m)
    /\ UNCHANGED <<ctxVars, contexts, poolVars, cur, stopVars, broken>>

\* ctxMgrGetContext reads the slot under the read lock; the reference is taken
\* after the unlock.
SendGet(t) ==
    /\ Goto(t, "get", "retain")
    /\ TableUnlocked
    /\ toctx[t] \in contexts
    /\ UNCHANGED <<ctxVars, contexts, poolVars, cur, toctx, msg, stopVars, broken, budget>>

SendNotFound(t) ==
    /\ Goto(t, "get", AfterSend(t))
    /\ TableUnlocked
    /\ toctx[t] \notin contexts
    /\ EndSend(t)
    /\ UNCHANGED <<ctxVars, contexts, poolVars, cur, stopVars, broken, budget>>

\* Deviation: the receiver is used without a reference.
contextRetainLost(t) ==
    /\ Goto(t, "retain", "push")
    /\ mem[toctx[t]] = "live"
    /\ UNCHANGED <<ctxVars, contexts, poolVars, cur, toctx, msg, stopVars, broken, budget>>

contextRetain(t) ==
    /\ Goto(t, "retain", "push")
    /\ mem[toctx[t]] = "live"
    /\ ref' = [ref EXCEPT ![toctx[t]] = @ + 1]
    /\ UNCHANGED <<mem, inGlobal, cb, messages, contexts, poolVars, cur, toctx, msg,
                   stopVars, broken, budget>>

messageQueuePush(t) ==
    /\ Goto(t, "push", "mark")
    /\ mem[toctx[t]] = "live"
    /\ Len(messages[toctx[t]]) < MessageLen
    /\ messages' = [messages EXCEPT ![toctx[t]] = Append(@, msg[t])]
    /\ UNCHANGED <<mem, ref, inGlobal, cb, contexts, poolVars, cur, toctx, msg, stopVars,
                   broken, budget>>

\* A refused push of a message ends in assert(0).
MessageQueueFull(t) ==
    /\ broken = "no"
    /\ pc[t] = "push" /\ mem[toctx[t]] = "live"
    /\ LossyPush \/ Len(messages[toctx[t]]) >= MessageLen
    /\ broken' = "full"
    /\ UNCHANGED <<ctxVars, contexts, poolVars, threadVars, stopVars, budget>>

\* Deviation: the old value of inGlobal is not tested.
SendMarkBlind(t) ==
    /\ Goto(t, "mark", "sendPublish")
    /\ mem[toctx[t]] = "live"
    /\ inGlobal' = [inGlobal EXCEPT ![toctx[t]] = 1]
    /\ UNCHANGED <<mem, ref, cb, messages, contexts, poolVars, cur, toctx, msg, stopVars,
                   broken, budget>>

\* The compare-and-swap of inGlobal: the winner queues the context and hands
\* its reference over to the queue.
SendMark(t) ==
    /\ Goto(t, "mark", "sendPublish")
    /\ mem[toctx[t]] = "live"
    /\ inGlobal[toctx[t]] = 0
    /\ inGlobal' = [inGlobal EXCEPT ![toctx[t]] = 1]
    /\ UNCHANGED <<mem, ref, cb, messages, contexts, poolVars, cur, toctx, msg, stopVars,
                   broken, budget>>

SendMarked(t) ==
    /\ Goto(t, "mark", "sendRelease")
    /\ mem[toctx[t]] = "live"
    /\ inGlobal[toctx[t]] = 1
    /\ UNCHANGED <<ctxVars, contexts, poolVars, cur, toctx, msg, stopVars, broken, budget>>

SendPublish(t) ==
    /\ Goto(t, "sendPublish", "sendCount")
    /\ Len(queue) < QueueLen
    /\ queue' = Append(queue, toctx[t])
    /\ UNCHANGED <<ctxVars, contexts, count, running, waiting, cur, toctx, msg, stopVars,
                   broken, budget>>

\* The result of contextQueuePush is ignored.
SendPublishRefused(t) ==
    /\ Goto(t, "sendPublish", "signal")
    /\ LossyPush \/ Len(queue) >= QueueLen
    /\ lost' = [lost EXCEPT ![toctx[t]] = @ + 1]
    /\ UNCHANGED <<ctxVars, contexts, poolVars, cur, toctx, msg, stopping, left, drops,
                   broken, budget>>

SendCount(t) ==
    /\ Goto(t, "sendCount", "signal")
    /\ count' = (count + 1) % Word
    /\ UNCHANGED <<ctxVars, contexts, queue, running, waiting, cur, toctx, msg, stopVars,
                   broken, budget>>

\* Deviation: nobody is woken.
threadWakeUpLost(t) ==
    /\ Goto(t, "signal", AfterSend(t))
    /\ EndSend(t)
    /\ UNCHANGED <<ctxVars, contexts, poolVars, cur, stopVars, broken, budget>>

\* Deviation: the sender also drops the reference it handed to the queue.
threadWakeUpReleases(t) ==
    /\ Goto(t, "signal", "sendRelease")
    /\ UNCHANGED <<ctxVars, contexts, poolVars, cur, toctx, msg, stopVars, broken, budget>>

\* pthread_cond_signal wakes one of the waiting threads, if there is one.
threadWakeUp(t) ==
    /\ broken = "no" /\ pc[t] = "signal"
    /\ \/ /\ waiting = {}
          /\ pc' = [pc EXCEPT ![t] = AfterSend(t)]
          /\ UNCHANGED waiting
       \/ \E w \in waiting :
             /\ waiting' = waiting \ {w}
             /\ pc' = [pc EXCEPT ![w] = "sleep", ![t] = AfterSend(t)]
    /\ EndSend(t)
    /\ UNCHANGED <<ctxVars, contexts, queue, count, running, cur, stopVars, broken, budget>>

SendRelease(t) ==
    /\ Goto(t, "sendRelease", IF ref[toctx[t]] = 1 THEN "sendRemove" ELSE AfterSend(t))
    /\ contextRelease(toctx[t])
    /\ IF ref[toctx[t]] = 1 THEN UNCHANGED <<toctx, msg>> ELSE EndSend(t)
    /\ UNCHANGED <<inGlobal, cb, messages, contexts, poolVars, cur, stopVars, broken, budget>>

SendRemove(t) ==
    /\ Goto(t, "sendRemove", AfterSend(t))
    /\ ctxMgrRemoveContext(toctx[t])
    /\ EndSend(t)
    /\ UNCHANGED <<ctxVars, poolVars, cur, stopVars, broken, budget>>

workerPoolSend(t) ==
    \/ \E c \in Contexts, m \in {"data", "exit"} : SendCall(t, c, m)
    \/ SendGet(t)
    \/ SendNotFound(t)
    \/ contextRetain(t)
    \/ messageQueuePush(t)
    \/ MessageQueueFull(t)
    \/ SendMark(t)
    \/ SendMarked(t)
    \/ SendPublish(t)
    \/ SendPublishRefused(t)
    \/ SendCount(t)
    \/ threadWakeUp(t)
    \/ SendRelease(t)
    \/ SendRemove(t)

-----------------------------------------------------------------------------
(* handle: the loop of a worker thread *)

\* Deviation: inGlobal is cleared when the context is taken.
contextQueuePopClears(w) ==
    /\ Goto(w, "pop", "popCount")
    /\ queue # <<>>
    /\ cur' = [cur EXCEPT ![w] = Head(queue)]
    /\ queue' = Tail(queue)
    /\ inGlobal' = [inGlobal EXCEPT ![Head(queue)] = 0]
    /\ UNCHANGED <<mem, ref, cb, messages, contexts, count, running, waiting, toctx, msg,
                   stopVars, broken, budget>>

contextQueuePop(w) ==
    /\ Goto(w, "pop", "popCount")
    /\ queue # <<>>
    /\ cur' = [cur EXCEPT ![w] = Head(queue)]
    /\ queue' = Tail(queue)
    /\ UNCHANGED <<ctxVars, contexts, count, running, waiting, toctx, msg, stopVars, broken,
                   budget>>

PopNothing(w) ==
    /\ Goto(w, "pop", "checkNumSleep")
    /\ queue = <<>>
    /\ UNCHANGED <<ctxVars, contexts, poolVars, cur, toctx, msg, stopVars, broken, budget>>

PopCount(w) ==
    /\ Goto(w, "popCount", "dispatch")
    /\ count' = (count - 1) % Word
    /\ UNCHANGED <<ctxVars, contexts, queue, running, waiting, cur, toctx, msg, stopVars,
                   broken, budget>>

\* contextDispatchMessage.  A context whose callback is NULL loses the message
\* and is treated like one whose queue is empty.
DispatchEmpty(w) ==
    /\ Goto(w, "dispatch", "clear")
    /\ mem[cur[w]] = "live"
    /\ messages[cur[w]] = <<>>
    /\ UNCHANGED <<ctxVars, contexts, poolVars, cur, toctx, msg, stopVars, broken, budget>>

TakeMessage(w) ==
    /\ mem[cur[w]] = "live"
    /\ messages[cur[w]] # <<>>
    /\ messages' = [messages EXCEPT ![cur[w]] = Tail(@)]

DispatchDrop(w) ==
    /\ Goto(w, "dispatch", "clear")
    /\ TakeMessage(w)
    /\ cb[cur[w]] = "none"
    /\ UNCHANGED <<mem, ref, inGlobal, cb, contexts, poolVars, cur, toctx, msg, stopVars,
                   broken, budget>>

\* assert(contextRelease(ctx) != NULL)
DispatchExit(w) ==
    /\ Goto(w, "dispatch", "clear")
    /\ TakeMessage(w)
    /\ cb[cur[w]] # "none"
    /\ Head(messages[cur[w]]) = "exit"
    /\ contextRelease(cur[w])
    /\ drops' = [drops EXCEPT ![cur[w]] = @ + 1]
    /\ broken' = IF ref[cur[w]] = 1 THEN "assert" ELSE "no"
    /\ UNCHANGED <<inGlobal, cb, contexts, poolVars, cur, toctx, msg, stopping, left, lost,
                   budget>>

DispatchCallback(w) ==
    /\ Goto(w, "dispatch", "callback")
    /\ TakeMessage(w)
    /\ cb[cur[w]] = "run"
    /\ Head(messages[cur[w]]) # "exit"
    /\ UNCHANGED <<mem, ref, inGlobal, cb, contexts, poolVars, cur, toctx, msg, stopVars,
                   broken, budget>>

\* _launch removes itself as the callback before it loads the Lua file.
DispatchLaunch(w) ==
    /\ Goto(w, "dispatch", "loading")
    /\ TakeMessage(w)
    /\ cb[cur[w]] = "launch"
    /\ Head(messages[cur[w]]) # "exit"
    /\ cb' = [cb EXCEPT ![cur[w]] = "none"]
    /\ UNCHANGED <<mem, ref, inGlobal, contexts, poolVars, cur, toctx, msg, stopVars, broken,
                   budget>>

\* The Lua file registers the real callback.
LoadSucceeds(w) ==
    /\ Goto(w, "loading", "callback")
    /\ mem[cur[w]] = "live"
    /\ cb' = [cb EXCEPT ![cur[w]] = "run"]
    /\ UNCHANGED <<mem, ref, inGlobal, messages, contexts, poolVars, cur, toctx, msg,
                   stopVars, broken, budget>>

\* The Lua file cannot be loaded: EXIT is sent to the context itself.
LoadFails(w) ==
    /\ Goto(w, "loading", "get")
    /\ mem[cur[w]] = "live"
    /\ SendTo(w, cur[w], "exit")
    /\ UNCHANGED <<ctxVars, contexts, poolVars, cur, stopVars, broken, budget>>

\* zLauchCmd inside a callback: contextCreate, ctxMgrAddContext, and zluaInit,
\* which sets the callback and sends the context its first message.
Launch(w, c) ==
    /\ Goto(w, "callback", "get")
    /\ TableUnlocked
    /\ mem[c] = "unborn"
    /\ mem' = [mem EXCEPT ![c] = "live"]
    /\ ref' = [ref EXCEPT ![c] = 1]
    /\ cb' = [cb EXCEPT ![c] = "launch"]
    /\ contexts' = contexts \cup {c}
    /\ SendTo(w, c, "init")
    /\ UNCHANGED <<inGlobal, messages, poolVars, cur, stopVars, broken, budget>>

\* zLauchCmd reads inst->id, with no reference to the new context.
Launched(w) ==
    /\ Goto(w, "launched", "callback")
    /\ mem[toctx[w]] = "live"
    /\ toctx' = [toctx EXCEPT ![w] = None]
    /\ UNCHANGED <<ctxVars, contexts, poolVars, cur, msg, stopVars, broken, budget>>

CallbackReturns(w) ==
    /\ Goto(w, "callback", "haveWork")
    /\ mem[cur[w]] = "live"
    /\ UNCHANGED <<ctxVars, contexts, poolVars, cur, toctx, msg, stopVars, broken, budget>>

HaveWork(w) ==
    /\ Goto(w, "haveWork", IF workerPoolHaveWork THEN "publish" ELSE "dispatch")
    /\ UNCHANGED <<ctxVars, contexts, poolVars, cur, toctx, msg, stopVars, broken, budget>>

\* The worker puts its context back and takes another one.
PushBack(w) ==
    /\ Goto(w, "publish", "count")
    /\ Len(queue) < QueueLen
    /\ queue' = Append(queue, cur[w])
    /\ cur' = [cur EXCEPT ![w] = None]
    /\ UNCHANGED <<ctxVars, contexts, count, running, waiting, toctx, msg, stopVars, broken,
                   budget>>

PushBackRefused(w) ==
    /\ Goto(w, "publish", "checkNum")
    /\ LossyPush \/ Len(queue) >= QueueLen
    /\ cur' = [cur EXCEPT ![w] = None]
    /\ lost' = [lost EXCEPT ![cur[w]] = @ + 1]
    /\ UNCHANGED <<ctxVars, contexts, poolVars, toctx, msg, stopping, left, drops, broken,
                   budget>>

PushBackCount(w) ==
    /\ Goto(w, "count", "checkNum")
    /\ count' = (count + 1) % Word
    /\ UNCHANGED <<ctxVars, contexts, queue, running, waiting, cur, toctx, msg, stopVars,
                   broken, budget>>

\* assert(CAS(&ctx->inGlobal, 1, 0))
ClearInGlobal(w) ==
    /\ Goto(w, "clear", "release")
    /\ mem[cur[w]] = "live"
    /\ inGlobal' = [inGlobal EXCEPT ![cur[w]] = 0]
    /\ broken' = IF inGlobal[cur[w]] = 1 THEN "no" ELSE "assert"
    /\ UNCHANGED <<mem, ref, cb, messages, contexts, poolVars, cur, toctx, msg, stopVars,
                   budget>>

ctxMgrReleaseContext(w) ==
    /\ Goto(w, "release", IF ref[cur[w]] = 1 THEN "remove" ELSE "checkNumSleep")
    /\ contextRelease(cur[w])
    /\ cur' = IF ref[cur[w]] = 1 THEN cur ELSE [cur EXCEPT ![w] = None]
    /\ UNCHANGED <<inGlobal, cb, messages, contexts, poolVars, toctx, msg, stopVars, broken,
                   budget>>

Remove(w) ==
    /\ Goto(w, "remove", "checkNumSleep")
    /\ ctxMgrRemoveContext(cur[w])
    /\ cur' = [cur EXCEPT ![w] = None]
    /\ UNCHANGED <<ctxVars, poolVars, toctx, msg, stopVars, broken, budget>>

\* workerPoolStop: broadcast to the waiting threads.
WakeAll(p) == [t \in Threads |-> IF t \in waiting THEN "sleep" ELSE p[t]]

\* Deviation: the worker leaves without workerPoolStop.
CheckNumZeroAlone(w) ==
    /\ broken = "no"
    /\ pc[w] \in {"checkNum", "checkNumSleep"}
    /\ ctxMgrGetContextNum = 0
    /\ pc' = [pc EXCEPT ![w] = "done"]
    /\ UNCHANGED <<ctxVars, contexts, poolVars, cur, toctx, msg, stopVars, broken, budget>>

\* The worker leaves its loop when no context is left.
CheckNumZero(w) ==
    /\ broken = "no"
    /\ pc[w] \in {"checkNum", "checkNumSleep"}
    /\ ctxMgrGetContextNum = 0
    /\ running' = FALSE
    /\ waiting' = {}
    /\ pc' = WakeAll([pc EXCEPT ![w] = "done"])
    /\ UNCHANGED <<ctxVars, contexts, queue, count, cur, toctx, msg, stopVars, broken, budget>>

CheckNum(w) ==
    /\ broken = "no"
    /\ pc[w] \in {"checkNum", "checkNumSleep"}
    /\ ctxMgrGetContextNum # 0
    /\ pc' = [pc EXCEPT ![w] = IF @ = "checkNum" THEN "pop" ELSE "sleep"]
    /\ UNCHANGED <<ctxVars, contexts, poolVars, cur, toctx, msg, stopVars, broken, budget>>

\* Deviation: the worker sleeps without looking at the queue again.
threadSleepBlind(w) ==
    /\ Goto(w, "sleep", "waiting")
    /\ running
    /\ waiting' = waiting \cup {w}
    /\ UNCHANGED <<ctxVars, contexts, queue, count, running, cur, toctx, msg, stopVars,
                   broken, budget>>

threadSleep(w) ==
    /\ Goto(w, "sleep", "waiting")
    /\ ~workerPoolHaveWork /\ running
    /\ waiting' = waiting \cup {w}
    /\ UNCHANGED <<ctxVars, contexts, queue, count, running, cur, toctx, msg, stopVars,
                   broken, budget>>

StayAwake(w) ==
    /\ Goto(w, "sleep", "pop")
    /\ workerPoolHaveWork \/ ~running
    /\ UNCHANGED <<ctxVars, contexts, poolVars, cur, toctx, msg, stopVars, broken, budget>>

handle(w) ==
    \/ contextQueuePop(w)
    \/ PopNothing(w)
    \/ PopCount(w)
    \/ DispatchEmpty(w)
    \/ DispatchDrop(w)
    \/ DispatchExit(w)
    \/ DispatchCallback(w)
    \/ DispatchLaunch(w)
    \/ LoadSucceeds(w)
    \/ LoadFails(w)
    \/ \E c \in Contexts : Launch(w, c)
    \/ Launched(w)
    \/ CallbackReturns(w)
    \/ HaveWork(w)
    \/ PushBack(w)
    \/ PushBackRefused(w)
    \/ PushBackCount(w)
    \/ ClearInGlobal(w)
    \/ ctxMgrReleaseContext(w)
    \/ Remove(w)
    \/ CheckNumZero(w)
    \/ CheckNum(w)
    \/ threadSleep(w)
    \/ StayAwake(w)

-----------------------------------------------------------------------------
(* stop(), the handler of SIGTERM and SIGINT *)

\* ctxMgrStop takes the table's lock and drops one reference of every context.
StopBegin ==
    /\ broken = "no"
    /\ MayStop /\ stopping = "no"
    /\ stopping' = "contexts"
    /\ left' = contexts
    /\ UNCHANGED <<ctxVars, contexts, poolVars, threadVars, drops, lost, broken,
                   budget>>

StopContext(c) ==
    /\ broken = "no"
    /\ stopping = "contexts"
    /\ c \in left
    /\ contextRelease(c)
    /\ contexts' = IF ref[c] = 1 THEN contexts \ {c} ELSE contexts
    /\ drops' = [drops EXCEPT ![c] = @ + 1]
    /\ left' = left \ {c}
    /\ UNCHANGED <<inGlobal, cb, messages, poolVars, threadVars, stopping, lost, broken,
                   budget>>

StopUnlock ==
    /\ broken = "no"
    /\ stopping = "contexts"
    /\ left = {}
    /\ stopping' = "pool"
    /\ UNCHANGED <<ctxVars, contexts, poolVars, threadVars, left, drops, lost, broken,
                   budget>>

\* Deviation: the waiting threads are not woken.
workerPoolStopSilent ==
    /\ broken = "no"
    /\ stopping = "pool"
    /\ stopping' = "done"
    /\ running' = FALSE
    /\ UNCHANGED <<ctxVars, contexts, queue, count, waiting, threadVars, left, drops, lost,
                   broken, budget>>

workerPoolStop ==
    /\ broken = "no"
    /\ stopping = "pool"
    /\ stopping' = "done"
    /\ running' = FALSE
    /\ waiting' = {}
    /\ pc' = WakeAll(pc)
    /\ UNCHANGED <<ctxVars, contexts, queue, count, cur, toctx, msg, left, drops, lost,
                   broken, budget>>

ContinueStop == (\E c \in Contexts : StopContext(c)) \/ StopUnlock \/ workerPoolStop

-----------------------------------------------------------------------------

\* The steps that read or write the memory of the receiver of a send, or of the
\* context a worker took from the queue.
TouchesReceiver == {"retain", "push", "mark", "sendRelease", "launched"}
TouchesCurrent == {"dispatch", "loading", "callback", "clear", "release"}

Dangling(t) ==
    \/ pc[t] \in TouchesReceiver /\ mem[toctx[t]] = "freed"
    \/ t \in Workers /\ pc[t] \in TouchesCurrent /\ mem[cur[t]] = "freed"

\* An access to freed memory: nothing is known of the process afterwards.
UseAfterFree ==
    /\ broken = "no"
    /\ \/ \E t \in Threads : Dangling(t)
       \/ stopping = "contexts" /\ \E c \in left : mem[c] = "freed"
    /\ broken' = "uaf"
    /\ UNCHANGED <<ctxVars, contexts, poolVars, threadVars, stopVars, budget>>

Step(t) == workerPoolSend(t) \/ (t \in Workers /\ handle(t))

\* Every worker has left its loop, or the process has failed.
Ended == broken # "no" \/ \A w \in Workers : pc[w] = "done"

Next ==
    \/ \E t \in Threads : Step(t)
    \/ StopBegin
    \/ ContinueStop
    \/ UseAfterFree

Spec == Init /\ [][Next]_vars

\* A thread keeps running unless it is blocked in pthread_cond_wait; callbacks
\* end; the other threads and the user decide when to send and when to stop.
Fairness ==
    /\ \A t \in Threads : WF_vars(pc[t] # "idle" /\ Step(t))
    /\ WF_vars(ContinueStop)
    /\ WF_vars(UseAfterFree)

FairSpec == Spec /\ Fairness

-----------------------------------------------------------------------------
(* Properties *)

\* Who is entitled to the context: the worker between taking it from the queue
\* and clearing inGlobal, ...
Owns(w, c) == cur[w] = c /\ pc[w] \notin {"release", "remove"}

\* ... and the sender that has set inGlobal and not yet queued it.
Queues(t, c) == toctx[t] = c /\ pc[t] = "sendPublish"

InQueue(c) == \E i \in 1 .. Len(queue) : queue[i] = c

\* A worker that runs code on behalf of a context, from the dispatch of its
\* message to the check for other work.
Runs(w, c) == cur[w] = c /\ pc[w] \in {"dispatch", "loading", "callback"} \cup SendSteps

\* The actor model of README point 1: no two threads ever run the same context
\* at the same time, although every sender and every worker may queue it.
ActorExclusive ==
    \A v, w \in Workers, c \in Contexts : Runs(v, c) /\ Runs(w, c) => v = w

\* inGlobal (worker_pool.c:61,196) is a lock: whoever owns, queues or finds the
\* context in the queue is alone, and inGlobal is 1 until the owner clears it.
TokenInv ==
    /\ \A i, j \in 1 .. Len(queue) : queue[i] = queue[j] => i = j
    /\ \A i \in 1 .. Len(queue) :
          /\ inGlobal[queue[i]] = 1
          /\ \A w \in Workers : ~Owns(w, queue[i])
          /\ \A t \in Threads : ~Queues(t, queue[i])
    /\ \A w \in Workers, c \in Contexts : Owns(w, c) =>
          /\ inGlobal[c] = 1
          /\ \A v \in Workers : Owns(v, c) => v = w
          /\ \A t \in Threads : ~Queues(t, c)
    /\ \A t \in Threads, c \in Contexts : Queues(t, c) =>
          /\ inGlobal[c] = 1
          /\ \A u \in Threads : Queues(u, c) => u = t

\* Allocated contexts have a reference; the condition variable's waiters wait.
LiveRef == \A c \in Contexts : mem[c] = "live" => ref[c] >= 1

WaitInv == \A w \in waiting : pc[w] = "waiting"

\* A send in progress has its receiver, a worker past the pop has its context.
InHand == {"popCount", "dispatch", "loading", "callback", "launched", "haveWork",
           "publish", "clear", "release", "remove"} \cup SendSteps

HandInv ==
    /\ \A t \in Threads : pc[t] \in SendSteps \cup {"launched"} => toctx[t] \in Contexts
    /\ \A w \in Workers : pc[w] \in InHand => cur[w] \in Contexts

\* The inductive invariant behind ActorExclusive: besides the tokens it says
\* that the variables have their types and that every step has the contexts it
\* works on.
PoolInv == TypeOK /\ LiveRef /\ WaitInv /\ HandInv /\ TokenInv

Retained == {"push", "mark", "sendPublish", "sendRelease"}

Holders(c) ==
    Cardinality({i \in 1 .. Len(queue) : queue[i] = c})
    + Cardinality({w \in Workers : cur[w] = c /\ pc[w] # "remove"})
    + Cardinality({t \in Threads : toctx[t] = c /\ pc[t] \in Retained})

\* The reference count of context.c is the creation's reference, until it is
\* dropped, plus one for every holder (senders, workers and the global queue),
\* plus one for every push into the global queue whose refusal was ignored
\* (worker_pool.c:67, 197): a context that such a push has lost is never freed.
RefCount ==
    \A c \in Contexts :
        mem[c] = "live" => ref[c] = 1 - drops[c] + Holders(c) + lost[c]

\* The creation's reference is dropped by the first EXIT message, and by
\* ctxMgrStop for every context that is still in the table.
DroppedOnce == \A c \in Contexts : drops[c] <= 1

\* As long as no context is dropped twice, both assertions of the dispatch loop
\* hold (context.c:93, worker_pool.c:61), and of the accesses of the pool, the
\* senders and the launcher only the two that are made without a reference can
\* hit freed memory: contextRetain after the table's lock was released
\* (ctx_mgr.c:146-150), and the launcher's read of inst->id (z.c:60).  Not among
\* these accesses are those of the table itself (module CtxMgr) and those of the
\* QLEN command, which is not modelled (z.c:131-137).
OnlyUnretainedDangles ==
    DroppedOnce =>
        /\ broken # "assert"
        /\ \A t \in Threads : Dangling(t) => pc[t] \in {"retain", "launched"}

\* No lost wake-up: contexts are never left in the queue with all workers
\* asleep, unless the sender has still to signal.
NoLostWakeup ==
    broken = "no" /\ queue # <<>> /\ running /\ Workers \subseteq waiting =>
        \E t \in Others : pc[t] \in {"sendCount", "signal"}

\* A context in the global queue is taken by a worker.
QueueServed ==
    \A c \in Contexts : InQueue(c) ~> (~InQueue(c) \/ Ended)

\* After stop() (main.c:43-50) the workers leave their loops, unless a context
\* stays in the table for good: one that a callback still running has launched,
\* so that ctxMgrStop did not see it, or one with a reference that a refused push
\* into the global queue has lost (worker_pool.c:67, 197).
StopEnds ==
    stopping = "done" ~> (Ended \/ \E c \in contexts : drops[c] = 0 \/ lost[c] > 0)

\* When the last context is gone, every worker leaves its loop.
AllExitEnds == contexts = {} ~> Ended

\* "services are driven by messages" (README point 2): a message sent to a
\* service that has its callback is handled.
MessagesHandled ==
    \A c \in Contexts :
        cb[c] = "run" /\ messages[c] # <<>> ~>
            messages[c] = <<>> \/ mem[c] = "freed" \/ Ended

\* service_zlua.c:110, "loading the Lua file failed, exit the ctx": the EXIT that
\* a context sends itself after a failed load ends it.
LoadFailureExits ==
    \A c \in Contexts :
        cb[c] = "none" /\ (\E i \in 1 .. Len(messages[c]) : messages[c][i] = "exit") ~>
            mem[c] = "freed" \/ Ended
==============================================================================
