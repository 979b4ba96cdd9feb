# A verification development for z

z is a game server node: one process, many threads, every service an actor
("context") that is driven by messages (README of the repository, points 1 and
2).  This directory holds TLA+ models of its core, TLC configurations that
check them on small instances, and theorems that TLAPS checks for every value
of the constants.

Paths such as `worker_pool.c` are files of the repository's `src/` directory.

## 1. The system

### Parts, state and interaction

| Part | State | Operations | Talks to |
|---|---|---|---|
| Array queue (`contextqueue.c`; repeated with other element types in `messagequeue.c`, `arraylockfreequeue.c`) | four counters, an array of 2^k slots | push, pop, size; no lock | used by the pool (contexts), by every context (messages), by the event queues |
| Worker pool (`worker_pool.c`) | the global queue of contexts, a mutex and a condition variable, `isRunning` | `handle` (the worker's loop), `workerPoolSend`, `workerPoolStop` | takes contexts from the global queue, dispatches their messages, asks the context manager for receivers |
| Context (`context.c`) | reference count, `inGlobal`, callback, message queue, session counter | create, retain, release, dispatch | calls the service's callback |
| Context manager (`ctx_mgr.c`) | a table of contexts, the next id, the number of contexts, a rwlock | create, get, release, stop | everybody who has an id |
| Commands (`z.c`) | - | LAUNCH, EXIT, TIMEOUT, QLEN, environment | services call it from their callbacks |
| Lua launcher (`service-src/service_zlua.c`) | the Lua state of a service | init, `_launch`, release | sets the callback of its context |
| Event queue and event loop (`event_msgqueue.c`, `eventloop.c`) | an array queue and a socket pair | push (with a wake-up byte), pop | workers push, the timer and the socket thread pop |
| Timer (`timer.c`) | timers by serial number, in the event loop of its own thread | start, cancel, expire, stop | sends TIMEOUT messages with `workerPoolSend` |
| Socket table (`tcp.c`, `socket.c`, `buffer.c`, `proto.c`) | 2^16 socket records with a state each, buffers | listen, connect, start, send, close, accept, read, write | requests from the workers, events to the services |
| Log (`log.c`, `blockqueue.c`, `circqueue.c`) | a blocking queue of lines | log, exit, the log thread | every thread logs |
| Name service (`name_mgr.c`) | names with their ids | regist, unregist, get | commands |
| Lua sessions (`lualib/z.lua`, `lualib-src/lua-z.c`) | coroutines by session, an error queue | send, call, ret, timeout, dispatch | one instance in every Lua service |
| Game services (`game/*.lua`) | agents, players | login, message, close, save | messages between services |
| Startup and shutdown (`main.c`, `daemon.c`, `env.c`, `thread.c`) | - | bootstrap, signal handler `stop()` | all of the above |

The threads are the workers, the timer thread, the event loop thread (sockets),
the log thread and the main thread, which only waits; `stop()` runs as a signal
handler.  Contexts are shared by reference count.  A context sits in the
global queue at most once: the field `inGlobal` is set by a compare-and-swap of
the first sender and cleared by the worker that finds no more messages.

### What is hard

* Lock-free code: decisions from indices that are stale, publication in the
  order of the claims, a counter that is updated after the fact.
* The life of a context: looked up under a lock and retained after it; freed by
  whoever drops the last reference, and removed from the table later.
* The scheduler's two lost-wake-up questions: that of a sleeping worker
  (solved by the mutex) and that of a context whose last message arrives while
  the worker gives it up (open, see `pool_handled`).
* Shutdown, which ends by counting contexts.
* Results that are ignored: a refused push into the global queue.
* Ids that wrap and a table that grows.
* The event queue's rule "wake the loop when the length is 1", with several
  producers and a length that moves after the queue.
* Timers cancelled while they expire, by a number that was read from freed
  memory or has come round.
* Sockets closed while requests for them are queued, records that are given
  back by two threads, and ids that are read after that.
* Lua coroutines that are resumed by session, told of errors, and cut off.

`PROJECT.json` lists these hazards at their lines, with the properties that
would catch them.

### What makes each part correct

* Array queue: it is a bounded FIFO queue; no entry is lost, duplicated or
  overwritten; calls return.
* Worker pool: no two threads run a context at the same time; a context in the
  queue gets its turn; messages are handled; workers end when they should.
* Context: the reference count counts the holders; nobody uses a freed context.
* Context manager: an id leads to its context as long as it is registered;
  adding works while there is room; the number of contexts is right.
* Event queue: a request that was pushed is seen by the loop.
* Timer: a timer fires once or is cancelled; serial numbers are not confused.
* Socket table: a record is reserved by one user at a time; every record comes
  back; events reach the service that owns the socket.
* Log: lines come out in order, and the thread ends after the exit marker.
* Lua sessions: a call gets the answer of its own session, once; every caller
  is resumed or told of the error.
* Game services: a player is served by one agent, and his data are saved.

## 2. Modules

| Module | Models |
|---|---|
| `FifoQueue` | what the array queues promise: a bounded FIFO queue with atomic push and pop |
| `LockFreeQueue` | `contextqueue.c`, every shared access a step |
| `LockFreeQueueProofs` | its theorems |
| `WordArithmetic` | lemmas about counters that are machine words, used by the proofs of the queue and of the pool |
| `WorkerPool` | `worker_pool.c`, `context.c`, and what they use of `ctx_mgr.c`, `z.c`, `service_zlua.c`, `main.c` |
| `WorkerPoolProofs` | its theorems |
| `CtxMgr` | `ctx_mgr.c`: ids, slots, growth, removal, stop |
| `CtxMgrProofs` | its theorems |
| `EventQueue` | `event_msgqueue.c` and the rounds of the event loop |
| `Timer` | `timer.c` on top of `EventQueue` (it extends it) |
| `TimerProofs` | the theorems of both |
| `SocketTable` | `tcp.c` and `socket.c`: the records, their ids, the requests and the events |
| `SocketTableProofs` | its theorems |
| `Sessions` | `lualib/z.lua`: calls, answers, errors and timers of the Lua services |
| `SessionsProofs` | its theorems |
| `MC...` | the instances for TLC: the symmetry sets |

Operators that start with the comment "Deviation:" are plausible mistakes in
the code.  No specification uses them: each stands for a variant of the
definition that follows it, under which a property of the project fails.

### LockFreeQueue

`count`, `writeIndex`, `readIndex`, `maximumReadIndex` and `contexts` are the
fields of `struct contextQueue`; `pc`, `currentWriteIndex`, `currentReadIndex`
and `ctx` are the program counter and the locals of a call; `out` is the result
of a thread's last pop.  A push is `PushCall` (argument, read of writeIndex),
`PushRefused` or `PushRoom` (read of readIndex, test), `PushClaim` or
`PushRetry` (compare-and-swap of writeIndex), `PushStore`, `PushPublish`
(compare-and-swap of maximumReadIndex, after all earlier claims) and
`PushCount` (AtomicAdd).  A pop is `PopCall`, `PopEmpty` or `PopSome`,
`PopLoad`, `PopClaim` or `PopRetry`, and `PopCount`.

The indices are natural numbers, not words: the model leaves out a thread that
sleeps while the others complete 2^32 calls.  `count` keeps its width, because
it does go below zero when a pop overtakes the addition of the push.  The model
assumes sequentially consistent memory: all shared writes but the store of the
entry are `__sync` operations, which are full barriers.

### WorkerPool

The state of a context is `mem` (allocated or not), `ref`, `inGlobal`, `cb` (no
callback, `_launch`, or the service's own) and `messages`.  `contexts` is the
set of contexts in the table.  `queue` and `count` are the global queue; the
two are separate, because `workerPoolHaveWork` reads the counter, which moves
after the queue.  `waiting` are the threads inside `pthread_cond_wait`.  `cur`
is the context a worker took, `toctx` and `msg` are the arguments of a send.
`stopping` and `left` are the progress of `stop()`.  `drops` and `lost` are
history variables.

Every compare-and-swap, atomic addition and queue operation is a step; a
critical section is a step, because the threads see only its effect - except
that of `ctxMgrStop`, which releases one context after the other while the
threads that need the table wait (`TableUnlocked`).  Both queues are the FIFO
queues of `FifoQueue`; with `LossyPush` a push may also be refused with room
left, as the run `queue_full` shows that it may.

A worker's round is `contextQueuePop`, `PopCount`, one of the `Dispatch...`
actions, the callback, during which it may send (`workerPoolSend`) and launch
contexts (`Launch`), `CallbackReturns` and `HaveWork`, which decides between
the next message and `PushBack`.  A context without messages is given up by
`ClearInGlobal` and `ctxMgrReleaseContext`.  `CheckNumZero` ends the worker.  A
message is an initial message, an EXIT, or anything else ("data"); the content
of messages and what callbacks compute are left out.

An access to a freed context ends in `UseAfterFree`, after which nothing is
known.  A failed assertion ends in `broken = "assert"`, the `assert(0)` of a
refused message in `broken = "full"`.

`CtxMgr` and `WorkerPool` describe the table at two levels: in `WorkerPool` it
is a set and a lookup by id never hits another context; `CtxMgr` shows when
that is so (`Addressable`).

### CtxMgr

`allocId`, `contextNum`, `contexts` and `setsize` are the fields of `struct
ctxMgr`; `id` is the field of the contexts; `life` says how far a context is
between its creation and its removal.  A context's address may be used again
after it was freed and removed.  `ctxMgrAddContext` and `AddFails` are the
outcomes of the search for an id, the growth of the table included (`Rehash`
copies in the order of the slots).  `InitFails` is the failed initialisation,
`contextRelease` and `ctxMgrReleaseContext` the two halves of a release.
Failed memory allocations are not modelled.

### EventQueue

`queue` and `count` are the array queue and its counter, which moves after it;
`bytes` is what is in the socket pair; `pc` and `msg` are a producer inside
`emPush`, `loop` and `cur` the thread of the loop.  A push is `emPush`,
`Publish` or `Refuse`, `PushCount`, `ReadSize` (the comparison with 1),
`SendByte` and `Return`; the loop does `Poll` (the read of the bytes), `Pop`,
`PopCount` and `Callback` for each message, `PopEmpty`, and `EndRound`.  The
model is of the build with `LOCKFREE`, which the source selects.  `raced` is a
history variable: some producer counted while another one had counted and not
yet read the length.  Then both may read 2, neither writes a byte, and no later
push reads 1 before the queue has been drained, which nobody does.  Every
property of the queue has this exception, and needs no other.

### Timer

`Timer` extends `EventQueue` with what `timer.c` keeps: `sn`, the time events
`timers`, and `timerDict`.  Its producers are workers, which start and cancel
timers, and the main thread, which runs `timerStop`.  A timer is unused, on its
way through the queue, direct (`time == 0`), armed, or freed.  The clock is left
out: an armed timer may be due in any round, and whether it repeats is decided
when it fires.  `TimeoutReturns` reads the number out of the event after the
push; when the timer thread has freed the event by then the number is
arbitrary.  A cancel carries the number only; the field `t` of the message,
which says whom it was meant for, is used by the properties alone.

### SocketTable

A record has an `id`, a `type`, a `state`, `reg` (a handler is registered) and
`buf` (the ids for which its send buffer holds bytes).  Workers go through
`ReserveLook`, `ReserveCas`, `ReserveSetId` and `PostAccepted` or
`PostRefused`; the loop takes a request (`handleTcpSocket...`) or an event
(`onAccept`, `onRead`, `onWrite`).  A close is three steps, because a worker
can reserve the record between them: the record is disconnected
(`handleClose`), given back (`LoopRecover`), and reported with the id it then
has (`LoopNotify`).  A failed assertion ends the run in `crash`.  Descriptors
and payloads are left out, as is `onConnecting`: `socketConnect` registers the
descriptor of the record, which is still -1, so that `tcpSocketAsyncConnect`
always fails.  `live` and `twice` are history: the ids in use, and whether an
id was given back that was not in use or that a refused start or close gave
back while it was.

### Sessions

`inbox` are the message queues, `sessions` is `session_id_coroutine`,
`watching` is `watching_session`, `down` are the entries of `watching_service`
that are false, `errorQueue` is `error_queue`.  A coroutine records whom it
serves (`from`, `session`), the session it waits with, and whether its
requester was answered.  The dispatch of a message is one step, since a service
runs on one thread at a time (`ActorExclusive`); `dispatch_error_queue`, which
ends a dispatch without error, is the next step of the service (`drain`).  What
the code of a service does is chosen freely: before it ends, fails or calls, it
may answer, send, start a timer or make a service exit, also when it is cut off.

A request need not reach a handler.  `raw_dispatch_message` may fail before
there is a coroutine (`z.lua:321`, `:328`, `:330`); a coroutine that never runs
(`lost`) stands for the dropped request.  `suspend` itself may fail, because the
values of a `z.ret` cannot be packed (`z.lua:258`); the handler then stays in
`z.ret` and nobody is told.  And a service may exit: an EXIT message is
dispatched (`dispatchExit`), and when the last reference is dropped
(`contextRelease`) what is still in the inbox goes with it.  `MaxExits` bounds
the number of services told to exit.

Two functions of `z.lua` call `suspend` where the name is nil
(`dispatch_error_queue`, defined between `local suspend = nil` and the
function; `resume_kcall`, defined before both).  They resume the coroutine
before the call fails, so the coroutine runs and what it then yields is lost:
`CutRun`.  In particular an error travels one hop only: the caller of a failed
handler is resumed, fails in turn, and its own caller hears nothing.

## 3. Runs

| Run | Shows | Instance |
|---|---|---|
| `queue` | `QueueInv`, `CountLag`, `NoOverwrite`, `FifoSpec`, `CallsReturn` | 2 threads, 2 values, 4 slots, 5 pushes |
| `queue_full` | violation of `RefusedOnlyWhenFull` | 3 threads |
| `pool` | `PoolInv`, `ActorExclusive`, `RefCount`, `OnlyUnretainedDangles`, `NoLostWakeup` | 2 workers, 1 other thread, 2 contexts, refused pushes, 2 messages of which 1 EXIT |
| `pool_stop` | `StopEnds`, `AllExitEnds` | 2 workers, 2 contexts, refused pushes, a signal, 1 message or EXIT |
| `pool_live` | `QueueServed` | 2 workers, 1 other thread, 2 contexts, 1 message or EXIT |
| `pool_handled` | violation of `MessagesHandled` | 1 context, 1 message from another thread |
| `pool_load` | violation of `LoadFailureExits` | 1 context |
| `ctxmgr` | `TableInv`, `FailsOnlyAtWrap` | 5 contexts, table of 1 growing to 8, ids modulo 16 |
| `timer` | `EmInv`, `NoSleepOnMessage`, `CancelStops`, `CancelHitsOwn`, `StopEnds`, `AddHandled` | 1 worker and the main thread, queue of 2, 2 timers, numbers modulo 2 |
| `sockets` | `OneOwner`, `RecoverAsserts`, `CloseTold`, `AcceptedBuffersOwn` | 2 workers and the loop, 2 records, 3 ids, queue of 1, 3 calls |
| `sessions` | `AnswerFindsCaller`, `CallOwed` | 2 services, 3 coroutines, 2 sessions each, 2 messages or expiries from outside, 1 exit, inboxes of 2 |
| `sessions_down` | violation of `DownIsDown` | as `sessions`, any inboxes |

The runs `timer`, `sockets` and `sessions` also check `TypeOK`.

The bounds are chosen so that the interesting cases happen.  Four slots and
five pushes take every slot through a second use, with stale indices from the
lap before; a queue of capacity 3 gets full.  Two workers compete for one
context and for the wake-up; the other thread sends while both sleep; two
messages in a message queue of capacity 2, together with the initial one, fill
it; an EXIT of the boot context races with the launch of the second one.  The
table grows from 1 to 2, 4 and 8 slots, ids reach the negative half and wrap,
and the number of additions is not bounded, since freed contexts are created
again.  `Word` of 16 lets the counters wrap where the code lets them wrap.

In `timer` the queue gets full (a refused stop), two producers meet in `emPush`
(`raced`), the socket holds more bytes than one read takes, and the second
timer's number is 0, the one that direct timers report.  With three timers, so
that numbers are used again, the safety properties hold on 8.5 million states;
that instance takes longer and is not kept as a run.  In `sockets` three ids on
two records make one record change hands while requests for its old id are
queued, and a queue of one refuses requests of every kind.  In `sessions` three
coroutines give a chain of calls through both services and back, a service that
calls itself, a timer that expires while its coroutine is in a call, a one-way
message that fails while a call to the same service is open, and a service that
exits with requests and answers in its inbox.  The bound on the inboxes only
saves time (2.7 million states): without it the properties hold on 6.5 million.

Deadlock is checked in the run of the queue.  The pool may stop: all workers
end, or all sleep with nothing to do; and so may the table, when it is as large
as its bound.  The timer's loop ends or sleeps with nothing to do, the socket
table runs out of ids or stops, the services have no messages left.

### Fairness

A thread inside a queue operation, and a thread of the pool that is not blocked
and not free to decide, takes its next step some time (weak fairness per
thread): the operating system schedules all threads, and the code has no
priorities.  A thread in `pthread_cond_wait` is not enabled until a signal or a
broadcast wakes it; spurious wake-ups only add steps of the loop that rechecks
the condition.  Other threads are not obliged to send, callbacks are not
obliged to send or to launch, and a signal need not arrive.  Callbacks are
assumed to end, which the bound on sends gives here.

In `Timer`, a producer inside `emPush` goes on, the loop's thread takes the
next step that a byte or a message gives it, and a round ends although timers
may be due for ever: `processTimeEvents` goes through a finite list.  Nobody is
obliged to start, cancel or stop, and no timer is obliged to be due.

### What the violations show

* `queue_full`: push compares the slots of an old writeIndex and of a new
  readIndex.  When the other threads have moved on in between, the two can meet
  although the queue is empty; `workerPoolSend` reports a full queue and stops
  the program with `assert(0)` (`worker_pool.c:185-190`).
* `pool_handled`: a message that is pushed after the worker's last pop and
  before it clears `inGlobal` is left in the message queue, with no one to
  queue the context, until some later message arrives (`worker_pool.c:58-61`).
* `pool_load`: when its Lua file cannot be loaded the context sends itself an
  EXIT (`service_zlua.c:110`), which is dropped because the callback is NULL
  (`context.c:86-90`): the context stays, and the node does not end by itself.
* `sessions_down`: a service that fails on a one-way message reports an error
  with session 0, which `_error_dispatch` takes for "service id down"
  (`z.lua:280`); from then on `z.call` refuses to call it, as one that "is dead"
  (`z.lua:96`), although it runs.

Several of the passing properties describe limits of the code rather than its
promises.  The hazards behind their exceptions are listed in `PROJECT.json`, with
a note where no property excludes them; nothing that passes here says that they
do not happen.

* `OnlyUnretainedDangles` says which accesses of the modelled code can hit freed
  memory, and that there are no others as long as no context is dropped twice.
  A second EXIT for a context takes the reference of the worker that runs it,
  and `assert(contextRelease(ctx) != NULL)` (`context.c:93`) fails.
  The command QLEN, which returns the buffer of another context after
  releasing it (`z.c:131-137`), is not modelled and is one more.
* `StopEnds` of the pool has two exceptions: a context launched by a callback
  that was still running when `ctxMgrStop` went through the table, and a context
  whose push a full queue refused (`worker_pool.c:67`, `:197`), since the lost
  reference keeps it in the table.  `StopEnds` and `AllExitEnds` are checked
  without timer and socket threads: one of these could drop the last reference,
  and would then wake nobody.
* `NoSleepOnMessage`, `StopEnds` and `AddHandled` of the timer except the race for
  the byte; `StopEnds` is about stops that the queue accepted.
* `CancelStops` and `CancelHitsOwn` except numbers that were misread or came
  round.  With two timers and numbers modulo 2 none comes round in the run.
* `RecoverAsserts` says that the assertion in `tcpRecoverId` cannot fail in the
  event loop until an id was given back twice: by a worker whose start or close
  was refused by a full queue (`tcp.c:392-393`; that worker's own assertion can
  fail at once), or by a close of the peer and one of the service, both of which
  the loop carries out.
* `CloseTold` allows the message to name the next owner of the record.
* `OneOwner`, `CloseTold` and `AcceptedBuffersOwn` hold until an id was given back
  twice.  The last one needs that exception only with more ids than the run has
  (6 ids on 2 records): after a double recovery a worker may store its id in a
  record that was accepted for another connection in the meantime, whose buffer
  then holds bytes of an id that is not the record's.
* `AnswerFindsCaller` leaves out coroutines that were cut off, by `resume_kcall` or
  by `dispatch_error_queue`.
* `CallOwed` lists the ways in which a `z.call` is forgotten: its handler ended
  without a `z.ret`, was cut off (the caller of a handler whose own `z.call`
  failed hears nothing), or was left in `z.ret` by a `suspend` that failed; the
  request was dropped before there was a handler; or the service exited.  What it excludes is that a handler whose failure `suspend` saw leaves
  its caller without an error, and that a request, answer or error is lost on
  its way between services that live.

## 4. Theorems

`LockFreeQueueProofs`, for any set of threads and values, any `Size >= 2`:

* `QueueInvariant`: `Spec => []QueueInv`.  That the live indices span less than
  the array (`IndexWindow`) is not inductive.  It needs that a push whose
  compare-and-swap can still succeed saw room that is still there
  (`PushInv`), that claims are exclusive (`ClaimsDiffer`), and that a pop that
  can still succeed read the entry of its slot (`PopInv`).
* `NeverOverwrites`: `Spec => NoOverwrite`, from `QueueInv` and the lemma that
  two indices less than `Size` apart have different slots.
* `ImplementsFifo`: `Spec => FifoSpec`.  The refinement mapping takes the
  published entries from readIndex up to maximumReadIndex; publish is the
  abstract push, the claim of a pop the abstract pop, every other step stutters.
* `CountLags`: `Spec => []CountLag`.  `count` is the length, less the pushes that
  have published and not counted, plus the pops that have claimed and not
  counted, modulo the width of the word.  Both sets of threads are finite in
  every reachable state, whatever `Threads` is, and each step changes one of
  them by one thread (`ThreadMoves`, `WordStep`).

`WorkerPoolProofs`, for any disjoint sets of workers and other threads, any
contexts, capacities and bounds, with refused pushes or without:

* `PoolInvariant`: `Spec => []PoolInv`.  Its core is `TokenInv`: a context is
  either in the queue once, or owned by one worker, or about to be queued by
  one sender, and in each case `inGlobal` is 1.  The other parts say that
  variables have their types and that every step has the contexts it works on.
  Most steps create no token (`TokenFreeStep`); the five that move one have a
  lemma each.
* `Exclusive`: `Spec => []ActorExclusive`.
* `ReferencesCounted`: `Spec => []RefCount`.  The count is about holders, and
  whether a step adds a holder depends on what the others hold, so `RefInv`
  says: the workers that took a context and the threads that retained it are
  finite sets, and `ref` counts them, the queue, the creation's reference and
  what refused pushes have lost (`HeldInv`); a worker without a context has none
  in `cur` (`FreeHands`); nobody knows a context before it is created
  (`UnbornInv`).  `TokenInv` is what makes the queue one holder: it contains a
  context once at most.
* `HeldContextsLive`: `Spec => []OnlyUnretainedDangles`.  While the creation's
  reference was dropped once at most, `1 - drops` is not negative, so the count
  reaches 0 only when nobody holds the context: what is held is allocated (last
  part of `HeldInv`), and `assert(contextRelease(ctx) != NULL)` can fail only
  after a second drop (`AssertInv`).
* `WakeupsNotLost`: `Spec => []NoLostWakeup`, with at least one worker.
  `threadSleep` tests `count`, which lags behind the queue.  `CountInv` says by
  how much: the pushes that have not counted, less the pops that have not, modulo
  the width of the word.  So a worker that reads 0 and is the last to sleep, with
  contexts queued, leaves a sender behind that has still to count and to signal;
  a wrapped 0 is excluded because the queue is shorter than a word
  (`QueueLen < Word`; the code has 1024 slots and 2^32).

`CtxMgrProofs`, for any finite set of contexts, any initial size and any width
of the ids:

* `TableInvariant`: `Spec => []TableInv`.  The growth of the table is the
  difficult step: contexts with different slots modulo n have different slots
  modulo 2n (`SlotOfDouble`), so that no context is lost (`GrowthKeepsTable`).
  The count is right by cardinality of the registered contexts.
* `AddFailsOnlyAtWrap`: `Spec => FailsOnlyAtWrap`, by two pigeonhole arguments.
  Ids in a row meet every slot (`RowMeetsSlots`), so a search that starts above 0
  and does not wrap fails only when every slot is taken, and then, the slots
  holding different contexts, `contextNum >= NewSize`
  (`FailedSearchMeetsFullTable`).  But `contextNum <= setsize` (`NumWithinSize`),
  and the table was doubled if they are equal.

`TimerProofs`, for any finite set of producers, any messages, capacity and size
of the read buffer, any number of timers and any width of the numbers:

* `EventQueueWakes`: `EmSpec => []NoSleepOnMessage`.  That no message is left
  with a sleeping loop is not inductive.  `EmInv` adds what `count` is
  (`CountExact`: the length, less the pushes that have not counted, plus the
  pop that has not), and that outside `popMsgqueue` a positive count has its
  byte in the socket or on its way (`WakeUpOwed`).  The cardinality of the
  uncounted producers is followed through each step by four lemmas.
* `TimerTypes`: `Spec => []TypeOK`, and `TimerUsesQueue`: `Spec => EmSpec`, a
  refinement with the identity as its mapping: every step of the timer is a
  step of the queue or leaves it alone.
* `TimerWakes`: `Spec => []NoSleepOnMessage`, and `TimerQueueInvariant`: `Spec =>
  []EmInv`, from the two above.
* `CancelStopsTimer`: `Spec => []CancelStops`, and `CancelHitsOwnTimer`: `Spec =>
  CancelHitsOwn`.  What was handled says nothing of what is still queued, so
  neither is inductive.  `TimerInv` follows a timer from the call to its end:
  its add request is in one place at most (the producer's hands, the queue once,
  the loop's hands), and in none once the timer is armed or freed (`Called`,
  `Queued`, `Posted`); a cancel for it stands behind its add in the queue
  (`CancelsBehind`), since nobody knows the number before the push has
  returned; `timerDict` leads from a number to an armed timer of that number
  (`DictNumbers`), unless the number has come round.

`SocketTableProofs`, for any set of workers, any number of records and
ids and any length of the queue:

* `SocketTypes`, `RecordsHaveOneOwner`, `RecoverAssertHolds`, `ClosesAreTold` and
  `AcceptedBuffers`: `Spec => []P` for `TypeOK`, `OneOwner`, `RecoverAsserts`,
  `CloseTold` and `AcceptedBuffersOwn`.  One invariant serves them all.  Every id
  in somebody's hands was given out (`IdsBelow`), and an id with which a thread is
  about to take a record is nowhere else (`FreshIds`).  As long as no id was given
  back twice (`Ownership`): who holds a record reserved it and is alone, a request
  to open one refers to a reserved record, the record of an id in use is taken,
  what the loop recovers is in use and has no other user, and a connection that
  is over was told or is about to be.  The attempt to prove `AcceptedBuffersOwn`
  without the exception of `twice` is what showed that it needs it.

`SessionsProofs`, for any set of services and any numbers of coroutines,
sessions and messages from outside:

* `SessionTypes`, `AnswersFindCallers` and `CallsStayOwed`: `Spec => []P` for
  `TypeOK`, `AnswerFindsCaller` and `CallOwed`.  The dispatch of a message is one
  step that goes through several operators (`send`, `suspend...`, `Unyielding`,
  `CutRun`), each of which maps a view of the services to another.  In between
  one coroutine runs, and neither waits nor has ended.  The invariant is
  therefore stated of a view, the error queues, the services that are gone and
  the coroutine that runs (`Good`), each operator has a lemma that it keeps it,
  and a step is a composition of them.  Its parts: entries and waiting coroutines
  correspond, and session numbers are not reused (`Entered`, `Awaited`,
  `Distinct`); a watched session has its call (`Watched`, `CallWatched`); and a
  waiting call of a service that is not gone is owed its answer, or is forgotten
  in one of the listed ways (`Owed`).  An exit only changes `exiting` (`ExitStep`);
  a release empties an inbox, which forgets the calls made by and to that service
  and no others (`ReleaseStep`).

All inductive invariants were checked with TLC first, on the instances of the
runs; that of `Sessions` also by simulation with six coroutines, and those of
`WorkerPool` also with a signal and two EXIT messages (6.1 million states).

The assumptions are `QueueAssumption`, `PoolAssumption`, `CtxMgrAssumption`,
`EventQueueAssumption`, `TimerAssumption`, `MessagesAssumption`,
`TableAssumption` and `SessionsAssumption` of the modules; TLC evaluates them on
the instances.  No assumption is made that the code does not guarantee; that
`Size` is a power of two is needed only for the claim that indices may be taken
as natural numbers.

Only model-checked: all liveness (`CallsReturn`, `QueueServed`, `AllExitEnds`,
`AddHandled`, and `StopEnds` of the pool and of the timer), which needs fairness
and ENABLED and is out of the prover's reach.  Every safety property of the
passing runs is stated by a theorem.  What a recursive definition computes for every input could
not be proved either (induction over data, RECURSIVE operators); the present
modules have none.

## 5. Not modelled

Dynamic loading of modules, the daemon, the environment and the options, the
logger service, the serialisation and the database bindings are plumbing or
pure I/O.  The TCP stack in `gen_tcp.c`, `session.c`, `tcp_client.c`,
`tcp_server.c` and `protocol.c`, and `worker.c`, `globalqueue.c` and `queue.c`
are left over from earlier designs and not called.  `ae.c`, `anet.c`,
`adlist.c`, `dict.c` and `zmalloc.c` come from Redis; `3rd/` is vendored.

The log (`log.c`, `blockqueue.c`, `circqueue.c`) and the name service
(`name_mgr.c`) are data structures under one mutex each.  Each has one hazard,
which `PROJECT.json` lists: the exit marker is pushed into a queue that may be
full, and is then lost, so that the log thread does not end; the entry of a name
is read after the unlock.  The game services are not modelled either.

Of the modelled parts: weak memory, failing allocations, the signal handler on
top of a thread that holds a lock, the destruction of the pool and of the event
loops, the event queue's build with a mutex, descriptors and their reuse,
the arithmetic of the buffers and the framing of packets, the wrap of session
numbers, the reuse of finished coroutines (with which a late answer can reach an
unrelated handler), messages between services that a full message queue refuses,
and the command QLEN.

## 6. Plan

In this order:

1. Theorems: that the pool, the timer and the socket table use their queues as
   `FifoQueue` describes them, as refinements.
2. `LogQueue`: the circular queue against `FifoQueue`, the blocking queue, the
   exit marker.
3. `Buffer` and the packet framing of `proto.c` against a reference definition.
4. `Login`: gate, agent and hall services, with a second login of a player and
   disconnects in any order.
