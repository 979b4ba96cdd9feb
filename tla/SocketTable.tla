---------------------------- MODULE SocketTable ------------------------------
(***************************************************************************)
(* The table of sockets of src/tcp.c and src/socket.c.  Worker threads     *)
(* reserve records and post requests; the thread of the event loop handles *)
(* the requests and the events of the descriptors, and frees records.      *)
(* The only synchronisation is the compare-and-swap on a record's type, so *)
(* a handler of the loop is split where a worker's accesses to the same    *)
(* record can come between.                                                *)
(*                                                                         *)
(* The request queue is the FIFO queue of EventQueue; that it wakes the    *)
(* loop is that module's subject.  Descriptors and payloads are left out:  *)
(* of a buffer the model keeps which connections its bytes were meant for. *)
(***************************************************************************)
EXTENDS Naturals, Sequences

CONSTANTS
    Workers,    \* the worker threads
    Loop,       \* the event loop's thread
    SetSize,    \* T->setsize, a power of two
    Capacity,   \* entries the request queue holds
    MaxId,      \* bound: the last id that is given out
    MaxCalls    \* bound: calls of tcpSocketStart, Close and Send

ASSUME TableAssumption ==
    /\ SetSize \in Nat \ {0} /\ Capacity \in Nat /\ MaxId \in Nat
    /\ MaxCalls \in Nat /\ Loop \notin Workers

Ids == 1 .. MaxId
NoId == 0
Slots == 0 .. SetSize - 1
Threads == Workers \cup {Loop}
Opens == {"listen", "connect", "asyncConnect"}

VARIABLES
    sockets,    \* T->sockets; reg: a handler is registered for reading
    allocId,    \* T->allocId
    requests,   \* T->em
    pc,         \* where each thread is in tcpGetReserveId or tcpPostRequest
    tries,      \* its local i
    arg,        \* the request it makes: type and id
    loop,       \* what the loop has still to do for the record it handles
    known,      \* ids that some service was told
    live,       \* ids reserved and not yet recovered
    twice,      \* history: an id was recovered that was not live, or that
                \* another request still used
    conn,       \* history: ids that were connected
    closeMsgs,  \* history: SOCK_CLOSE messages: the closed id, the id they name
    crash,      \* the assertion that failed, and where
    calls       \* calls made so far

table == <<sockets, live, twice, crash>>
history == <<conn, closeMsgs>>
vars == <<table, allocId, requests, pc, tries, arg, loop, known, history, calls>>

Record == [id : Ids \cup {NoId},
           type : {"none", "reserve", "accept", "socket", "connect"},
           state : {"disconnected", "connecting", "connected"},
           reg : BOOLEAN, buf : SUBSET Ids]
Request == [type : Opens \cup {"start", "close", "send", "stop"},
            id : Ids \cup {NoId}]
NoRequest == [type |-> "stop", id |-> NoId]
Idle == [at |-> "idle", id |-> NoId, tell |-> FALSE]

TypeOK ==
    /\ sockets \in [Slots -> Record]
    /\ allocId \in 1 .. MaxId + 1
    /\ requests \in Seq(Request) /\ Len(requests) <= Capacity
    /\ pc \in [Threads -> {"idle", "alloc", "cas", "setId", "post", "accepted"}]
    /\ tries \in [Threads -> 0 .. SetSize]
    /\ arg \in [Threads -> Request]
    /\ loop \in [at : {"idle", "recover", "notify", "reserve", "ended"},
                 id : Ids \cup {NoId}, tell : BOOLEAN]
    /\ known \subseteq Ids /\ live \subseteq Ids /\ conn \subseteq Ids
    /\ twice \in BOOLEAN
    /\ closeMsgs \subseteq [closed : Ids, names : Ids]
    /\ crash \in {"no", "full", "recoverInPost", "recoverInUse", "recoverInLoop"}
    /\ calls \in 0 .. MaxCalls

getIndex(i) == i % SetSize

Init ==
    /\ sockets = [s \in Slots |-> [id |-> NoId, type |-> "none",
                    state |-> "disconnected", reg |-> FALSE, buf |-> {}]]
    /\ allocId = 1
    /\ requests = <<>>
    /\ pc = [x \in Threads |-> "idle"]
    /\ tries = [x \in Threads |-> 0]
    /\ arg = [x \in Threads |-> NoRequest]
    /\ loop = Idle
    /\ known = {} /\ live = {} /\ twice = FALSE
    /\ conn = {} /\ closeMsgs = {}
    /\ crash = "no"
    /\ calls = 0

Goto(x, from, to) == pc[x] = from /\ pc' = [pc EXCEPT ![x] = to]

(* tcpRecoverId(id), on the table t: the record is found by the index of   *)
(* the id alone.  where says which caller's assertion it would be.         *)
tcpRecoverId(i, t, where) ==
    LET s == getIndex(i) IN
    IF t[s].state # "disconnected"
    THEN crash' = where /\ sockets' = t /\ UNCHANGED <<live, twice>>
    ELSE /\ sockets' = [t EXCEPT ![s].type = "none"]
         /\ live' = live \ {i}
         /\ twice' = (twice \/ i \notin live \/ where = "recoverInUse")
         /\ UNCHANGED crash

-----------------------------------------------------------------------------
(* tcpGetReserveId, by a worker that opens a socket and by onAccept. *)

Reserving(x, req, from) ==
    /\ Goto(x, from, "alloc")
    /\ arg' = [arg EXCEPT ![x] = req]
    /\ UNCHANGED tries

\* The atomic add and the reading of the record's type.
ReserveLook(x) ==
    /\ pc[x] = "alloc"
    /\ allocId <= MaxId
    /\ allocId' = allocId + 1
    /\ arg' = [arg EXCEPT ![x].id = allocId]
    /\ IF sockets[getIndex(allocId)].type = "none"
       THEN /\ Goto(x, "alloc", "cas")
            /\ UNCHANGED <<tries, crash>>
       ELSE /\ tries' = [tries EXCEPT ![x] = @ + 1]
            /\ crash' = IF tries[x] + 1 = SetSize THEN "full" ELSE crash
            /\ UNCHANGED pc
    /\ UNCHANGED <<sockets, live, twice, requests, loop, known, history, calls>>

\* Deviation: the type is stored, not compared and swapped.
ReserveCasBlind(x) ==
    /\ Goto(x, "cas", "setId")
    /\ sockets' = [sockets EXCEPT ![getIndex(arg[x].id)].type = "reserve"]
    /\ live' = live \cup {arg[x].id}
    /\ UNCHANGED <<twice, crash, allocId, requests, tries, arg, loop, known,
                   history, calls>>

\* A lost compare-and-swap does not count as a try.
ReserveCas(x) ==
    LET s == getIndex(arg[x].id) IN
    /\ pc[x] = "cas"
    /\ IF sockets[s].type = "none"
       THEN /\ Goto(x, "cas", "setId")
            /\ sockets' = [sockets EXCEPT ![s].type = "reserve"]
            /\ live' = live \cup {arg[x].id}
       ELSE /\ Goto(x, "cas", "alloc")
            /\ UNCHANGED <<sockets, live>>
    /\ UNCHANGED <<twice, crash, allocId, requests, tries, arg, loop, known,
                   history, calls>>

ReserveSetId(x) ==
    /\ Goto(x, "setId", IF x = Loop THEN "accepted" ELSE "post")
    /\ sockets' = [sockets EXCEPT ![getIndex(arg[x].id)].id = arg[x].id]
    /\ tries' = [tries EXCEPT ![x] = 0]
    /\ UNCHANGED <<live, twice, crash, allocId, requests, arg, loop, known,
                   history, calls>>

-----------------------------------------------------------------------------
(* The calls of the services. *)

Open(w, type) ==
    /\ Reserving(w, [type |-> type, id |-> NoId], "idle")
    /\ UNCHANGED <<table, allocId, requests, loop, known, history, calls>>

tcpSocketListen(w) == Open(w, "listen")

tcpSocketConnect(w) == Open(w, "connect")

tcpSocketAsyncConnect(w) == Open(w, "asyncConnect")

\* A request for any id a service knows.
Use(w, type, i) ==
    /\ i \in known
    /\ calls < MaxCalls
    /\ calls' = calls + 1
    /\ Goto(w, "idle", "post")
    /\ arg' = [arg EXCEPT ![w] = [type |-> type, id |-> i]]
    /\ UNCHANGED <<table, allocId, requests, tries, loop, known, history>>

tcpSocketStart(w, i) == Use(w, "start", i)

tcpSocketClose(w, i) == Use(w, "close", i)

\* Sending to several sockets is sending to one after the other.
tcpSocketSend(w, i) == Use(w, "send", i)

tcpStop(w) ==
    /\ calls < MaxCalls
    /\ calls' = MaxCalls
    /\ Goto(w, "idle", "post")
    /\ arg' = [arg EXCEPT ![w] = [type |-> "stop", id |-> NoId]]
    /\ UNCHANGED <<table, allocId, requests, tries, loop, known, history>>

\* Deviation: the limit of the queue is not tested.
PostAcceptedAlways(w) ==
    /\ Goto(w, "post", "idle")
    /\ requests' = Append(requests, arg[w])
    /\ known' = known \cup ({arg[w].id} \ {NoId})
    /\ arg' = [arg EXCEPT ![w] = NoRequest]
    /\ UNCHANGED <<table, allocId, tries, loop, history, calls>>

PostAccepted(w) ==
    /\ Goto(w, "post", "idle")
    /\ Len(requests) < Capacity
    /\ requests' = Append(requests, arg[w])
    /\ known' = known \cup ({arg[w].id} \ {NoId})
    /\ arg' = [arg EXCEPT ![w] = NoRequest]
    /\ UNCHANGED <<table, allocId, tries, loop, history, calls>>

(* The queue is full: the id is recovered, whatever the request was.  The  *)
(* calls without an id (send, stop) recover -1, which does nothing.        *)
PostRefused(w) ==
    /\ Goto(w, "post", "idle")
    /\ Len(requests) = Capacity
    /\ IF arg[w].type \in {"send", "stop"} THEN UNCHANGED table
       ELSE tcpRecoverId(arg[w].id, sockets,
                IF arg[w].type \in Opens THEN "recoverInPost" ELSE "recoverInUse")
    /\ arg' = [arg EXCEPT ![w] = NoRequest]
    /\ UNCHANGED <<allocId, requests, tries, loop, known, history, calls>>

-----------------------------------------------------------------------------
(* handleEvent: the loop's thread takes the next request. *)

Found(i) == sockets[getIndex(i)].id = i        \* tcpGetSocket

Handle(type) ==
    /\ loop.at = "idle"
    /\ requests # <<>> /\ Head(requests).type = type
    /\ requests' = Tail(requests)
    /\ UNCHANGED <<allocId, pc, tries, arg, known, calls>>

\* What remains to do is done with the record: a message, or nothing.
Quiet == UNCHANGED <<table, loop, history>>

\* anetTcpServer failed (ok is FALSE), or the id is gone: an error message.
handleTcpSocketListen(ok) ==
    LET i == Head(requests).id  s == getIndex(i) IN
    /\ Handle("listen")
    /\ IF ok /\ Found(i)
       THEN /\ sockets' = [sockets EXCEPT ![s].state = "connecting",
                                          ![s].type = "accept"]
            /\ UNCHANGED <<live, twice, crash, loop, history>>
       ELSE Quiet

\* The same for anetTcpConnect.  The record keeps its buffers.
handleTcpSocketConnect(ok) ==
    LET i == Head(requests).id  s == getIndex(i) IN
    /\ Handle("connect")
    /\ IF ok /\ Found(i)
       THEN /\ sockets' = [sockets EXCEPT ![s].state = "connecting",
                                          ![s].type = "connect"]
            /\ UNCHANGED <<live, twice, crash, loop, history>>
       ELSE Quiet

(* socketConnect registers the descriptor of the record, which is still    *)
(* -1, and fails; so would a failed anetTcpNonBlockConnect.  The id is     *)
(* recovered before the error message is made.                             *)
handleTcpSocketAsyncConnect ==
    LET i == Head(requests).id IN
    /\ Handle("asyncConnect")
    /\ IF Found(i)
       THEN /\ loop' = [at |-> "recover", id |-> i, tell |-> FALSE]
            /\ UNCHANGED <<table, history>>
       ELSE Quiet

socketAccept(i) ==
    /\ sockets' = [sockets EXCEPT ![getIndex(i)].reg = TRUE]
    /\ UNCHANGED <<live, twice, crash, loop, history>>

socketStart(i) ==
    /\ sockets' = [sockets EXCEPT ![getIndex(i)].reg = TRUE,
                                  ![getIndex(i)].state = "connected"]
    /\ conn' = conn \cup {i}
    /\ UNCHANGED <<live, twice, crash, loop, closeMsgs>>

socketStop(i) ==
    /\ sockets' = [sockets EXCEPT ![getIndex(i)].reg = FALSE,
                                  ![getIndex(i)].state = "disconnected"]
    /\ loop' = [at |-> "recover", id |-> i, tell |-> FALSE]
    /\ UNCHANGED <<live, twice, crash, history>>

\* The descriptor was registered (ok), or the record is stopped.
handleTcpSocketStart(ok) ==
    LET i == Head(requests).id  s == getIndex(i) IN
    /\ Handle("start")
    /\ IF ~Found(i) \/ sockets[s].state # "connecting" THEN Quiet
       ELSE \/ ok /\ sockets[s].type = "accept" /\ socketAccept(i)
            \/ ok /\ sockets[s].type \in {"socket", "connect"} /\ socketStart(i)
            \/ ~ok /\ socketStop(i)

\* Deviation: the record stays connected.
handleCloseForgets(i, bufs) ==
    /\ sockets' = [sockets EXCEPT ![getIndex(i)].reg = FALSE,
                                  ![getIndex(i)].buf = bufs]
    /\ loop' = [at |-> "recover", id |-> i, tell |-> TRUE]
    /\ UNCHANGED <<live, twice, crash, history>>

(* handleClose of socket.c: unregister, disconnect, recover, and then tell *)
(* the service, with the id the record has by then.                        *)
handleClose(i, bufs) ==
    /\ sockets' = [sockets EXCEPT ![getIndex(i)].state = "disconnected",
                                  ![getIndex(i)].reg = FALSE,
                                  ![getIndex(i)].buf = bufs]
    /\ loop' = [at |-> "recover", id |-> i, tell |-> TRUE]
    /\ UNCHANGED <<live, twice, crash, history>>

socketForceClose(i) ==
    LET s == getIndex(i) IN
    IF sockets[s].state = "disconnected"
    THEN /\ loop' = [at |-> "recover", id |-> i, tell |-> FALSE]
         /\ UNCHANGED <<table, history>>
    ELSE handleClose(i, sockets[s].buf)

handleTcpSocketClose ==
    LET i == Head(requests).id IN
    /\ Handle("close")
    /\ IF Found(i) THEN socketForceClose(i) ELSE Quiet

(* All is written, or some is kept in the send buffer, or the peer is      *)
(* gone.  With bytes already waiting nothing is written.                   *)
socketWrite(i) ==
    LET s == getIndex(i) IN
    IF sockets[s].state # "connected" THEN Quiet
    ELSE \/ sockets[s].buf = {} /\ Quiet
         \/ /\ sockets' = [sockets EXCEPT ![s].buf = @ \cup {i}]
            /\ UNCHANGED <<live, twice, crash, loop, history>>
         \/ sockets[s].buf = {} /\ handleClose(i, {})

handleTcpSocketSend ==
    LET i == Head(requests).id IN
    /\ Handle("send")
    /\ IF Found(i) THEN socketWrite(i) ELSE Quiet

handleTcpStop ==
    /\ Handle("stop")
    /\ loop' = [Idle EXCEPT !.at = "ended"]
    /\ UNCHANGED <<table, history>>

\* Deviation: a record that has another id by now is not reported.
LoopNotifyOwn ==
    /\ loop.at = "notify"
    /\ closeMsgs' = IF Found(loop.id)
            THEN closeMsgs \cup {[closed |-> loop.id, names |-> loop.id]}
            ELSE closeMsgs
    /\ loop' = Idle
    /\ UNCHANGED <<table, allocId, requests, pc, tries, arg, known, conn, calls>>

\* The two steps that end a close: tcpRecoverId and the message.
LoopRecover ==
    /\ loop.at = "recover"
    /\ tcpRecoverId(loop.id, sockets, "recoverInLoop")
    /\ loop' = IF loop.tell THEN [loop EXCEPT !.at = "notify"] ELSE Idle
    /\ UNCHANGED <<allocId, requests, pc, tries, arg, known, history, calls>>

LoopNotify ==
    /\ loop.at = "notify"
    /\ closeMsgs' = closeMsgs \cup
            {[closed |-> loop.id, names |-> sockets[getIndex(loop.id)].id]}
    /\ loop' = Idle
    /\ UNCHANGED <<table, allocId, requests, pc, tries, arg, known, conn, calls>>

-----------------------------------------------------------------------------
(* The events of the descriptors. *)

Event(s) ==
    /\ loop.at = "idle"
    /\ sockets[s].reg
    /\ UNCHANGED <<allocId, requests, known, calls>>

onAccept(s) ==
    /\ Event(s)
    /\ sockets[s].type = "accept"
    /\ Reserving(Loop, [type |-> "listen", id |-> NoId], "idle")
    /\ loop' = [at |-> "reserve", id |-> sockets[s].id, tell |-> FALSE]
    /\ UNCHANGED <<table, history>>

\* Deviation: the buffers keep what they had.
AcceptedKeepsBuffers ==
    LET s == getIndex(arg[Loop].id) IN
    /\ Goto(Loop, "accepted", "idle")
    /\ sockets' = [sockets EXCEPT ![s].type = "socket",
                                  ![s].state = "connecting"]
    /\ known' = known \cup {arg[Loop].id}
    /\ loop' = Idle
    /\ arg' = [arg EXCEPT ![Loop] = NoRequest]
    /\ UNCHANGED <<live, twice, crash, allocId, requests, tries, history, calls>>

\* The rest of onAccept: the record gets the connection and empty buffers,
\* and the listener's service is told its id.
Accepted ==
    LET s == getIndex(arg[Loop].id) IN
    /\ Goto(Loop, "accepted", "idle")
    /\ sockets' = [sockets EXCEPT ![s].type = "socket",
                                  ![s].state = "connecting", ![s].buf = {}]
    /\ known' = known \cup {arg[Loop].id}
    /\ loop' = Idle
    /\ arg' = [arg EXCEPT ![Loop] = NoRequest]
    /\ UNCHANGED <<live, twice, crash, allocId, requests, tries, history, calls>>

\* onRead: data changes nothing here; the end, an error or a bad packet close.
onRead(s) ==
    /\ Event(s)
    /\ sockets[s].type # "accept"
    /\ handleClose(sockets[s].id, sockets[s].buf)
    /\ UNCHANGED <<pc, tries, arg>>

\* onWrite: the send buffer is sent, or the peer is gone.
onWrite(s) ==
    /\ Event(s)
    /\ sockets[s].buf # {} /\ sockets[s].state = "connected"
    /\ \/ /\ sockets' = [sockets EXCEPT ![s].buf = {}]
          /\ UNCHANGED <<live, twice, crash, loop, history>>
       \/ handleClose(sockets[s].id, sockets[s].buf)
    /\ UNCHANGED <<pc, tries, arg>>

-----------------------------------------------------------------------------
Worker(w) ==
    \/ tcpSocketListen(w) \/ tcpSocketConnect(w) \/ tcpSocketAsyncConnect(w)
    \/ \E i \in Ids : tcpSocketStart(w, i) \/ tcpSocketClose(w, i) \/ tcpSocketSend(w, i)
    \/ tcpStop(w) \/ PostAccepted(w) \/ PostRefused(w)

Handler ==
    \/ \E ok \in BOOLEAN : \/ handleTcpSocketListen(ok) \/ handleTcpSocketConnect(ok)
                           \/ handleTcpSocketStart(ok)
    \/ handleTcpSocketAsyncConnect \/ handleTcpSocketClose \/ handleTcpSocketSend
    \/ handleTcpStop \/ LoopRecover \/ LoopNotify

Next ==
    /\ crash = "no"
    /\ \/ \E w \in Workers : Worker(w)
       \/ \E x \in Threads : ReserveLook(x) \/ ReserveCas(x) \/ ReserveSetId(x)
       \/ Handler \/ Accepted
       \/ \E s \in Slots : onAccept(s) \/ onRead(s) \/ onWrite(s)

Spec == Init /\ [][Next]_vars

-----------------------------------------------------------------------------
(* Properties *)

\* A thread that reserved i has not stored it in the record yet.
Unset(i) == \E x \in Threads : pc[x] = "setId" /\ arg[x].id = i

(* A record has one owner: while no id was recovered twice, nor because a  *)
(* full queue refused a start or a close of it, two ids that are in use    *)
(* have different records, and the record of each is taken and carries it  *)
(* (tcpGetSocket finds it) from tcpGetReserveId's store on.                *)
OneOwner ==
    twice \/ \A i \in live :
        /\ \A j \in live \ {i} : getIndex(i) # getIndex(j)
        /\ sockets[getIndex(i)].type # "none"
        /\ Found(i) \/ Unset(i)

(* The assertion in tcpRecoverId fails in the event loop's thread, or for  *)
(* a refused listen or connect, only after such a recovery: one that a     *)
(* full queue led to, or the second of two closes (the peer's and the      *)
(* service's).  A refused start or close of a socket in use fails it at    *)
(* once.                                                                   *)
RecoverAsserts == crash \in {"recoverInLoop", "recoverInPost"} => twice

(* A connection that is over was reported: its service got a SOCK_CLOSE    *)
(* for it, or gets one next.  The message names the connection or, since   *)
(* the id is read after the record was recovered, another one that got the *)
(* record in between.                                                      *)
CloseTold ==
    twice \/ \A i \in conn \ live :
        \/ loop.at = "notify" /\ loop.id = i
        \/ \E m \in closeMsgs :
            /\ m.closed = i
            /\ getIndex(m.names) = getIndex(i)

(* An accepted connection never sends what was meant for another one: the  *)
(* bytes an earlier owner of the record left are dropped by onAccept (a    *)
(* connection made by tcpSocketConnect does inherit them).  After an id    *)
(* was recovered twice a thread may still store its id in a record that    *)
(* was accepted for another one.                                           *)
AcceptedBuffersOwn ==
    twice \/ \A s \in Slots :
        sockets[s].type = "socket" /\ sockets[s].state # "disconnected"
          => sockets[s].buf \subseteq {sockets[s].id}
==============================================================================
