------------------------------ MODULE Sessions -------------------------------
(***************************************************************************)
(* The session layer of lualib/z.lua: services call each other from        *)
(* coroutines.  z.call and z.kcall send a request under a new session and  *)
(* yield; z.ret answers; a handler that fails answers with a PROTO_ERROR;  *)
(* z.timeout makes a coroutine that waits for the responses of a timer.    *)
(* A service handles one message at a time (ActorExclusive of WorkerPool), *)
(* so a whole dispatch is one step.                                        *)
(*                                                                         *)
(* What the code of a service does between two yields is chosen freely: it *)
(* may return, send, start a timer or make a service exit, and then ends,  *)
(* fails, calls, or uses resume_kcall.  Two functions see suspend as nil:  *)
(* the local of line 225 is shadowed only after dispatch_error_queue, and  *)
(* in resume_kcall no local is in scope.  They resume the coroutine and    *)
(* then raise an error: what it yielded is lost, it is cut off.  Messages  *)
(* are lost with the service they were sent to and not otherwise, and the  *)
(* reuse of finished coroutines is left out.                               *)
(***************************************************************************)
EXTENDS Naturals, Sequences, FiniteSets

CONSTANTS
    Services,
    None,       \* no service: a message from the C code
    MaxCo,      \* bound: coroutines that are started
    MaxSession, \* bound: sessions of one service
    MaxRoots,   \* bound: messages that come from outside, and expiries
    MaxExits    \* bound: services that are told to exit

ASSUME SessionsAssumption ==
    /\ None \notin Services
    /\ MaxCo \in Nat /\ MaxSession \in Nat /\ MaxRoots \in Nat /\ MaxExits \in Nat

Cos == 1 .. MaxCo
NoCo == 0
SessionIds == 1 .. MaxSession

VARIABLES
    inbox,      \* the message queue of each service
    nsession,   \* ctx->sessionid
    co,         \* the coroutines: where they are, whom they serve
    sessions,   \* session_id_coroutine
    watching,   \* watching_session
    down,       \* services whose entry in watching_service is false
    errorQueue, \* error_queue
    drain,      \* services about to run dispatch_error_queue
    exiting,    \* services that have taken an EXIT and are not freed yet
    gone,       \* services that are freed
    roots       \* messages that came from outside

vars == <<inbox, nsession, co, sessions, watching, down, errorQueue, drain,
          exiting, gone, roots>>

Message == [type : {"request", "response", "error", "exit"},
            from : Services \cup {None}, session : 0 .. MaxSession]

Coroutine == [st : {"unused", "waiting", "ended", "dead", "lost"},
              srv : Services \cup {None},
              from : Services \cup {None},  \* session_coroutine_address
              session : 0 .. MaxSession,    \* session_coroutine_id
              wait : 0 .. MaxSession,       \* the session it yielded with
              kind : {"call", "kcall", "timer"},
              timer : 0 .. MaxSession,      \* the session of its z.timeout
              done : BOOLEAN,               \* its requester was answered
              cut : BOOLEAN]                \* it was cut off

Unused == [st |-> "unused", srv |-> None, from |-> None, session |-> 0,
           wait |-> 0, kind |-> "call", timer |-> 0, done |-> FALSE, cut |-> FALSE]

TypeOK ==
    /\ inbox \in [Services -> Seq(Message)]
    /\ nsession \in [Services -> 1 .. MaxSession + 1]
    /\ co \in [Cos -> Coroutine]
    /\ sessions \in [Services -> [SessionIds -> Cos \cup {NoCo}]]
    /\ watching \in [Services -> [SessionIds -> Services \cup {None}]]
    /\ down \in [Services -> SUBSET Services]
    /\ errorQueue \in [Services -> Seq(SessionIds)]
    /\ drain \subseteq Services
    /\ exiting \subseteq Services /\ gone \subseteq Services
    /\ roots \in 0 .. MaxRoots

Init ==
    /\ inbox = [s \in Services |-> <<>>]
    /\ nsession = [s \in Services |-> 1]
    /\ co = [k \in Cos |-> Unused]
    /\ sessions = [s \in Services |-> [n \in SessionIds |-> NoCo]]
    /\ watching = [s \in Services |-> [n \in SessionIds |-> None]]
    /\ down = [s \in Services |-> {}]
    /\ errorQueue = [s \in Services |-> <<>>]
    /\ drain = {} /\ exiting = {} /\ gone = {}
    /\ roots = 0

-----------------------------------------------------------------------------
(* What a running coroutine does.  A view is a value of the variables it   *)
(* changes; each operator below maps a view to the next one.               *)

View == [inbox |-> inbox, nsession |-> nsession, co |-> co,
         sessions |-> sessions, watching |-> watching]

Apply(v) ==
    /\ inbox' = v.inbox /\ nsession' = v.nsession /\ co' = v.co
    /\ sessions' = v.sessions /\ watching' = v.watching

\* c.send; a message to no service, or to one that is gone, goes nowhere
send(v, to, m) ==
    IF to = None \/ to \in gone THEN v ELSE [v EXCEPT !.inbox[to] = Append(@, m)]

Msg(type, from, n) == [type |-> type, from |-> from, session |-> n]

Ended(v, k, st) == [v EXCEPT !.co[k].st = st]

\* A request under a new session n, up to the yield of the coroutine.
Requested(v, s, k, d, kind) ==
    LET n == v.nsession[s] IN
    [send(v, d, Msg("request", s, n)) EXCEPT
        !.nsession[s] = n + 1,
        !.co[k].st = "lost", !.co[k].wait = n, !.co[k].kind = kind]

\* z.call: the session is watched.
call(v, s, k, d) ==
    [Requested(v, s, k, d, "call") EXCEPT !.watching[s][v.nsession[s]] = d]

\* z.kcall: only its key is, for resume_kcall.
kcall(v, s, k, d) == Requested(v, s, k, d, "kcall")

\* What the coroutine k of s can call: services not taken for dead, and found;
\* otherwise z.call raises an error.
Calls(v, s, k) ==
    UNION {{call(v, s, k, d), kcall(v, s, k, d)} :
               d \in {e \in Services \ (down[s] \cup gone) : v.nsession[s] <= MaxSession}}

\* Deviation: the yielded session is not noted.
suspendCallLost(v, s, k) == [v EXCEPT !.co[k].st = "waiting"]

\* suspend on "CALL"
suspendCall(v, s, k) ==
    [v EXCEPT !.sessions[s][v.co[k].wait] = k, !.co[k].st = "waiting"]

\* suspend on "RETURN": one-way messages (session 0) are not answered.
suspendReturn(v, s, k) ==
    IF v.co[k].session = 0 THEN v
    ELSE [send(v, v.co[k].from, Msg("response", s, v.co[k].session))
            EXCEPT !.co[k].done = TRUE]

\* Deviation: an error is reported to the failing service itself.
suspendErrorSelf(v, s, k) ==
    [send(v, s, Msg("error", s, v.co[k].session))
        EXCEPT !.co[k].st = "dead", !.co[k].done = TRUE]

(* suspend on an error: the requester gets a PROTO_ERROR with its session, *)
(* also when that is 0.                                                    *)
suspendError(v, s, k) ==
    [send(v, v.co[k].from, Msg("error", s, v.co[k].session))
        EXCEPT !.co[k].st = "dead", !.co[k].done = TRUE]

Fresh(v, j) == v.co[j].st = "unused" /\ \A i \in 1 .. j - 1 : v.co[i].st # "unused"

(* z.timeout: a new session, and a coroutine that waits for it.  It serves *)
(* nobody.                                                                 *)
timeout(v, s, j) ==
    LET n == v.nsession[s] IN
    [v EXCEPT !.nsession[s] = n + 1, !.sessions[s][n] = j,
              !.co[j] = [Unused EXCEPT !.st = "waiting", !.srv = s, !.wait = n,
                                       !.kind = "timer", !.timer = n]]

\* suspend on "TIMEOUT": a timer's coroutine waits for the next expiry.
suspendTimeout(v, s, k) ==
    LET n == v.co[k].timer IN
    [v EXCEPT !.sessions[s][n] = k,
              !.co[k].st = "waiting", !.co[k].wait = n, !.co[k].kind = "timer"]

(* z.exit(d): an EXIT message.  No second one is sent to a service; what    *)
(* that leads to is the subject of WorkerPool.                              *)
exit(v, s, d) == send(v, d, Msg("exit", s, 0))

Leaving(v) == exiting \cup gone \cup
    {d \in Services : \E i \in DOMAIN v.inbox[d] : v.inbox[d][i].type = "exit"}

MayExit(v) == {d \in Services \ Leaving(v) : Cardinality(Leaving(v)) < MaxExits}

(* Up to its last step the coroutine k of s may send one message, make a   *)
(* service exit or start a timer; under suspend it may also answer.        *)
Unyielding(v, s) ==
    {v} \cup {send(v, d, Msg("request", s, 0)) : d \in Services \ down[s]}
      \cup {exit(v, s, d) : d \in MayExit(v)}
      \cup {timeout(v, s, j) : j \in {i \in Cos : Fresh(v, i) /\ v.nsession[s] <= MaxSession}}

Before(v, s, k) ==
    Unyielding(v, s) \cup {suspendReturn(v, s, j) : j \in {i \in {k} : v.co[i].timer = 0}}

(* The coroutine k of s runs and nobody looks at what it yields: it fails, *)
(* exits, or is left in z.ret or in a call.                                *)
CutRun(v, s, k) ==
    UNION {{Ended(u, k, st) : st \in {"dead", "ended", "lost"}} \cup Calls(u, s, k)
           : u \in Unyielding([v EXCEPT !.co[k].cut = TRUE], s)}

\* The coroutine k of s runs under suspend and does not fail.
Run(v, s, k) ==
    UNION {{Ended(u, k, "ended")}
             \cup {suspendTimeout(u, s, j) : j \in {i \in {k} : u.co[i].timer # 0}}
             \cup {suspendCall(w, s, k) : w \in Calls(u, s, k)}
           : u \in Before(v, s, k)}

(* The coroutine k of s fails: by itself, or because it called             *)
(* resume_kcall, which resumes a coroutine in a z.kcall (whose session     *)
(* keeps its entry, since "BREAK" is never stored) and then raises.        *)
InKcall(v, s) ==
    {j \in Cos : /\ v.co[j].srv = s /\ v.co[j].kind = "kcall"
                 /\ v.co[j].st = "waiting" /\ v.sessions[s][v.co[j].wait] = j}

resume_kcall(v, s) == UNION {CutRun(v, s, j) : j \in InKcall(v, s)}

(* Or suspend itself fails: the values of a z.ret cannot be packed, a      *)
(* timer's coroutine, which has no session to answer, calls z.ret, or what *)
(* was yielded is no command.  Then nobody is told, and the coroutine      *)
(* stays where it is.                                                      *)
RunFails(v, s, k) ==
    {suspendError(u, s, k) : u \in Before(v, s, k) \cup resume_kcall(v, s)}
      \cup {Ended(u, k, "lost") : u \in Before(v, s, k)}

-----------------------------------------------------------------------------
(* raw_dispatch_message *)

lives == <<exiting, gone>>

\* A coroutine of s runs in the view v; only without an error is the error
\* queue looked at.
Resume(v, s, k) ==
    \/ /\ \E u \in Run(v, s, k) : Apply(u)
       /\ drain' = drain \cup {s}
    \/ /\ \E u \in RunFails(v, s, k) : Apply(u)
       /\ UNCHANGED drain

Take(s, type) ==
    /\ s \notin drain
    /\ inbox[s] # <<>> /\ Head(inbox[s]).type = type

Taken(s) == [View EXCEPT !.inbox[s] = Tail(@)]

\* The coroutine for a request, before it runs.
Handler(s, m) ==
    [Unused EXCEPT !.st = "lost", !.srv = s, !.from = m.from, !.session = m.session]

(* The handler runs; or the message is not understood (an unknown          *)
(* prototype, no dispatch function, class.unpack fails), and the request   *)
(* is dropped.  A coroutine that never runs stands for a dropped request.  *)
dispatchRequest(s) ==
    /\ Take(s, "request")
    /\ \E k \in Cos :
        LET v == [Taken(s) EXCEPT !.co[k] = Handler(s, Head(inbox[s]))] IN
        /\ Fresh(View, k)
        /\ \/ Resume(v, s, k)
           \/ Apply(v) /\ UNCHANGED drain
    /\ UNCHANGED <<down, errorQueue, lives, roots>>

(* The coroutine of the session goes on.  One that was cut off may be dead *)
(* (then suspend reports the error), have ended (then nothing is left to   *)
(* run), or wait for something else (then it goes on with this answer).    *)
dispatchResponse(s) ==
    LET n == Head(inbox[s]).session
        k == IF n = 0 THEN NoCo ELSE sessions[s][n]
        v == [Taken(s) EXCEPT !.sessions[s][n] = NoCo]
        woken == [v EXCEPT !.watching[s] =
                    IF co[k].wait = 0 THEN @ ELSE [@ EXCEPT ![co[k].wait] = None]]
    IN
    /\ Take(s, "response")
    /\ \/ /\ k = NoCo       \* unknow_response
          /\ Apply(Taken(s)) /\ UNCHANGED drain
       \/ /\ k # NoCo /\ co[k].st \in {"waiting", "lost"}
          /\ Resume(woken, s, k)
       \/ /\ k # NoCo /\ co[k].st = "dead"
          /\ Apply(suspendError(v, s, k)) /\ UNCHANGED drain
       \/ /\ k # NoCo /\ co[k].st = "ended"
          /\ Apply(v) /\ UNCHANGED drain
    /\ UNCHANGED <<down, errorQueue, lives, roots>>

\* Deviation: whatever its session, an error is queued for that session.
errorDispatchQueues(s) ==
    /\ Take(s, "error")
    /\ Apply(Taken(s))
    /\ drain' = drain \cup {s}
    /\ errorQueue' = [errorQueue EXCEPT ![s] = Append(@, Head(inbox[s]).session)]
    /\ UNCHANGED <<down, lives, roots>>

(* _error_dispatch.  Session 0 stands for a service that is down: all      *)
(* calls to it are queued.  Otherwise the session is, if z.call made it.   *)
errorDispatch(s) ==
    LET m == Head(inbox[s])
        hit == {n \in SessionIds : watching[s][n] = m.from} IN
    /\ Take(s, "error")
    /\ Apply(Taken(s))
    /\ drain' = drain \cup {s}
    /\ IF m.session = 0
       THEN /\ down' = [down EXCEPT ![s] = @ \cup {m.from}]
            /\ \E q \in [1 .. Cardinality(hit) -> hit] :
                /\ \A n \in hit : \E i \in DOMAIN q : q[i] = n
                /\ errorQueue' = [errorQueue EXCEPT ![s] = @ \o q]
       ELSE /\ errorQueue' = IF watching[s][m.session] = None THEN errorQueue
                    ELSE [errorQueue EXCEPT ![s] = Append(@, m.session)]
            /\ UNCHANGED down
    /\ UNCHANGED <<lives, roots>>

\* dispatch_error_queue, at the end of suspend.
dispatch_error_queue(s) ==
    LET n == Head(errorQueue[s])
        k == sessions[s][n]
        v == [View EXCEPT !.sessions[s][n] = NoCo,
                          !.watching[s][n] = IF k = NoCo THEN @ ELSE None]
    IN
    /\ s \in drain
    /\ drain' = drain \ {s}
    /\ \/ errorQueue[s] = <<>> /\ Apply(View) /\ UNCHANGED errorQueue
       \/ /\ errorQueue[s] # <<>>
          /\ errorQueue' = [errorQueue EXCEPT ![s] = Tail(@)]
          /\ IF k = NoCo THEN Apply(v) ELSE \E u \in CutRun(v, s, k) : Apply(u)
    /\ UNCHANGED <<down, lives, roots>>

(* contextDispatchMessage takes an EXIT and drops the creation's reference. *)
(* A sender that holds another one may have the service dispatch more       *)
(* messages until the last reference is dropped, and with it the messages.  *)
dispatchExit(s) ==
    /\ Take(s, "exit")
    /\ exiting' = exiting \cup {s}
    /\ Apply(Taken(s))
    /\ UNCHANGED <<down, errorQueue, drain, gone, roots>>

contextRelease(s) ==
    /\ s \in exiting \ drain
    /\ exiting' = exiting \ {s} /\ gone' = gone \cup {s}
    /\ Apply([View EXCEPT !.inbox[s] = <<>>])
    /\ UNCHANGED <<down, errorQueue, drain, roots>>

\* A message from the C code (a socket, the launcher): no sender, session 0.
Root(s) ==
    /\ roots < MaxRoots
    /\ roots' = roots + 1
    /\ Apply(send(View, s, Msg("request", None, 0)))
    /\ UNCHANGED <<down, errorQueue, drain, lives>>

(* A timer expires: the C code sends a response under its session, also    *)
(* when the coroutine has ended or waits for something else.               *)
Expire(s, n) ==
    /\ \E k \in Cos : co[k].srv = s /\ co[k].timer = n
    /\ roots < MaxRoots
    /\ roots' = roots + 1
    /\ Apply(send(View, s, Msg("response", None, n)))
    /\ UNCHANGED <<down, errorQueue, drain, lives>>

Next == \E s \in Services :
    \/ dispatchRequest(s) \/ dispatchResponse(s) \/ errorDispatch(s)
    \/ dispatch_error_queue(s) \/ dispatchExit(s) \/ contextRelease(s) \/ Root(s)
    \/ \E n \in SessionIds : Expire(s, n)

Spec == Init /\ [][Next]_vars

-----------------------------------------------------------------------------
(* Properties *)

(* An answer reaches the coroutine that waits for it and no other: the     *)
(* entry of a session is the coroutine that yielded with it, and whoever   *)
(* yielded has its entry - unless the coroutine was cut off.               *)
AnswerFindsCaller ==
    /\ \A s \in Services, n \in SessionIds : sessions[s][n] # NoCo =>
        LET k == sessions[s][n] IN
            co[k].srv = s /\ (co[k].cut \/ (co[k].st = "waiting" /\ co[k].wait = n))
    /\ \A k \in Cos : co[k].st = "waiting" =>
        sessions[co[k].srv][co[k].wait] = k

InTransit(s, type, from, n) ==
    \E i \in DOMAIN inbox[s] :
        /\ inbox[s][i].type = type /\ inbox[s][i].session = n
        /\ inbox[s][i].from = from

\* The handler j of d serves the session n of s and has not answered.
Serving(j, d, s, n) ==
    co[j].srv = d /\ co[j].from = s /\ co[j].session = n /\ ~co[j].done

Answering(d, s, n) ==
    \/ InTransit(d, "request", s, n)
    \/ InTransit(s, "response", d, n) \/ InTransit(s, "error", d, n)
    \/ \E i \in DOMAIN errorQueue[s] : errorQueue[s][i] = n

(* The ways in which a z.call is forgotten, apart from what is left out    *)
(* above, are these and no others.  While a coroutine waits in one, its    *)
(* request is queued, the answer or error is on its way, or whoever serves *)
(* it has not answered: it waits in turn, it ended without a z.ret, it was *)
(* cut off, or suspend failed on it or its request was dropped (lost) - or *)
(* the service is gone.  A handler whose failure suspend saw has always    *)
(* told its caller.                                                        *)
CallOwed ==
    \A k \in Cos :
        /\ co[k].st = "waiting" /\ co[k].kind = "call" /\ ~co[k].cut
        /\ co[k].srv \notin gone
        => LET s == co[k].srv  n == co[k].wait  d == watching[s][n] IN
           \/ Answering(d, s, n)
           \/ \E j \in Cos : /\ Serving(j, d, s, n)
                             /\ co[j].st \in {"waiting", "ended", "lost"} \/ co[j].cut
           \/ d \in gone

(* A service that is taken for dead (z.lua:95-96, 280) has exited. *)
DownIsDown == \A s \in Services : down[s] \subseteq exiting \cup gone
==============================================================================
