---------------------------- MODULE SessionsProofs ----------------------------
(***************************************************************************)
(* Proofs about Sessions, for any set of services and any bounds.          *)
(*                                                                         *)
(* A dispatch is one step that runs a coroutine through several operators  *)
(* on views, so the inductive invariant is a predicate on views with one   *)
(* exception: the coroutine r that runs (NoCo between two dispatches).     *)
(* Each operator has a lemma that takes Good views to Good views; a lemma  *)
(* of its own says what the operator does to the fields, so that the other *)
(* proofs need not look inside it.                                         *)
(***************************************************************************)
EXTENDS Sessions, SequenceTheorems, FiniteSetTheorems, TLAPS

Views == [inbox : [Services -> Seq(Message)],
          nsession : [Services -> 1 .. MaxSession + 1],
          co : [Cos -> Coroutine],
          sessions : [Services -> [SessionIds -> Cos \cup {NoCo}]],
          watching : [Services -> [SessionIds -> Services \cup {None}]]]

Queues == [Services -> Seq(SessionIds)]
DownSets == [Services -> SUBSET Services]

(* The sessions a coroutine holds were given out by its service, and a     *)
(* coroutine of a timer serves nobody.                                     *)
Formed(v) ==
    \A k \in Cos :
        /\ v.co[k].st = "unused" =>
              v.co[k].srv = None /\ v.co[k].wait = 0 /\ v.co[k].timer = 0
        /\ v.co[k].st # "unused" =>
              /\ v.co[k].srv \in Services
              /\ v.co[k].wait < v.nsession[v.co[k].srv]
              /\ v.co[k].timer < v.nsession[v.co[k].srv]
        /\ v.co[k].st = "waiting" => v.co[k].wait # 0
        /\ v.co[k].timer # 0 => v.co[k].from = None

(* No two coroutines of a service hold the same session. *)
Distinct(v) ==
    \A j, k \in Cos : j # k /\ v.co[j].srv = v.co[k].srv =>
        /\ v.co[j].wait # 0 => v.co[j].wait # v.co[k].wait /\ v.co[j].wait # v.co[k].timer
        /\ v.co[j].timer # 0 => v.co[j].timer # v.co[k].timer

(* The two halves of AnswerFindsCaller.  A coroutine has one entry at most, *)
(* even when it was cut off, and none while it runs.                        *)
Entered(v, r) ==
    \A s \in Services, n \in SessionIds : v.sessions[s][n] # NoCo =>
        /\ v.sessions[s][n] # r /\ n < v.nsession[s]
        /\ v.co[v.sessions[s][n]].srv = s
        /\ \/ v.co[v.sessions[s][n]].cut
           \/ v.co[v.sessions[s][n]].st = "waiting" /\ v.co[v.sessions[s][n]].wait = n
        /\ \A m \in SessionIds : v.sessions[s][m] = v.sessions[s][n] => m = n

Awaited(v, r) ==
    \A k \in Cos : k # r /\ v.co[k].st = "waiting" =>
        v.sessions[v.co[k].srv][v.co[k].wait] = k

(* A session that is watched or in the error queue was made by z.call: if  *)
(* it has an entry, then its coroutine still waits for it.  This is why    *)
(* the error queue never resumes a dead coroutine.                         *)
Holds(x, n) == \E i \in DOMAIN x : x[i] = n

InQueue(q, s, n) == Holds(q[s], n)

Watched(v, q) ==
    \A s \in Services, n \in SessionIds :
        v.watching[s][n] # None \/ InQueue(q, s, n) =>
            /\ n < v.nsession[s]
            /\ \A k \in Cos : v.co[k].srv = s => v.co[k].timer # n
            /\ v.sessions[s][n] # NoCo =>
                  /\ v.co[v.sessions[s][n]].st = "waiting"
                  /\ v.co[v.sessions[s][n]].wait = n
                  /\ v.co[v.sessions[s][n]].kind = "call"

CallWatched(v, r) ==
    \A k \in Cos : k # r /\ v.co[k].st = "waiting" /\ v.co[k].kind = "call" =>
        v.watching[v.co[k].srv][v.co[k].wait] # None

(* An error comes from a service. *)
Errors(v) ==
    \A s \in Services : \A i \in DOMAIN v.inbox[s] :
        v.inbox[s][i].type = "error" => v.inbox[s][i].from \in Services

(* CallOwed on a view: the running coroutine may still answer. *)
Transit(v, s, type, from, n) ==
    \E i \in DOMAIN v.inbox[s] : /\ v.inbox[s][i].type = type
                                 /\ v.inbox[s][i].session = n
                                 /\ v.inbox[s][i].from = from

Serves(v, j, d, s, n, r) ==
    /\ v.co[j].srv = d /\ v.co[j].from = s
    /\ v.co[j].session = n /\ ~v.co[j].done
    /\ v.co[j].st \in {"waiting", "ended", "lost"} \/ v.co[j].cut \/ j = r

OwedTo(v, q, r, s, n, d) ==
    \/ Transit(v, d, "request", s, n)
    \/ \E j \in Cos : Serves(v, j, d, s, n, r)
    \/ Transit(v, s, "response", d, n)
    \/ Transit(v, s, "error", d, n)
    \/ InQueue(q, s, n)

\* g: the services that are gone, who neither answer nor need an answer.
Owed(v, q, g, r) ==
    \A k \in Cos :
        LET s == v.co[k].srv
            n == v.co[k].wait
        IN  /\ k # r /\ v.co[k].st = "waiting" /\ v.co[k].kind = "call" /\ ~v.co[k].cut
            /\ s \notin g /\ v.watching[s][n] \notin g
            => OwedTo(v, q, r, s, n, v.watching[s][n])

Good(v, q, g, r) ==
    /\ v \in Views
    /\ Formed(v) /\ Distinct(v)
    /\ Entered(v, r) /\ Awaited(v, r)
    /\ Watched(v, q) /\ CallWatched(v, r)
    /\ Errors(v)
    /\ Owed(v, q, g, r)

\* The inductive invariant.
SessionsInv ==
    /\ errorQueue \in Queues /\ down \in DownSets
    /\ drain \subseteq Services /\ roots \in 0 .. MaxRoots
    /\ exiting \subseteq Services /\ gone \subseteq Services
    /\ Good(View, errorQueue, gone, NoCo)
-----------------------------------------------------------------------------
(* The edits that the operators on views are made of *)

EditInbox(v, s, x) == [v EXCEPT !.inbox[s] = x]
EditNs(v, s, x) == [v EXCEPT !.nsession[s] = x]
EditCo(v, k, c) == [v EXCEPT !.co[k] = c]
EditEntry(v, s, n, x) == [v EXCEPT !.sessions[s][n] = x]
EditWatch(v, s, n, x) == [v EXCEPT !.watching[s][n] = x]

\* The constants a view is made of.
LEMMA Basics ==
    /\ MaxCo \in Nat /\ MaxSession \in Nat /\ None \notin Services
    /\ 0 \notin Cos /\ NoCo = 0 /\ Cos \subseteq Nat
    /\ 0 \notin SessionIds /\ SessionIds \subseteq Nat
    /\ \A n : n \in SessionIds <=> n \in 0 .. MaxSession /\ n # 0
BY SessionsAssumption DEF Cos, NoCo, SessionIds

Mk(ib, ns, cs, ss, w) ==
    [inbox |-> ib, nsession |-> ns, co |-> cs, sessions |-> ss, watching |-> w]

LEMMA ViewIsMk ==
    ASSUME NEW v \in Views
    PROVE  v = Mk(v.inbox, v.nsession, v.co, v.sessions, v.watching)
BY DEF Views, Mk

LEMMA ViewTypes ==
    ASSUME NEW v \in Views
    PROVE  /\ v.inbox \in [Services -> Seq(Message)]
           /\ v.nsession \in [Services -> 1 .. MaxSession + 1]
           /\ v.co \in [Cos -> Coroutine]
           /\ v.sessions \in [Services -> [SessionIds -> Cos \cup {NoCo}]]
           /\ v.watching \in [Services -> [SessionIds -> Services \cup {None}]]
BY DEF Views

LEMMA EditInboxFacts ==
    ASSUME NEW v \in Views, NEW s \in Services, NEW x \in Seq(Message)
    PROVE  LET u == EditInbox(v, s, x) IN
           /\ u \in Views
           /\ u.inbox[s] = x /\ \A i \in Services : i # s => u.inbox[i] = v.inbox[i]
           /\ u.nsession = v.nsession /\ u.co = v.co
           /\ u.sessions = v.sessions /\ u.watching = v.watching
<1> DEFINE f == [v.inbox EXCEPT ![s] = x]
           u == Mk(f, v.nsession, v.co, v.sessions, v.watching)
<1>1. EditInbox(v, s, x) = u
  <2>1. EditInbox(v, s, x) = [v EXCEPT !.inbox = f]
    BY DEF EditInbox
  <2> HIDE DEF f
  <2> QED BY <2>1, ViewIsMk DEF Mk
<1>2. /\ f \in [Services -> Seq(Message)]
      /\ f[s] = x /\ \A i \in Services : i # s => f[i] = v.inbox[i]
  BY ViewTypes
<1> HIDE DEF f
<1>3. /\ u \in Views /\ u.inbox = f
      /\ u.nsession = v.nsession /\ u.co = v.co
      /\ u.sessions = v.sessions /\ u.watching = v.watching
  BY <1>2, ViewTypes DEF Views, Mk
<1> HIDE DEF u
<1> QED BY <1>1, <1>2, <1>3

LEMMA EditNsFacts ==
    ASSUME NEW v \in Views, NEW s \in Services, NEW x \in 1 .. MaxSession + 1
    PROVE  LET u == EditNs(v, s, x) IN
           /\ u \in Views
           /\ u.nsession[s] = x /\ \A i \in Services : i # s => u.nsession[i] = v.nsession[i]
           /\ u.inbox = v.inbox /\ u.co = v.co
           /\ u.sessions = v.sessions /\ u.watching = v.watching
<1> DEFINE f == [v.nsession EXCEPT ![s] = x]
           u == Mk(v.inbox, f, v.co, v.sessions, v.watching)
<1>1. EditNs(v, s, x) = u
  <2>1. EditNs(v, s, x) = [v EXCEPT !.nsession = f]
    BY DEF EditNs
  <2> HIDE DEF f
  <2> QED BY <2>1, ViewIsMk DEF Mk
<1>2. /\ f \in [Services -> 1 .. MaxSession + 1]
      /\ f[s] = x /\ \A i \in Services : i # s => f[i] = v.nsession[i]
  BY ViewTypes
<1> HIDE DEF f
<1>3. /\ u \in Views /\ u.nsession = f
      /\ u.inbox = v.inbox /\ u.co = v.co
      /\ u.sessions = v.sessions /\ u.watching = v.watching
  BY <1>2, ViewTypes DEF Views, Mk
<1> HIDE DEF u
<1> QED BY <1>1, <1>2, <1>3

LEMMA EditCoFacts ==
    ASSUME NEW v \in Views, NEW k \in Cos, NEW c \in Coroutine
    PROVE  LET u == EditCo(v, k, c) IN
           /\ u \in Views
           /\ u.co[k] = c /\ \A i \in Cos : i # k => u.co[i] = v.co[i]
           /\ u.inbox = v.inbox /\ u.nsession = v.nsession
           /\ u.sessions = v.sessions /\ u.watching = v.watching
<1> DEFINE f == [v.co EXCEPT ![k] = c]
           u == Mk(v.inbox, v.nsession, f, v.sessions, v.watching)
<1>1. EditCo(v, k, c) = u
  <2>1. EditCo(v, k, c) = [v EXCEPT !.co = f]
    BY DEF EditCo
  <2> HIDE DEF f
  <2> QED BY <2>1, ViewIsMk DEF Mk
<1>2. /\ f \in [Cos -> Coroutine]
      /\ f[k] = c /\ \A i \in Cos : i # k => f[i] = v.co[i]
  BY ViewTypes
<1> HIDE DEF f
<1>3. /\ u \in Views /\ u.co = f
      /\ u.inbox = v.inbox /\ u.nsession = v.nsession
      /\ u.sessions = v.sessions /\ u.watching = v.watching
  BY <1>2, ViewTypes DEF Views, Mk
<1> HIDE DEF u
<1> QED BY <1>1, <1>2, <1>3

LEMMA EditEntryFacts ==
    ASSUME NEW v \in Views, NEW s \in Services, NEW n \in SessionIds,
           NEW x \in Cos \cup {NoCo}
    PROVE  LET u == EditEntry(v, s, n, x) IN
           /\ u \in Views
           /\ u.sessions[s][n] = x
           /\ \A t \in Services, m \in SessionIds :
                 t # s \/ m # n => u.sessions[t][m] = v.sessions[t][m]
           /\ u.inbox = v.inbox /\ u.nsession = v.nsession
           /\ u.co = v.co /\ u.watching = v.watching
<1> DEFINE f == [v.sessions EXCEPT ![s] = [v.sessions[s] EXCEPT ![n] = x]]
           u == Mk(v.inbox, v.nsession, v.co, f, v.watching)
<1>1. EditEntry(v, s, n, x) = u
  <2>1. EditEntry(v, s, n, x) = [v EXCEPT !.sessions = f]
    BY DEF EditEntry
  <2> HIDE DEF f
  <2> QED BY <2>1, ViewIsMk DEF Mk
<1>2. /\ f \in [Services -> [SessionIds -> Cos \cup {NoCo}]]
      /\ f[s][n] = x
      /\ \A t \in Services, m \in SessionIds :
            t # s \/ m # n => f[t][m] = v.sessions[t][m]
  BY ViewTypes
<1> HIDE DEF f
<1>3. /\ u \in Views /\ u.sessions = f
      /\ u.inbox = v.inbox /\ u.nsession = v.nsession
      /\ u.co = v.co /\ u.watching = v.watching
  BY <1>2, ViewTypes DEF Views, Mk
<1> HIDE DEF u
<1> QED BY <1>1, <1>2, <1>3

LEMMA EditWatchFacts ==
    ASSUME NEW v \in Views, NEW s \in Services, NEW n \in SessionIds,
           NEW x \in Services \cup {None}
    PROVE  LET u == EditWatch(v, s, n, x) IN
           /\ u \in Views
           /\ u.watching[s][n] = x
           /\ \A t \in Services, m \in SessionIds :
                 t # s \/ m # n => u.watching[t][m] = v.watching[t][m]
           /\ u.inbox = v.inbox /\ u.nsession = v.nsession
           /\ u.co = v.co /\ u.sessions = v.sessions
<1> DEFINE f == [v.watching EXCEPT ![s] = [v.watching[s] EXCEPT ![n] = x]]
           u == Mk(v.inbox, v.nsession, v.co, v.sessions, f)
<1>1. EditWatch(v, s, n, x) = u
  <2>1. EditWatch(v, s, n, x) = [v EXCEPT !.watching = f]
    BY DEF EditWatch
  <2> HIDE DEF f
  <2> QED BY <2>1, ViewIsMk DEF Mk
<1>2. /\ f \in [Services -> [SessionIds -> Services \cup {None}]]
      /\ f[s][n] = x
      /\ \A t \in Services, m \in SessionIds :
            t # s \/ m # n => f[t][m] = v.watching[t][m]
  BY ViewTypes
<1> HIDE DEF f
<1>3. /\ u \in Views /\ u.watching = f
      /\ u.inbox = v.inbox /\ u.nsession = v.nsession
      /\ u.co = v.co /\ u.sessions = v.sessions
  BY <1>2, ViewTypes DEF Views, Mk
<1> HIDE DEF u
<1> QED BY <1>1, <1>2, <1>3

-----------------------------------------------------------------------------
(* The edits keep a Good view Good *)

\* A message that is sent: whatever was on its way still is, and the new one.
LEMMA SendFacts ==
    ASSUME NEW v \in Views, NEW to \in Services \cup {None}, NEW m \in Message
    PROVE  LET u == send(v, to, m) IN
           /\ u \in Views
           /\ u.nsession = v.nsession /\ u.co = v.co
           /\ u.sessions = v.sessions /\ u.watching = v.watching
           /\ \A s \in Services : \A i \in DOMAIN v.inbox[s] :
                i \in DOMAIN u.inbox[s] /\ u.inbox[s][i] = v.inbox[s][i]
           /\ \A s \in Services : \A i \in DOMAIN u.inbox[s] :
                \/ i \in DOMAIN v.inbox[s] /\ u.inbox[s][i] = v.inbox[s][i]
                \/ s = to /\ u.inbox[s][i] = m
           /\ to \notin gone \cup {None} => \E i \in DOMAIN u.inbox[to] : u.inbox[to][i] = m
<1>1. CASE to \in gone \cup {None}
  BY <1>1, Basics DEF send
<1>2. CASE to \notin gone \cup {None}
  <2> DEFINE x == Append(v.inbox[to], m)
             u == EditInbox(v, to, x)
  <2>1. to \in Services /\ v.inbox[to] \in Seq(Message)
    BY <1>2, ViewTypes
  <2>2. /\ x \in Seq(Message) /\ DOMAIN x = 1 .. Len(v.inbox[to]) + 1
        /\ x[Len(v.inbox[to]) + 1] = m
        /\ \A i \in 1 .. Len(v.inbox[to]) : x[i] = v.inbox[to][i]
    BY <2>1
  <2>3. send(v, to, m) = u
    BY <1>2 DEF send, EditInbox
  <2>4. /\ u \in Views /\ u.inbox[to] = x
        /\ \A s \in Services : s # to => u.inbox[s] = v.inbox[s]
        /\ u.nsession = v.nsession /\ u.co = v.co
        /\ u.sessions = v.sessions /\ u.watching = v.watching
    BY <2>1, <2>2, EditInboxFacts
  <2>5. DOMAIN v.inbox[to] = 1 .. Len(v.inbox[to]) /\ Len(v.inbox[to]) \in Nat
    BY <2>1
  <2>6. \A i \in DOMAIN v.inbox[to] : i \in DOMAIN x /\ x[i] = v.inbox[to][i]
    BY <2>2, <2>5
  <2>7. \A i \in DOMAIN x : (i \in DOMAIN v.inbox[to] /\ x[i] = v.inbox[to][i]) \/ x[i] = m
    BY <2>2, <2>5
  <2>8. \E i \in DOMAIN x : x[i] = m
    BY <2>2, <2>5
  <2> HIDE DEF x, u
  <2> QED BY <2>3, <2>4, <2>6, <2>7, <2>8
<1> QED BY <1>1, <1>2

LEMMA GoodSend ==
    ASSUME NEW v, NEW q, NEW r, Good(v, q, gone, r),
           NEW to \in Services \cup {None}, NEW m \in Message,
           m.type = "error" => m.from \in Services
    PROVE  Good(send(v, to, m), q, gone, r)
<1> DEFINE u == send(v, to, m)
<1>1. v \in Views
  BY DEF Good
<1>2. /\ u \in Views
      /\ u.nsession = v.nsession /\ u.co = v.co
      /\ u.sessions = v.sessions /\ u.watching = v.watching
  BY <1>1, SendFacts
<1>3. /\ \A s \in Services : \A i \in DOMAIN v.inbox[s] :
            i \in DOMAIN u.inbox[s] /\ u.inbox[s][i] = v.inbox[s][i]
      /\ \A s \in Services : \A i \in DOMAIN u.inbox[s] :
            \/ i \in DOMAIN v.inbox[s] /\ u.inbox[s][i] = v.inbox[s][i]
            \/ s = to /\ u.inbox[s][i] = m
  BY <1>1, SendFacts
<1> HIDE DEF u
<1>4. /\ Formed(u) /\ Distinct(u) /\ Entered(u, r) /\ Awaited(u, r)
      /\ Watched(u, q) /\ CallWatched(u, r)
  BY <1>2
  DEF Good, Formed, Distinct, Entered, Awaited, Watched, CallWatched
<1>5. Errors(u)
  <2> QED BY <1>3, Basics DEF Good, Errors
<1>6. Owed(u, q, gone, r)
  <2> SUFFICES ASSUME NEW k \in Cos, k # r, u.co[k].st = "waiting", u.co[k].kind = "call",
                      ~u.co[k].cut, u.co[k].srv \notin gone,
                      u.watching[u.co[k].srv][u.co[k].wait] \notin gone
               PROVE  OwedTo(u, q, r, u.co[k].srv, u.co[k].wait,
                                u.watching[u.co[k].srv][u.co[k].wait])
    BY DEF Owed
  <2> DEFINE s == v.co[k].srv
             n == v.co[k].wait
             d == v.watching[s][n]
  <2>1. OwedTo(v, q, r, s, n, d)
    BY <1>2 DEF Good, Owed
  <2>2. s \in Services /\ n \in SessionIds /\ d \in Services
    <3>1. s \in Services /\ n # 0 /\ n \in 0 .. MaxSession
      BY <1>1, <1>2, ViewTypes DEF Good, Formed, Coroutine
    <3> QED BY <1>1, <1>2, <3>1, Basics, ViewTypes DEF Good, CallWatched
  <2> HIDE DEF s, n, d
  <2>3. \A t \in Services : \A type, from, e : Transit(v, t, type, from, e) => Transit(u, t, type, from, e)
    BY <1>3 DEF Transit
  <2>4. \A j \in Cos : Serves(v, j, d, s, n, r) => Serves(u, j, d, s, n, r)
    BY <1>2 DEF Serves
  <2>5. OwedTo(u, q, r, s, n, d)
    BY <2>1, <2>2, <2>3, <2>4 DEF OwedTo
  <2> QED BY <1>2, <2>5 DEF s, n, d
<1> QED BY <1>2, <1>4, <1>5, <1>6 DEF Good, u

\* The names of a call that waits.
LEMMA CallerFacts ==
    ASSUME NEW v, NEW q, NEW r, Good(v, q, gone, r),
           NEW k \in Cos, k # r, v.co[k].st = "waiting", v.co[k].kind = "call"
    PROVE  /\ v.co[k].srv \in Services /\ v.co[k].wait \in SessionIds
           /\ v.watching[v.co[k].srv][v.co[k].wait] \in Services
<1>1. v \in Views
  BY DEF Good
<1>2. v.co[k].srv \in Services /\ v.co[k].wait # 0 /\ v.co[k].wait \in 0 .. MaxSession
  BY <1>1, ViewTypes DEF Good, Formed, Coroutine
<1> QED BY <1>1, <1>2, Basics, ViewTypes DEF Good, CallWatched

\* What is owed is read from the inboxes and the coroutines.
LEMMA SameOwed ==
    ASSUME NEW v, NEW u, NEW q, NEW r, u.inbox = v.inbox, u.co = v.co
    PROVE  \A s, n, d : OwedTo(v, q, r, s, n, d) <=> OwedTo(u, q, r, s, n, d)
<1>1. \A t, type, from, e : Transit(v, t, type, from, e) <=> Transit(u, t, type, from, e)
  BY DEF Transit
<1>2. \A i, d, t, n : Serves(v, i, d, t, n, r) <=> Serves(u, i, d, t, n, r)
  BY DEF Serves
<1> QED BY <1>1, <1>2 DEF OwedTo

\* A session is given out.
LEMMA GoodNs ==
    ASSUME NEW v, NEW q, NEW r, Good(v, q, gone, r),
           NEW s \in Services, v.nsession[s] <= MaxSession
    PROVE  Good(EditNs(v, s, v.nsession[s] + 1), q, gone, r)
<1> DEFINE u == EditNs(v, s, v.nsession[s] + 1)
<1>1. v \in Views
  BY DEF Good
<1>2. /\ v.nsession \in [Services -> 1 .. MaxSession + 1]
      /\ v.nsession[s] + 1 \in 1 .. MaxSession + 1
  BY <1>1, Basics, ViewTypes
<1>3. /\ u \in Views /\ u.nsession[s] = v.nsession[s] + 1
      /\ \A i \in Services : i # s => u.nsession[i] = v.nsession[i]
      /\ u.inbox = v.inbox /\ u.co = v.co
      /\ u.sessions = v.sessions /\ u.watching = v.watching
  BY <1>1, <1>2, EditNsFacts
<1> HIDE DEF u
<1>4. \A i \in Services : /\ u.nsession[i] \in Nat /\ v.nsession[i] \in Nat
                          /\ u.nsession[i] >= v.nsession[i]
  BY <1>2, <1>3, Basics
<1>5. \A k \in Cos : v.co[k].wait \in Nat /\ v.co[k].timer \in Nat
  BY <1>1, Basics, ViewTypes DEF Coroutine
<1>6. Formed(u)
  BY <1>3, <1>4, <1>5 DEF Good, Formed
<1>7. Entered(u, r) /\ Watched(u, q)
  BY <1>3, <1>4, Basics DEF Good, Entered, Watched
<1>8. Distinct(u) /\ Awaited(u, r) /\ CallWatched(u, r)
  BY <1>3 DEF Good, Distinct, Awaited, CallWatched
<1>9. Errors(u)
  BY <1>3 DEF Good, Errors
<1>10. Owed(u, q, gone, r)
  <2>1. \A t, n, d : OwedTo(v, q, r, t, n, d) <=> OwedTo(u, q, r, t, n, d)
    BY <1>3, SameOwed
  <2> QED BY <1>3, <2>1 DEF Good, Owed
<1> QED BY <1>3, <1>6, <1>7, <1>8, <1>9, <1>10 DEF Good, u

(* The record of a coroutine that runs, or that was cut off and waits for  *)
(* nothing a message can bring: no entry of it is watched.                 *)
Loose(v, j, r) ==
    \/ j = r
    \/ v.co[j].cut /\ ~(v.co[j].st = "waiting" /\ v.co[j].kind = "call")

Answered(v, c) ==
    \/ c.session = 0 \/ c.from \in gone \cup {None}
    \/ Transit(v, c.from, "response", c.srv, c.session)
    \/ Transit(v, c.from, "error", c.srv, c.session)

SameIdentity(b, c) ==
    /\ c.srv = b.srv /\ c.from = b.from /\ c.session = b.session /\ c.timer = b.timer

\* A session no coroutine of s but j holds.
Unheld(v, s, j, n) ==
    \A i \in Cos : i # j /\ v.co[i].srv = s => v.co[i].wait # n /\ v.co[i].timer # n

LEMMA GoodRunEdit ==
    ASSUME NEW v, NEW q, NEW r, Good(v, q, gone, r),
           NEW j \in Cos, NEW c \in Coroutine,
           v.co[j].st # "unused", Loose(v, j, r), SameIdentity(v.co[j], c),
           c.st # "unused", j = r \/ (c.cut /\ c.st # "waiting"),
           c.st = "waiting" => c.wait # 0,
           c.wait # v.co[j].wait =>
               c.wait < v.nsession[c.srv] /\ Unheld(v, c.srv, j, c.wait),
           v.co[j].cut => c.cut,
           c.done => v.co[j].done \/ Answered(v, c),
           v.co[j].done => c.done
    PROVE  Good(EditCo(v, j, c), q, gone, r)
<1> DEFINE u == EditCo(v, j, c)
<1>1. v \in Views
  BY DEF Good
<1>2. /\ u \in Views /\ u.co[j] = c /\ \A i \in Cos : i # j => u.co[i] = v.co[i]
      /\ u.inbox = v.inbox /\ u.nsession = v.nsession
      /\ u.sessions = v.sessions /\ u.watching = v.watching
  BY <1>1, EditCoFacts
<1> HIDE DEF u
<1>3. \A i \in Cos : SameIdentity(v.co[i], u.co[i])
  BY <1>2 DEF SameIdentity
<1>4. Formed(u)
  BY <1>2 DEF Good, Formed, SameIdentity
<1>5. Distinct(u)
  BY <1>2 DEF Good, Distinct, SameIdentity, Unheld
<1>6. v.sessions \in [Services -> [SessionIds -> Cos \cup {NoCo}]]
  BY <1>1, ViewTypes
<1>7. Entered(u, r)
  <2> SUFFICES ASSUME NEW s \in Services, NEW n \in SessionIds, v.sessions[s][n] # NoCo
               PROVE  LET k == v.sessions[s][n] IN
                      /\ k # r /\ n < v.nsession[s] /\ u.co[k].srv = s
                      /\ u.co[k].cut \/ (u.co[k].st = "waiting" /\ u.co[k].wait = n)
                      /\ \A m \in SessionIds : v.sessions[s][m] = k => m = n
    BY <1>2 DEF Entered
  <2> DEFINE k == v.sessions[s][n]
  <2>1. /\ k # r /\ n < v.nsession[s] /\ v.co[k].srv = s
        /\ v.co[k].cut \/ (v.co[k].st = "waiting" /\ v.co[k].wait = n)
        /\ \A m \in SessionIds : v.sessions[s][m] = k => m = n
    BY DEF Good, Entered
  <2>2. k \in Cos
    BY <1>6
  <2>3. CASE k = j
    BY <1>2, <1>3, <2>1, <2>2, <2>3 DEF SameIdentity
  <2>4. CASE k # j
    BY <1>2, <2>1, <2>2, <2>4
  <2> QED BY <2>3, <2>4
<1>8. Awaited(u, r)
  BY <1>2 DEF Good, Awaited
<1>9. Watched(u, q)
  <2> SUFFICES ASSUME NEW s \in Services, NEW n \in SessionIds,
                      v.watching[s][n] # None \/ InQueue(q, s, n)
               PROVE  /\ n < v.nsession[s]
                      /\ \A k \in Cos : u.co[k].srv = s => u.co[k].timer # n
                      /\ LET k == v.sessions[s][n] IN
                         k # NoCo => u.co[k].st = "waiting" /\ u.co[k].wait = n
                                     /\ u.co[k].kind = "call"
    BY <1>2 DEF Watched
  <2>1. n < v.nsession[s] /\ \A k \in Cos : v.co[k].srv = s => v.co[k].timer # n
    BY DEF Good, Watched
  <2> DEFINE k == v.sessions[s][n]
  <2>2. ASSUME k # NoCo
        PROVE  u.co[k].st = "waiting" /\ u.co[k].wait = n /\ u.co[k].kind = "call"
    <3>1. /\ k # r /\ v.co[k].st = "waiting" /\ v.co[k].wait = n
          /\ v.co[k].kind = "call" /\ k \in Cos
      BY <1>6, <2>2 DEF Good, Watched, Entered
    <3>2. k # j
      BY <3>1 DEF Loose
    <3> QED BY <1>2, <3>1, <3>2
  <2> QED BY <1>3, <2>1, <2>2 DEF SameIdentity
<1>10. CallWatched(u, r)
  BY <1>2 DEF Good, CallWatched
<1>12. Errors(u)
  BY <1>2 DEF Good, Errors
<1>13. Owed(u, q, gone, r)
  <2> SUFFICES ASSUME NEW k \in Cos, k # r, u.co[k].st = "waiting", u.co[k].kind = "call",
                      ~u.co[k].cut, u.co[k].srv \notin gone,
                      u.watching[u.co[k].srv][u.co[k].wait] \notin gone
               PROVE  OwedTo(u, q, r, u.co[k].srv, u.co[k].wait,
                                u.watching[u.co[k].srv][u.co[k].wait])
    BY DEF Owed
  <2>1. k # j /\ u.co[k] = v.co[k]
    BY <1>2
  <2> DEFINE s == v.co[k].srv
             n == v.co[k].wait
             d == v.watching[s][n]
  <2>2. OwedTo(v, q, r, s, n, d) /\ s \notin gone
    BY <1>2, <2>1 DEF Good, Owed
  <2>3. s \in Services /\ n \in SessionIds /\ d \in Services
    BY <2>1, CallerFacts
  <2> HIDE DEF s, n, d
  <2>4. \A t, type, from, e : Transit(v, t, type, from, e) => Transit(u, t, type, from, e)
    BY <1>2 DEF Transit
  <2>5. \A i \in Cos : i # j /\ Serves(v, i, d, s, n, r) => Serves(u, i, d, s, n, r)
    BY <1>2 DEF Serves
  <2>6. ASSUME Serves(v, j, d, s, n, r) PROVE OwedTo(u, q, r, s, n, d)
    <3>1. CASE c.done
      <4>1. Answered(v, c)
        BY <2>6, <3>1 DEF Serves
      <4>2. c.from = s /\ c.srv = d /\ c.session = n
        BY <2>6 DEF Serves, SameIdentity
      <4> QED BY <2>2, <2>3, <2>4, <4>1, <4>2, Basics DEF Answered, OwedTo
    <3>2. CASE ~c.done
      <4>1. Serves(u, j, d, s, n, r)
        BY <1>2, <2>6, <3>2 DEF Serves, SameIdentity
      <4> QED BY <4>1 DEF OwedTo
    <3> QED BY <3>1, <3>2
  <2>7. OwedTo(u, q, r, s, n, d)
    BY <2>2, <2>4, <2>5, <2>6 DEF OwedTo
  <2> QED BY <1>2, <2>1, <2>7 DEF s, n, d
<1> QED BY <1>2, <1>4, <1>5, <1>7, <1>8, <1>9, <1>10, <1>12, <1>13 DEF Good, u

\* z.call watches a session that is new.
LEMMA GoodWatch ==
    ASSUME NEW v, NEW q, NEW r, Good(v, q, gone, r),
           NEW s \in Services, NEW n \in SessionIds, NEW d \in Services,
           n < v.nsession[s], v.sessions[s][n] = NoCo, v.watching[s][n] = None,
           \A k \in Cos : v.co[k].srv = s => v.co[k].timer # n
    PROVE  Good(EditWatch(v, s, n, d), q, gone, r)
<1> DEFINE u == EditWatch(v, s, n, d)
<1>1. v \in Views
  BY DEF Good
<1>2. /\ u \in Views /\ u.watching[s][n] = d
      /\ \A t \in Services, m \in SessionIds :
            t # s \/ m # n => u.watching[t][m] = v.watching[t][m]
      /\ u.inbox = v.inbox /\ u.nsession = v.nsession
      /\ u.co = v.co /\ u.sessions = v.sessions
  BY <1>1, EditWatchFacts
<1> HIDE DEF u
<1>3. Formed(u) /\ Distinct(u) /\ Entered(u, r) /\ Awaited(u, r)
  BY <1>2 DEF Good, Formed, Distinct, Entered, Awaited
<1>4. Errors(u)
  BY <1>2 DEF Good, Errors
<1>5. Watched(u, q)
  BY <1>2 DEF Good, Watched
<1>6. \A k \in Cos : k # r /\ v.co[k].st = "waiting" /\ v.co[k].kind = "call" =>
        u.watching[v.co[k].srv][v.co[k].wait] = v.watching[v.co[k].srv][v.co[k].wait]
  <2> SUFFICES ASSUME NEW k \in Cos, k # r, v.co[k].st = "waiting", v.co[k].kind = "call"
               PROVE  u.watching[v.co[k].srv][v.co[k].wait] = v.watching[v.co[k].srv][v.co[k].wait]
    OBVIOUS
  <2>1. /\ v.co[k].srv \in Services /\ v.co[k].wait \in SessionIds
        /\ v.watching[v.co[k].srv][v.co[k].wait] \in Services
    BY CallerFacts
  <2> QED BY <1>2, <2>1, Basics
<1>7. CallWatched(u, r)
  BY <1>2, <1>6 DEF Good, CallWatched
<1>8. Owed(u, q, gone, r)
  <2>1. \A t, m, e : OwedTo(v, q, r, t, m, e) <=> OwedTo(u, q, r, t, m, e)
    BY <1>2, SameOwed
  <2> QED BY <1>2, <1>6, <2>1 DEF Good, Owed
<1> QED BY <1>2, <1>3, <1>4, <1>5, <1>7, <1>8 DEF Good, u

\* The answer of the running coroutine's call is no longer watched.
LEMMA GoodUnwatch ==
    ASSUME NEW v, NEW q, NEW r \in Cos, Good(v, q, gone, r),
           NEW s \in Services, NEW n \in SessionIds,
           v.co[r].srv = s, v.co[r].wait = n
    PROVE  Good(EditWatch(v, s, n, None), q, gone, r)
<1> DEFINE u == EditWatch(v, s, n, None)
<1>1. v \in Views
  BY DEF Good
<1>2. /\ u \in Views /\ u.watching[s][n] = None
      /\ \A t \in Services, m \in SessionIds :
            t # s \/ m # n => u.watching[t][m] = v.watching[t][m]
      /\ u.inbox = v.inbox /\ u.nsession = v.nsession
      /\ u.co = v.co /\ u.sessions = v.sessions
  BY <1>1, EditWatchFacts
<1> HIDE DEF u
<1>3. Formed(u) /\ Distinct(u) /\ Entered(u, r) /\ Awaited(u, r)
  BY <1>2 DEF Good, Formed, Distinct, Entered, Awaited
<1>4. Errors(u)
  BY <1>2 DEF Good, Errors
<1>5. Watched(u, q)
  BY <1>2 DEF Good, Watched
<1>6. \A k \in Cos : k # r /\ v.co[k].st = "waiting" /\ v.co[k].kind = "call" =>
        u.watching[v.co[k].srv][v.co[k].wait] = v.watching[v.co[k].srv][v.co[k].wait]
  <2> SUFFICES ASSUME NEW k \in Cos, k # r, v.co[k].st = "waiting", v.co[k].kind = "call"
               PROVE  u.watching[v.co[k].srv][v.co[k].wait] = v.watching[v.co[k].srv][v.co[k].wait]
    OBVIOUS
  <2>1. v.co[k].srv \in Services /\ v.co[k].wait \in SessionIds
    BY CallerFacts
  <2>2. v.co[k].srv # s \/ v.co[k].wait # n
    BY <2>1, Basics DEF Good, Distinct
  <2> QED BY <1>2, <2>1, <2>2
<1>7. CallWatched(u, r)
  BY <1>2, <1>6 DEF Good, CallWatched
<1>8. Owed(u, q, gone, r)
  <2>1. \A t, m, e : OwedTo(v, q, r, t, m, e) <=> OwedTo(u, q, r, t, m, e)
    BY <1>2, SameOwed
  <2> QED BY <1>2, <1>6, <2>1 DEF Good, Owed
<1> QED BY <1>2, <1>3, <1>4, <1>5, <1>7, <1>8 DEF Good, u

\* The running coroutine stops for good.
LEMMA GoodStop ==
    ASSUME NEW v, NEW q, NEW r \in Cos, Good(v, q, gone, r),
           v.co[r].st # "waiting",
           \/ v.co[r].st \in {"ended", "lost"} \/ v.co[r].cut \/ v.co[r].done
           \/ v.co[r].from = None \/ v.co[r].session = 0
    PROVE  Good(v, q, gone, NoCo)
<1>1. v \in Views
  BY DEF Good
<1>2. Entered(v, NoCo) /\ Awaited(v, NoCo) /\ CallWatched(v, NoCo)
  BY DEF Good, Entered, Awaited, CallWatched
<1>3. Owed(v, q, gone, NoCo)
  <2> SUFFICES ASSUME NEW k \in Cos, v.co[k].st = "waiting", v.co[k].kind = "call",
                      ~v.co[k].cut, v.co[k].srv \notin gone,
                      v.watching[v.co[k].srv][v.co[k].wait] \notin gone
               PROVE  OwedTo(v, q, NoCo, v.co[k].srv, v.co[k].wait,
                                v.watching[v.co[k].srv][v.co[k].wait])
    BY DEF Owed
  <2> DEFINE s == v.co[k].srv
             n == v.co[k].wait
             d == v.watching[s][n]
  <2>1. OwedTo(v, q, r, s, n, d)
    BY DEF Good, Owed
  <2>2. s \in Services /\ n \in SessionIds
    BY CallerFacts
  <2> HIDE DEF s, n, d
  <2>3. \A j \in Cos : Serves(v, j, d, s, n, r) => Serves(v, j, d, s, n, NoCo)
    BY <2>2, Basics DEF Serves
  <2>4. OwedTo(v, q, NoCo, s, n, d)
    BY <2>1, <2>3 DEF OwedTo
  <2> QED BY <2>4 DEF s, n, d
<1> QED BY <1>2, <1>3 DEF Good

(* The running coroutine is suspended under the session n, which it holds: *)
(* it gets its entry and waits.                                            *)
LEMMA GoodSuspend ==
    ASSUME NEW v, NEW q, NEW r \in Cos, Good(v, q, gone, r),
           NEW s \in Services, NEW n \in SessionIds, NEW c \in Coroutine,
           v.co[r].st # "unused", v.co[r].srv = s,
           n = v.co[r].wait \/ n = v.co[r].timer,
           SameIdentity(v.co[r], c), c.st = "waiting", c.wait = n,
           c.cut = v.co[r].cut, c.done = v.co[r].done,
           c.kind = "call" => /\ v.watching[s][n] # None
                              /\ OwedTo(v, q, r, s, n, v.watching[s][n]),
           c.kind # "call" => v.watching[s][n] = None /\ ~InQueue(q, s, n)
    PROVE  Good(EditCo(EditEntry(v, s, n, r), r, c), q, gone, NoCo)
<1> DEFINE w == EditEntry(v, s, n, r)
           u == EditCo(w, r, c)
<1>1. v \in Views
  BY DEF Good
<1>2. /\ w \in Views /\ w.sessions[s][n] = r
      /\ \A t \in Services, m \in SessionIds :
            t # s \/ m # n => w.sessions[t][m] = v.sessions[t][m]
      /\ w.inbox = v.inbox /\ w.nsession = v.nsession
      /\ w.co = v.co /\ w.watching = v.watching
  BY <1>1, EditEntryFacts
<1> HIDE DEF w
<1>3. /\ u \in Views /\ u.co[r] = c /\ \A i \in Cos : i # r => u.co[i] = v.co[i]
      /\ u.inbox = v.inbox /\ u.nsession = v.nsession
      /\ u.sessions = w.sessions /\ u.watching = v.watching
  BY <1>2, EditCoFacts
<1> HIDE DEF u
<1>4. /\ n # 0 /\ n < v.nsession[s]
      /\ \A i \in Cos : i # r /\ v.co[i].srv = s => v.co[i].wait # n /\ v.co[i].timer # n
  BY Basics DEF Good, Formed, Distinct
<1>5. \A i \in Cos : SameIdentity(v.co[i], u.co[i])
  BY <1>3 DEF SameIdentity
<1>6. Formed(u)
  BY <1>3, <1>4 DEF Good, Formed, SameIdentity
<1>7. Distinct(u)
  BY <1>3, <1>4 DEF Good, Distinct, SameIdentity
<1>8. v.sessions \in [Services -> [SessionIds -> Cos \cup {NoCo}]]
  BY <1>1, ViewTypes
<1>9. \A t \in Services, m \in SessionIds :
        t # s \/ m # n => u.sessions[t][m] = v.sessions[t][m] /\ v.sessions[t][m] # r
  BY <1>2, <1>3, Basics DEF Good, Entered
<1>10. u.sessions[s][n] = r
  BY <1>2, <1>3
<1>11. Entered(u, NoCo)
  <2> SUFFICES ASSUME NEW t \in Services, NEW m \in SessionIds, u.sessions[t][m] # NoCo
               PROVE  LET k == u.sessions[t][m] IN
                      /\ m < v.nsession[t] /\ u.co[k].srv = t
                      /\ u.co[k].cut \/ (u.co[k].st = "waiting" /\ u.co[k].wait = m)
                      /\ \A l \in SessionIds : u.sessions[t][l] = k => l = m
    BY <1>3 DEF Entered
  <2>1. CASE t = s /\ m = n
    BY <1>3, <1>4, <1>9, <1>10, <2>1 DEF SameIdentity
  <2>2. CASE t # s \/ m # n
    <3>1. u.sessions[t][m] = v.sessions[t][m] /\ v.sessions[t][m] # r
      BY <1>9, <2>2
    <3>2. u.co[v.sessions[t][m]] = v.co[v.sessions[t][m]]
      BY <1>3, <1>8, <3>1
    <3>3. \A l \in SessionIds : u.sessions[t][l] = v.sessions[t][m] => l = m
      BY <1>9, <1>10, <3>1 DEF Good, Entered
    <3> QED BY <3>1, <3>2, <3>3 DEF Good, Entered
  <2> QED BY <2>1, <2>2
<1>12. Awaited(u, NoCo)
  <2> SUFFICES ASSUME NEW k \in Cos, u.co[k].st = "waiting"
               PROVE  u.sessions[u.co[k].srv][u.co[k].wait] = k
    BY DEF Awaited
  <2>1. CASE k = r
    BY <1>3, <1>10, <2>1 DEF SameIdentity
  <2>2. CASE k # r
    <3>1. u.co[k] = v.co[k] /\ v.sessions[v.co[k].srv][v.co[k].wait] = k
      BY <1>3, <2>2 DEF Good, Awaited
    <3>2. v.co[k].srv \in Services /\ v.co[k].wait \in SessionIds
      BY <1>1, <3>1, Basics, ViewTypes DEF Good, Formed, Coroutine
    <3>3. v.co[k].srv # s \/ v.co[k].wait # n
      BY <1>4, <2>2
    <3> QED BY <1>9, <3>1, <3>2, <3>3
  <2> QED BY <2>1, <2>2
<1>13. Watched(u, q)
  <2> SUFFICES ASSUME NEW t \in Services, NEW m \in SessionIds,
                      v.watching[t][m] # None \/ InQueue(q, t, m)
               PROVE  /\ m < v.nsession[t]
                      /\ \A k \in Cos : u.co[k].srv = t => u.co[k].timer # m
                      /\ LET k == u.sessions[t][m] IN
                         k # NoCo => u.co[k].st = "waiting" /\ u.co[k].wait = m
                                     /\ u.co[k].kind = "call"
    BY <1>3 DEF Watched
  <2>1. m < v.nsession[t] /\ \A k \in Cos : v.co[k].srv = t => v.co[k].timer # m
    BY DEF Good, Watched
  <2>2. \A k \in Cos : u.co[k].srv = t => u.co[k].timer # m
    BY <1>5, <2>1 DEF SameIdentity
  <2>3. CASE t = s /\ m = n
    BY <1>3, <1>10, <2>1, <2>2, <2>3
  <2>4. CASE t # s \/ m # n
    <3>1. u.sessions[t][m] = v.sessions[t][m] /\ v.sessions[t][m] # r
      BY <1>9, <2>4
    <3>2. v.sessions[t][m] # NoCo => u.co[v.sessions[t][m]] = v.co[v.sessions[t][m]]
      BY <1>3, <1>8, <3>1
    <3> QED BY <2>1, <2>2, <3>1, <3>2 DEF Good, Watched
  <2> QED BY <2>3, <2>4
<1>14. CallWatched(u, NoCo)
  BY <1>3 DEF Good, CallWatched, SameIdentity
<1>16. Errors(u)
  BY <1>3 DEF Good, Errors
<1>17. \A t, m, d : OwedTo(v, q, r, t, m, d) => OwedTo(u, q, NoCo, t, m, d)
  <2>1. \A t, type, from, e : Transit(v, t, type, from, e) => Transit(u, t, type, from, e)
    BY <1>3 DEF Transit
  <2>2. \A j \in Cos : \A d, t, m : Serves(v, j, d, t, m, r) => Serves(u, j, d, t, m, NoCo)
    BY <1>3 DEF Serves, SameIdentity
  <2> QED BY <2>1, <2>2 DEF OwedTo
<1>18. Owed(u, q, gone, NoCo)
  <2> SUFFICES ASSUME NEW k \in Cos, u.co[k].st = "waiting", u.co[k].kind = "call",
                      ~u.co[k].cut, u.co[k].srv \notin gone,
                      v.watching[u.co[k].srv][u.co[k].wait] \notin gone
               PROVE  OwedTo(v, q, r, u.co[k].srv, u.co[k].wait,
                                v.watching[u.co[k].srv][u.co[k].wait])
    BY <1>3, <1>17 DEF Owed
  <2> QED BY <1>3 DEF Good, Owed, SameIdentity
<1> QED BY <1>3, <1>6, <1>7, <1>11, <1>12, <1>13, <1>14, <1>16, <1>18 DEF Good, u, w

\* A coroutine is cut off: less is said of it, and it stays answerable.
LEMMA GoodCut ==
    ASSUME NEW v, NEW q, NEW r, Good(v, q, gone, r), NEW j \in Cos, NEW c \in Coroutine,
           SameIdentity(v.co[j], c), c.st = v.co[j].st, c.wait = v.co[j].wait,
           c.kind = v.co[j].kind, c.done = v.co[j].done, c.cut
    PROVE  Good(EditCo(v, j, c), q, gone, r)
<1> DEFINE u == EditCo(v, j, c)
<1>1. v \in Views
  BY DEF Good
<1>2. /\ u \in Views /\ u.co[j] = c /\ \A i \in Cos : i # j => u.co[i] = v.co[i]
      /\ u.inbox = v.inbox /\ u.nsession = v.nsession
      /\ u.sessions = v.sessions /\ u.watching = v.watching
  BY <1>1, EditCoFacts
<1> HIDE DEF u
<1>3. \A i \in Cos : /\ u.co[i].srv = v.co[i].srv /\ u.co[i].from = v.co[i].from
                     /\ u.co[i].session = v.co[i].session /\ u.co[i].timer = v.co[i].timer
                     /\ u.co[i].st = v.co[i].st /\ u.co[i].wait = v.co[i].wait
                     /\ u.co[i].kind = v.co[i].kind /\ u.co[i].done = v.co[i].done
                     /\ v.co[i].cut => u.co[i].cut
  BY <1>2 DEF SameIdentity
<1>4. \A s \in Services, n \in SessionIds : v.sessions[s][n] \in Cos \cup {NoCo}
  BY <1>1, ViewTypes
<1>5. Formed(u) /\ Distinct(u)
  BY <1>2, <1>3 DEF Good, Formed, Distinct
<1>6. Entered(u, r) /\ Awaited(u, r)
  BY <1>2, <1>3, <1>4 DEF Good, Entered, Awaited
<1>7. Watched(u, q) /\ CallWatched(u, r)
  <2>1. CallWatched(u, r)
    BY <1>2, <1>3 DEF Good, CallWatched
  <2>2. Watched(u, q)
    BY <1>2, <1>3, <1>4 DEF Good, Watched
  <2> QED BY <2>1, <2>2
<1>9. Errors(u)
  BY <1>2 DEF Good, Errors
<1>10. \A t, m, d : OwedTo(v, q, r, t, m, d) => OwedTo(u, q, r, t, m, d)
  <2>1. \A t, type, from, e : Transit(v, t, type, from, e) => Transit(u, t, type, from, e)
    BY <1>2 DEF Transit
  <2>2. \A i \in Cos : \A d, t, m : Serves(v, i, d, t, m, r) => Serves(u, i, d, t, m, r)
    BY <1>3 DEF Serves
  <2> QED BY <2>1, <2>2 DEF OwedTo
<1>11. Owed(u, q, gone, r)
  BY <1>2, <1>3, <1>10 DEF Good, Owed
<1> QED BY <1>2, <1>5, <1>6, <1>7, <1>9, <1>11 DEF Good, u

\* A coroutine is made for the timer n, a session that was just given out.
LEMMA GoodTimer ==
    ASSUME NEW v, NEW q, NEW r, Good(v, q, gone, r),
           NEW s \in Services, NEW n \in SessionIds, NEW j \in Cos, NEW c \in Coroutine,
           n < v.nsession[s], Unheld(v, s, NoCo, n), v.sessions[s][n] = NoCo,
           v.watching[s][n] = None, ~InQueue(q, s, n),
           j # r, v.co[j].st = "unused", c.st = "waiting", c.srv = s, c.from = None,
           c.wait = n, c.timer = n, c.kind = "timer"
    PROVE  Good(EditCo(EditEntry(v, s, n, j), j, c), q, gone, r)
<1> DEFINE w == EditEntry(v, s, n, j)
           u == EditCo(w, j, c)
<1>1. v \in Views
  BY DEF Good
<1>2. /\ w \in Views /\ w.sessions[s][n] = j
      /\ \A t \in Services, m \in SessionIds :
            t # s \/ m # n => w.sessions[t][m] = v.sessions[t][m]
      /\ w.inbox = v.inbox /\ w.nsession = v.nsession
      /\ w.co = v.co /\ w.watching = v.watching
  BY <1>1, EditEntryFacts
<1> HIDE DEF w
<1>3. /\ u \in Views /\ u.co[j] = c /\ \A i \in Cos : i # j => u.co[i] = v.co[i]
      /\ u.inbox = v.inbox /\ u.nsession = v.nsession
      /\ u.sessions = w.sessions /\ u.watching = v.watching
  BY <1>2, EditCoFacts
<1> HIDE DEF u
<1>4. /\ v.co[j].srv = None
      /\ \A i \in Cos : v.co[i].srv = s => v.co[i].wait # n /\ v.co[i].timer # n
  BY Basics DEF Good, Formed, Unheld
<1>5. v.sessions \in [Services -> [SessionIds -> Cos \cup {NoCo}]]
  BY <1>1, ViewTypes
<1>6. \A t \in Services, m \in SessionIds : v.sessions[t][m] # j
  BY <1>4, Basics DEF Good, Entered
<1>7. /\ u.sessions[s][n] = j
      /\ \A t \in Services, m \in SessionIds :
            t # s \/ m # n => u.sessions[t][m] = v.sessions[t][m]
  BY <1>2, <1>3
<1>8. \A t \in Services, m \in SessionIds :
        v.sessions[t][m] # NoCo => u.co[v.sessions[t][m]] = v.co[v.sessions[t][m]]
  BY <1>3, <1>5, <1>6
<1>9. Formed(u)
  BY <1>3, Basics DEF Good, Formed
<1>10. Distinct(u)
  BY <1>3, <1>4 DEF Good, Distinct
<1>11. Entered(u, r)
  <2> SUFFICES ASSUME NEW t \in Services, NEW m \in SessionIds, u.sessions[t][m] # NoCo
               PROVE  LET k == u.sessions[t][m] IN
                      /\ k # r /\ m < v.nsession[t] /\ u.co[k].srv = t
                      /\ u.co[k].cut \/ (u.co[k].st = "waiting" /\ u.co[k].wait = m)
                      /\ \A l \in SessionIds : u.sessions[t][l] = k => l = m
    BY <1>3 DEF Entered
  <2>1. CASE t = s /\ m = n
    BY <1>3, <1>6, <1>7, <2>1
  <2>2. CASE t # s \/ m # n
    <3>1. u.sessions[t][m] = v.sessions[t][m] /\ v.sessions[t][m] # j
      BY <1>6, <1>7, <2>2
    <3>2. \A l \in SessionIds : u.sessions[t][l] = v.sessions[t][m] => l = m
      BY <1>7, <3>1 DEF Good, Entered
    <3> QED BY <1>8, <3>1, <3>2 DEF Good, Entered
  <2> QED BY <2>1, <2>2
<1>12. Awaited(u, r)
  <2> SUFFICES ASSUME NEW k \in Cos, k # r, u.co[k].st = "waiting"
               PROVE  u.sessions[u.co[k].srv][u.co[k].wait] = k
    BY DEF Awaited
  <2>1. CASE k = j
    BY <1>3, <1>7, <2>1
  <2>2. CASE k # j
    <3>1. u.co[k] = v.co[k] /\ v.sessions[v.co[k].srv][v.co[k].wait] = k
      BY <1>3, <2>2 DEF Good, Awaited
    <3>2. v.co[k].srv \in Services /\ v.co[k].wait \in SessionIds
      BY <1>1, <3>1, Basics, ViewTypes DEF Good, Formed, Coroutine
    <3> QED BY <1>4, <1>7, <3>1, <3>2
  <2> QED BY <2>1, <2>2
<1>13. Watched(u, q)
  <2> SUFFICES ASSUME NEW t \in Services, NEW m \in SessionIds,
                      v.watching[t][m] # None \/ InQueue(q, t, m)
               PROVE  /\ m < v.nsession[t]
                      /\ \A k \in Cos : u.co[k].srv = t => u.co[k].timer # m
                      /\ LET k == u.sessions[t][m] IN
                         k # NoCo => u.co[k].st = "waiting" /\ u.co[k].wait = m
                                     /\ u.co[k].kind = "call"
    BY <1>3 DEF Watched
  <2>1. t # s \/ m # n
    OBVIOUS
  <2>2. m < v.nsession[t] /\ \A k \in Cos : v.co[k].srv = t => v.co[k].timer # m
    BY DEF Good, Watched
  <2>3. \A k \in Cos : u.co[k].srv = t => u.co[k].timer # m
    BY <1>3, <2>1, <2>2
  <2>4. u.sessions[t][m] = v.sessions[t][m]
    BY <1>7, <2>1
  <2> QED BY <1>8, <2>2, <2>3, <2>4 DEF Good, Watched
<1>14. CallWatched(u, r)
  BY <1>3 DEF Good, CallWatched
<1>16. Errors(u)
  BY <1>3 DEF Good, Errors
<1>17. Owed(u, q, gone, r)
  <2>1. \A t, type, from, e : Transit(v, t, type, from, e) => Transit(u, t, type, from, e)
    BY <1>3 DEF Transit
  <2>2. \A k \in Cos : \A t, m : \A d \in Services : Serves(v, k, d, t, m, r) => Serves(u, k, d, t, m, r)
    BY <1>3, <1>4, Basics DEF Serves
  <2>3. \A t, m : \A d \in Services : OwedTo(v, q, r, t, m, d) => OwedTo(u, q, r, t, m, d)
    BY <2>1, <2>2 DEF OwedTo
  <2> SUFFICES ASSUME NEW k \in Cos, k # r, u.co[k].st = "waiting", u.co[k].kind = "call",
                      ~u.co[k].cut, u.co[k].srv \notin gone,
                      u.watching[u.co[k].srv][u.co[k].wait] \notin gone
               PROVE  OwedTo(u, q, r, u.co[k].srv, u.co[k].wait,
                                u.watching[u.co[k].srv][u.co[k].wait])
    BY DEF Owed
  <2>4. k # j /\ u.co[k] = v.co[k]
    BY <1>3
  <2>5. v.watching[v.co[k].srv][v.co[k].wait] \in Services
    BY <2>4, CallerFacts
  <2>6. OwedTo(v, q, r, v.co[k].srv, v.co[k].wait, v.watching[v.co[k].srv][v.co[k].wait])
    BY <1>3, <2>4 DEF Good, Owed
  <2> QED BY <1>3, <2>3, <2>4, <2>5, <2>6
<1> QED BY <1>3, <1>9, <1>10, <1>11, <1>12, <1>13, <1>14, <1>16, <1>17 DEF Good, u, w

-----------------------------------------------------------------------------
(* A message is taken *)

LEMMA TailFacts ==
    ASSUME NEW v \in Views, NEW s \in Services, v.inbox[s] # << >>
    PROVE  LET u == EditInbox(v, s, Tail(v.inbox[s])) IN
           /\ u \in Views
           /\ u.nsession = v.nsession /\ u.co = v.co
           /\ u.sessions = v.sessions /\ u.watching = v.watching
           /\ Head(v.inbox[s]) \in Message
           /\ \E i \in DOMAIN v.inbox[s] : v.inbox[s][i] = Head(v.inbox[s])
           /\ \A t \in Services : \A i \in DOMAIN u.inbox[t] :
                \E j \in DOMAIN v.inbox[t] : v.inbox[t][j] = u.inbox[t][i]
           /\ \A t \in Services : \A i \in DOMAIN v.inbox[t] :
                \/ t = s /\ v.inbox[t][i] = Head(v.inbox[s])
                \/ \E j \in DOMAIN u.inbox[t] : u.inbox[t][j] = v.inbox[t][i]
<1> DEFINE x == v.inbox[s]
           y == Tail(x)
           u == EditInbox(v, s, y)
<1>1. x \in Seq(Message) /\ x # << >>
  BY ViewTypes
<1>2. /\ Head(x) \in Message /\ Head(x) = x[1] /\ Len(x) \in Nat /\ Len(x) >= 1
      /\ DOMAIN x = 1 .. Len(x)
      /\ y \in Seq(Message) /\ Len(y) = Len(x) - 1
      /\ \A i \in 1 .. Len(y) : y[i] = x[i + 1]
  BY <1>1, HeadTailProperties, LenProperties
<1>3. DOMAIN y = 1 .. Len(y)
  BY <1>2, LenProperties
<1>4. \A i \in DOMAIN y : \E j \in DOMAIN x : x[j] = y[i]
  BY <1>2, <1>3
<1>5. \A i \in DOMAIN x : x[i] = Head(x) \/ \E j \in DOMAIN y : y[j] = x[i]
  <2> TAKE i \in DOMAIN x
  <2>1. CASE i = 1
    BY <1>2, <2>1
  <2>2. CASE i # 1
    <3>1. i - 1 \in DOMAIN y /\ y[i - 1] = x[i]
      BY <1>2, <1>3, <2>2
    <3> QED BY <3>1
  <2> QED BY <2>1, <2>2
<1>6. \E i \in DOMAIN x : x[i] = Head(x)
  BY <1>2
<1> HIDE DEF y
<1>7. /\ u \in Views /\ u.inbox[s] = y
      /\ \A t \in Services : t # s => u.inbox[t] = v.inbox[t]
      /\ u.nsession = v.nsession /\ u.co = v.co
      /\ u.sessions = v.sessions /\ u.watching = v.watching
  BY <1>2, EditInboxFacts
<1> HIDE DEF u
<1>8. \A t \in Services : \A i \in DOMAIN u.inbox[t] :
        \E j \in DOMAIN v.inbox[t] : v.inbox[t][j] = u.inbox[t][i]
  BY <1>4, <1>7
<1>9. \A t \in Services : \A i \in DOMAIN v.inbox[t] :
        \/ t = s /\ v.inbox[t][i] = Head(x)
        \/ \E j \in DOMAIN u.inbox[t] : u.inbox[t][j] = v.inbox[t][i]
  BY <1>5, <1>7
<1> QED BY <1>2, <1>6, <1>7, <1>8, <1>9 DEF u, y

\* What the head m of the inbox of s brings is not needed: whoever is owed it
\* is also owed something else.
Spare(v, q, r, s, m) ==
    \A k \in Cos :
        k # r /\ v.co[k].st = "waiting" /\ v.co[k].kind = "call" /\ ~v.co[k].cut =>
            /\ m.type = "request" /\ m.from = v.co[k].srv /\ m.session = v.co[k].wait =>
                  \E j \in Cos : Serves(v, j, s, v.co[k].srv, v.co[k].wait, r)
            /\ m.type \in {"response", "error"} /\ s = v.co[k].srv /\ m.session = v.co[k].wait =>
                  InQueue(q, s, v.co[k].wait)

LEMMA GoodDrop ==
    ASSUME NEW v, NEW q, NEW r, Good(v, q, gone, r),
           NEW s \in Services, v.inbox[s] # << >>, Spare(v, q, r, s, Head(v.inbox[s]))
    PROVE  Good(EditInbox(v, s, Tail(v.inbox[s])), q, gone, r)
<1> DEFINE u == EditInbox(v, s, Tail(v.inbox[s]))
           m == Head(v.inbox[s])
<1>1. v \in Views
  BY DEF Good
<1>2. /\ u \in Views
      /\ u.nsession = v.nsession /\ u.co = v.co
      /\ u.sessions = v.sessions /\ u.watching = v.watching
  BY <1>1, TailFacts
<1>3. /\ \A t \in Services : \A i \in DOMAIN u.inbox[t] :
            \E j \in DOMAIN v.inbox[t] : v.inbox[t][j] = u.inbox[t][i]
      /\ \A t \in Services : \A i \in DOMAIN v.inbox[t] :
            \/ t = s /\ v.inbox[t][i] = m
            \/ \E j \in DOMAIN u.inbox[t] : u.inbox[t][j] = v.inbox[t][i]
  BY <1>1, TailFacts
<1> HIDE DEF u
<1>4. /\ Formed(u) /\ Distinct(u) /\ Entered(u, r) /\ Awaited(u, r)
      /\ Watched(u, q) /\ CallWatched(u, r)
  BY <1>2
  DEF Good, Formed, Distinct, Entered, Awaited, Watched, CallWatched
<1>5. Errors(u)
  <2> QED BY <1>3 DEF Good, Errors
<1>6. Owed(u, q, gone, r)
  <2> SUFFICES ASSUME NEW k \in Cos, k # r, v.co[k].st = "waiting", v.co[k].kind = "call",
                      ~v.co[k].cut, v.co[k].srv \notin gone,
                      v.watching[v.co[k].srv][v.co[k].wait] \notin gone
               PROVE  OwedTo(u, q, r, v.co[k].srv, v.co[k].wait,
                                v.watching[v.co[k].srv][v.co[k].wait])
    BY <1>2 DEF Owed
  <2> DEFINE t == v.co[k].srv
             n == v.co[k].wait
             d == v.watching[t][n]
  <2>1. OwedTo(v, q, r, t, n, d)
    BY DEF Good, Owed
  <2>2. t \in Services /\ n \in SessionIds /\ d \in Services
    BY CallerFacts
  <2>3. /\ m.type = "request" /\ m.from = t /\ m.session = n =>
              \E j \in Cos : Serves(v, j, s, t, n, r)
        /\ m.type \in {"response", "error"} /\ s = t /\ m.session = n => InQueue(q, s, n)
    BY DEF Spare
  <2> HIDE DEF t, n, d, m
  <2>4. \A j \in Cos : \A e : Serves(v, j, e, t, n, r) => Serves(u, j, e, t, n, r)
    BY <1>2 DEF Serves
  <2>5. ASSUME NEW e \in Services, NEW type, NEW from, Transit(v, e, type, from, n)
        PROVE  \/ Transit(u, e, type, from, n)
               \/ e = s /\ m.type = type /\ m.from = from /\ m.session = n
    BY <1>3, <2>5 DEF Transit
  <2>6. OwedTo(u, q, r, t, n, d)
    <3>1. CASE Transit(v, d, "request", t, n)
      BY <2>2, <2>3, <2>4, <2>5, <3>1 DEF OwedTo
    <3>2. CASE Transit(v, t, "response", d, n)
      BY <2>2, <2>3, <2>5, <3>2 DEF OwedTo
    <3>3. CASE Transit(v, t, "error", d, n)
      BY <2>2, <2>3, <2>5, <3>3 DEF OwedTo
    <3>4. CASE InQueue(q, t, n) \/ \E j \in Cos : Serves(v, j, d, t, n, r)
      BY <2>4, <3>4 DEF OwedTo
    <3> QED BY <2>1, <3>1, <3>2, <3>3, <3>4 DEF OwedTo
  <2> QED BY <2>6 DEF t, n, d
<1> QED BY <1>2, <1>4, <1>5, <1>6 DEF Good, u

\* A coroutine is made for a request and runs.
LEMMA GoodNew ==
    ASSUME NEW v, NEW q, Good(v, q, gone, NoCo),
           NEW k \in Cos, NEW c \in Coroutine, v.co[k].st = "unused",
           c.st = "lost", c.srv \in Services, c.wait = 0, c.timer = 0
    PROVE  Good(EditCo(v, k, c), q, gone, k)
<1> DEFINE u == EditCo(v, k, c)
<1>1. v \in Views
  BY DEF Good
<1>2. /\ u \in Views /\ u.co[k] = c /\ \A i \in Cos : i # k => u.co[i] = v.co[i]
      /\ u.inbox = v.inbox /\ u.nsession = v.nsession
      /\ u.sessions = v.sessions /\ u.watching = v.watching
  BY <1>1, EditCoFacts
<1> HIDE DEF u
<1>3. v.co[k].srv = None /\ k # NoCo
  BY Basics DEF Good, Formed
<1>4. \A t \in Services, n \in SessionIds :
        /\ v.sessions[t][n] # k
        /\ v.sessions[t][n] # NoCo => u.co[v.sessions[t][n]] = v.co[v.sessions[t][n]]
  <2>1. \A t \in Services, n \in SessionIds : v.sessions[t][n] # k
    BY <1>3, Basics DEF Good, Entered
  <2>2. \A t \in Services, n \in SessionIds : v.sessions[t][n] \in Cos \cup {NoCo}
    BY <1>1, ViewTypes
  <2> QED BY <1>2, <2>1, <2>2
<1>5. Formed(u)
  <2>1. v.nsession[c.srv] \in 1 .. MaxSession + 1
    BY <1>1, ViewTypes
  <2>2. 0 < v.nsession[c.srv]
    BY <2>1, Basics
  <2> QED BY <1>2, <2>2 DEF Good, Formed
<1>6. Distinct(u)
  BY <1>2 DEF Good, Distinct
<1>7. Entered(u, k)
  BY <1>2, <1>4 DEF Good, Entered
<1>8. Awaited(u, k) /\ CallWatched(u, k)
  BY <1>2, Basics DEF Good, Awaited, CallWatched
<1>9. Watched(u, q)
  <2> SUFFICES ASSUME NEW t \in Services, NEW n \in SessionIds,
                      v.watching[t][n] # None \/ InQueue(q, t, n)
               PROVE  /\ n < v.nsession[t]
                      /\ \A j \in Cos : u.co[j].srv = t => u.co[j].timer # n
                      /\ LET j == v.sessions[t][n] IN
                         j # NoCo => u.co[j].st = "waiting" /\ u.co[j].wait = n
                                     /\ u.co[j].kind = "call"
    BY <1>2 DEF Watched
  <2> QED BY <1>2, <1>4, Basics DEF Good, Watched
<1>11. Errors(u)
  BY <1>2 DEF Good, Errors
<1>12. Owed(u, q, gone, k)
  <2> SUFFICES ASSUME NEW j \in Cos, j # k, v.co[j].st = "waiting", v.co[j].kind = "call",
                      ~v.co[j].cut, v.co[j].srv \notin gone,
                      v.watching[v.co[j].srv][v.co[j].wait] \notin gone
               PROVE  OwedTo(u, q, k, v.co[j].srv, v.co[j].wait,
                                v.watching[v.co[j].srv][v.co[j].wait])
    BY <1>2 DEF Owed
  <2> DEFINE t == v.co[j].srv
             n == v.co[j].wait
             d == v.watching[t][n]
  <2>1. OwedTo(v, q, NoCo, t, n, d)
    BY Basics DEF Good, Owed
  <2>2. j # NoCo
    BY Basics
  <2>3. d \in Services
    BY <2>2, CallerFacts
  <2> HIDE DEF t, n, d
  <2>4. \A i \in Cos : Serves(v, i, d, t, n, NoCo) => Serves(u, i, d, t, n, k)
    BY <1>2, <1>3, <2>3, Basics DEF Serves
  <2>5. \A e, type, from, m : Transit(v, e, type, from, m) => Transit(u, e, type, from, m)
    BY <1>2 DEF Transit
  <2>6. OwedTo(u, q, k, t, n, d)
    BY <2>1, <2>4, <2>5 DEF OwedTo
  <2> QED BY <2>6 DEF t, n, d
<1> QED BY <1>2, <1>5, <1>6, <1>7, <1>8, <1>9, <1>11, <1>12 DEF Good, u

\* The coroutine of an entry runs again; a coroutine has only one entry.
LEMMA GoodEntry ==
    ASSUME NEW v, NEW q, Good(v, q, gone, NoCo),
           NEW s \in Services, NEW n \in SessionIds, v.sessions[s][n] # NoCo
    PROVE  Good(EditEntry(v, s, n, NoCo), q, gone, v.sessions[s][n])
<1> DEFINE u == EditEntry(v, s, n, NoCo)
           k == v.sessions[s][n]
<1>1. v \in Views
  BY DEF Good
<1>2. /\ u \in Views /\ u.sessions[s][n] = NoCo
      /\ \A t \in Services, m \in SessionIds :
            t # s \/ m # n => u.sessions[t][m] = v.sessions[t][m]
      /\ u.inbox = v.inbox /\ u.nsession = v.nsession
      /\ u.co = v.co /\ u.watching = v.watching
  BY <1>1, EditEntryFacts
<1> HIDE DEF u
<1>3. k \in Cos /\ v.co[k].srv = s
  BY <1>1, ViewTypes DEF Good, Entered
<1>4. \A t \in Services, m \in SessionIds : t # s \/ m # n => v.sessions[t][m] # k
  BY <1>3 DEF Good, Entered
<1>5. Formed(u) /\ Distinct(u)
  BY <1>2 DEF Good, Formed, Distinct
<1>6. Entered(u, k)
  <2> SUFFICES ASSUME NEW t \in Services, NEW m \in SessionIds, u.sessions[t][m] # NoCo
               PROVE  LET j == u.sessions[t][m] IN
                      /\ j # k /\ m < v.nsession[t] /\ v.co[j].srv = t
                      /\ v.co[j].cut \/ (v.co[j].st = "waiting" /\ v.co[j].wait = m)
                      /\ \A l \in SessionIds : u.sessions[t][l] = j => l = m
    BY <1>2 DEF Entered
  <2>1. (t # s \/ m # n) /\ u.sessions[t][m] = v.sessions[t][m]
    BY <1>2
  <2>2. \A l \in SessionIds : u.sessions[t][l] = v.sessions[t][m] => v.sessions[t][l] = v.sessions[t][m]
    BY <1>2, <2>1
  <2> QED BY <1>4, <2>1, <2>2 DEF Good, Entered
<1>7. Awaited(u, k)
  <2> SUFFICES ASSUME NEW j \in Cos, j # k, v.co[j].st = "waiting"
               PROVE  u.sessions[v.co[j].srv][v.co[j].wait] = j
    BY <1>2 DEF Awaited
  <2>1. v.sessions[v.co[j].srv][v.co[j].wait] = j
    BY Basics DEF Good, Awaited
  <2>2. v.co[j].srv \in Services /\ v.co[j].wait \in SessionIds
    BY <1>1, Basics, ViewTypes DEF Good, Formed, Coroutine
  <2> QED BY <1>2, <2>1, <2>2
<1>8. Watched(u, q)
  BY <1>2 DEF Good, Watched
<1>9. CallWatched(u, k)
  BY <1>2, Basics DEF Good, CallWatched
<1>10. Errors(u)
  BY <1>2 DEF Good, Errors
<1>11. Owed(u, q, gone, k)
  <2>1. \A t, m, d : OwedTo(v, q, NoCo, t, m, d) => OwedTo(v, q, k, t, m, d)
    BY Basics DEF OwedTo, Serves
  <2>2. \A t, m, d : OwedTo(v, q, k, t, m, d) <=> OwedTo(u, q, k, t, m, d)
    BY <1>2, SameOwed
  <2> QED BY <1>2, <2>1, <2>2, Basics DEF Good, Owed
<1> QED BY <1>2, <1>5, <1>6, <1>7, <1>8, <1>9, <1>10, <1>11 DEF Good, u

\* The error queue changes.
LEMMA GoodQueue ==
    ASSUME NEW v, NEW q, NEW r, Good(v, q, gone, r), NEW p,
           \A s \in Services, n \in SessionIds :
              InQueue(p, s, n) => InQueue(q, s, n) \/ v.watching[s][n] # None,
           \A k \in Cos :
              k # r /\ v.co[k].st = "waiting" /\ v.co[k].kind = "call" /\ ~v.co[k].cut
              /\ InQueue(q, v.co[k].srv, v.co[k].wait)
              => InQueue(p, v.co[k].srv, v.co[k].wait)
    PROVE  Good(v, p, gone, r)
<1>1. Watched(v, p)
  BY DEF Good, Watched
<1>2. Owed(v, p, gone, r)
  BY DEF Good, Owed, OwedTo
<1> QED BY <1>1, <1>2 DEF Good

-----------------------------------------------------------------------------
(* The operators keep a Good view Good *)

\* The next session of a service is used nowhere.
LEMMA NextSession ==
    ASSUME NEW v, NEW q, NEW r, Good(v, q, gone, r),
           NEW s \in Services, v.nsession[s] <= MaxSession
    PROVE  LET n == v.nsession[s] IN
           /\ n \in SessionIds /\ v.nsession[s] \in Nat
           /\ v.sessions[s][n] = NoCo /\ v.watching[s][n] = None /\ ~InQueue(q, s, n)
           /\ Unheld(v, s, NoCo, n)
<1> DEFINE n == v.nsession[s]
<1>1. n \in SessionIds /\ n \in Nat /\ ~(n < n)
  <2>1. n \in 1 .. MaxSession + 1
    BY ViewTypes DEF Good
  <2> QED BY <2>1, Basics DEF SessionIds
<1>2. v.sessions[s][n] = NoCo
  BY <1>1 DEF Good, Entered
<1>3. v.watching[s][n] = None /\ ~InQueue(q, s, n)
  BY <1>1 DEF Good, Watched
<1>4. Unheld(v, s, NoCo, n)
  BY <1>1, Basics DEF Good, Formed, Unheld
<1> QED BY <1>1, <1>2, <1>3, <1>4

\* Edits of several fields of one record are one edit of the record.
LEMMA CoChain ==
    ASSUME NEW cs \in [Cos -> Coroutine], NEW k \in Cos, NEW x, NEW y, NEW z
    PROVE  [cs EXCEPT ![k].st = x, ![k].wait = y, ![k].kind = z] =
                [cs EXCEPT ![k] = [cs[k] EXCEPT !.st = x, !.wait = y, !.kind = z]]
OBVIOUS

LEMMA DoneChain ==
    ASSUME NEW cs \in [Cos -> Coroutine], NEW k \in Cos, NEW x, NEW y
    PROVE  [cs EXCEPT ![k].st = x, ![k].done = y] =
                [cs EXCEPT ![k] = [cs[k] EXCEPT !.st = x, !.done = y]]
OBVIOUS

\* The state in which a call leaves the coroutine k, before suspend.
Calling(v, w, q, s, k) ==
    LET n == w.co[k].wait IN
    /\ n \in SessionIds /\ SameIdentity(v.co[k], w.co[k])
    /\ w.co[k] \in Coroutine /\ w.co[k].st = "lost"
    /\ w.co[k].done = v.co[k].done /\ w.co[k].cut = v.co[k].cut
    /\ \A i \in Cos : i # k => w.co[i] = v.co[i]
    /\ \/ /\ w.co[k].kind = "call" /\ w.watching[s][n] \in Services
          /\ Transit(w, w.watching[s][n], "request", s, n)
       \/ /\ w.co[k].kind = "kcall"
          /\ w.watching[s][n] = None /\ ~InQueue(q, s, n)

LEMMA GoodRequested ==
    ASSUME NEW v, NEW q, NEW r, Good(v, q, gone, r),
           NEW s \in Services, NEW k \in Cos, v.co[k].srv = s,
           v.co[k].st # "unused",
           Loose(v, k, r), k = r \/ v.co[k].cut,
           v.nsession[s] <= MaxSession, NEW d \in Services \ gone, NEW kind \in {"call", "kcall"}
    PROVE  LET w == Requested(v, s, k, d, kind)
               n == v.nsession[s] IN
           /\ Good(w, q, gone, r) /\ w.co[k].wait = n /\ w.co[k].kind = kind
           /\ n < w.nsession[s]
           /\ w.sessions[s][n] = NoCo /\ w.watching[s][n] = None /\ ~InQueue(q, s, n)
           /\ Transit(w, d, "request", s, n)
           /\ \A i \in Cos : w.co[i].srv = s => w.co[i].timer # n
           /\ w.co[k] \in Coroutine /\ w.co[k].st = "lost" /\ SameIdentity(v.co[k], w.co[k])
           /\ w.co[k].done = v.co[k].done /\ w.co[k].cut = v.co[k].cut
           /\ \A i \in Cos : i # k => w.co[i] = v.co[i]
<1> DEFINE n == v.nsession[s]
           m == Msg("request", s, n)
           a == send(v, d, m)
           b == EditNs(a, s, n + 1)
           c == [v.co[k] EXCEPT !.st = "lost", !.wait = n, !.kind = kind]
           w == EditCo(b, k, c)
<1>1. /\ n \in SessionIds /\ n \in Nat
      /\ v.sessions[s][n] = NoCo /\ v.watching[s][n] = None /\ ~InQueue(q, s, n)
      /\ Unheld(v, s, NoCo, n)
  BY NextSession
<1> HIDE DEF n
<1>2. m \in Message /\ m.type = "request" /\ m.from = s /\ m.session = n
  BY <1>1, Basics DEF Msg, Message
<1> HIDE DEF m
<1>3. v \in Views
  BY DEF Good
<1>4. /\ a \in Views /\ a.nsession = v.nsession /\ a.co = v.co
      /\ a.sessions = v.sessions /\ a.watching = v.watching
      /\ Transit(a, d, "request", s, n)
  <2>1. /\ a \in Views /\ a.nsession = v.nsession /\ a.co = v.co
        /\ a.sessions = v.sessions /\ a.watching = v.watching
        /\ \E i \in DOMAIN a.inbox[d] : a.inbox[d][i] = m
    BY <1>2, <1>3, SendFacts, Basics
  <2> QED BY <1>2, <2>1 DEF Transit
<1>5. Good(a, q, gone, r)
  BY <1>2, GoodSend
<1> HIDE DEF a
<1>6. /\ c \in Coroutine /\ SameIdentity(v.co[k], c) /\ c.st = "lost" /\ c.wait = n
      /\ c.kind = kind /\ c.done = v.co[k].done /\ c.cut = v.co[k].cut
  <2>1. v.co[k] \in Coroutine /\ n \in 0 .. MaxSession
    BY <1>1, <1>3, Basics, ViewTypes
  <2> QED BY <2>1 DEF Coroutine, SameIdentity
<1>7. Requested(v, s, k, d, kind) = w
  <2>1. Requested(v, s, k, d, kind) =
          [a EXCEPT !.nsession[s] = n + 1, !.co[k].st = "lost", !.co[k].wait = n,
                    !.co[k].kind = kind]
    BY DEF Requested, a, m, n
  <2>2. w = [[a EXCEPT !.nsession[s] = n + 1] EXCEPT !.co[k] =
                [a.co[k] EXCEPT !.st = "lost", !.wait = n, !.kind = kind]]
    BY <1>4 DEF EditCo, EditNs
  <2>3. a = Mk(a.inbox, a.nsession, a.co, a.sessions, a.watching)
    BY <1>4, ViewIsMk
  <2>4. a.co \in [Cos -> Coroutine]
    BY <1>4, ViewTypes
  <2> DEFINE f == [a.nsession EXCEPT ![s] = n + 1]
             g == [a.co EXCEPT ![k].st = "lost", ![k].wait = n, ![k].kind = kind]
             h == [a.co EXCEPT ![k] =
                    [a.co[k] EXCEPT !.st = "lost", !.wait = n, !.kind = kind]]
  <2>5. g = h
    BY <2>4, CoChain
  <2>6. Requested(v, s, k, d, kind) = [a EXCEPT !.nsession = f, !.co = g]
    BY <2>1
  <2>7. w = [[a EXCEPT !.nsession = f] EXCEPT !.co = h]
    BY <2>2, <2>3 DEF Mk
  <2> HIDE DEF f, g, h
  <2> QED BY <2>3, <2>5, <2>6, <2>7 DEF Mk
<1> HIDE DEF c
<1>8. Good(b, q, gone, r)
  BY <1>4, <1>5, GoodNs DEF n
<1>9. /\ b \in Views /\ b.nsession[s] = n + 1 /\ b.inbox = a.inbox /\ b.co = v.co
      /\ b.sessions = v.sessions /\ b.watching = v.watching
  <2>1. n + 1 \in 1 .. MaxSession + 1
    BY <1>1, Basics DEF n
  <2> QED BY <1>4, <2>1, EditNsFacts
<1> HIDE DEF b
<1>10. Unheld(b, s, k, n)
  BY <1>1, <1>9, Basics DEF Unheld
<1>11. /\ w.co[k] = c /\ \A i \in Cos : i # k => w.co[i] = v.co[i]
       /\ w.inbox = a.inbox /\ w.nsession = b.nsession
       /\ w.sessions = v.sessions /\ w.watching = v.watching
  BY <1>6, <1>9, EditCoFacts
<1>12. Good(w, q, gone, r)
  <2>1. Loose(b, k, r)
    BY <1>9 DEF Loose
  <2>2. n < b.nsession[s] /\ c.srv = s
    BY <1>1, <1>6, <1>9 DEF SameIdentity
  <2> QED BY <1>6, <1>8, <1>9, <1>10, <2>1, <2>2, GoodRunEdit
<1>13. \A i \in Cos : w.co[i].srv = s => w.co[i].timer # n
  BY <1>1, <1>6, <1>11, Basics DEF Unheld, SameIdentity
<1>14. Transit(w, d, "request", s, n)
  BY <1>4, <1>11 DEF Transit
<1>15. n < w.nsession[s]
  BY <1>1, <1>9, <1>11
<1> HIDE DEF w
<1> QED BY <1>1, <1>6, <1>7, <1>11, <1>12, <1>13, <1>14, <1>15 DEF n

\* z.call and z.kcall.
LEMMA GoodCalls ==
    ASSUME NEW v, NEW q, NEW r, Good(v, q, gone, r),
           NEW s \in Services, NEW k \in Cos, v.co[k].srv = s,
           v.co[k].st # "unused",
           Loose(v, k, r), k = r \/ v.co[k].cut, NEW w \in Calls(v, s, k)
    PROVE  Good(w, q, gone, r) /\ Calling(v, w, q, s, k)
<1>1. PICK d \in Services \ gone : /\ v.nsession[s] <= MaxSession
                                   /\ w = call(v, s, k, d) \/ w = kcall(v, s, k, d)
  BY DEF Calls
<1> DEFINE n == v.nsession[s]
<1>2. n \in SessionIds
  BY <1>1, NextSession
<1>3. CASE w = kcall(v, s, k, d)
  <2>1. w = Requested(v, s, k, d, "kcall")
    BY <1>3 DEF kcall
  <2> QED BY <1>1, <1>2, <2>1, GoodRequested DEF Calling
<1>4. CASE w = call(v, s, k, d)
  <2> DEFINE b == Requested(v, s, k, d, "call")
  <2>1. /\ Good(b, q, gone, r) /\ b.co[k].wait = n /\ b.co[k].kind = "call"
        /\ n < b.nsession[s]
        /\ b.sessions[s][n] = NoCo /\ b.watching[s][n] = None /\ ~InQueue(q, s, n)
        /\ Transit(b, d, "request", s, n)
        /\ \A i \in Cos : b.co[i].srv = s => b.co[i].timer # n
        /\ b.co[k] \in Coroutine /\ b.co[k].st = "lost" /\ SameIdentity(v.co[k], b.co[k])
        /\ b.co[k].done = v.co[k].done /\ b.co[k].cut = v.co[k].cut
        /\ \A i \in Cos : i # k => b.co[i] = v.co[i]
    BY <1>1, GoodRequested
  <2>2. w = EditWatch(b, s, n, d)
    BY <1>4 DEF call, EditWatch
  <2> HIDE DEF b, n
  <2>3. Good(w, q, gone, r)
    BY <1>2, <2>1, <2>2, GoodWatch
  <2>4. w.watching[s][n] = d /\ w.co = b.co /\ w.inbox = b.inbox
    <3>1. b \in Views
      BY <2>1 DEF Good
    <3> QED BY <1>2, <2>2, <3>1, EditWatchFacts
  <2>5. Transit(w, d, "request", s, n)
    BY <2>1, <2>4 DEF Transit
  <2> QED BY <1>2, <2>1, <2>3, <2>4, <2>5 DEF Calling
<1> QED BY <1>1, <1>3, <1>4

Running(v, s, r) ==
    /\ v.co[r].srv = s /\ v.co[r].st \in {"waiting", "lost"}

\* suspend on "CALL".
LEMMA GoodSuspendCall ==
    ASSUME NEW v, NEW q, NEW r \in Cos, Good(v, q, gone, r),
           NEW s \in Services, Running(v, s, r), NEW w \in Calls(v, s, r)
    PROVE  Good(suspendCall(w, s, r), q, gone, NoCo)
<1> DEFINE n == w.co[r].wait
           c == [w.co[r] EXCEPT !.st = "waiting"]
<1>1. Good(w, q, gone, r) /\ Calling(v, w, q, s, r)
  BY GoodCalls DEF Running, Loose
<1>2. w \in Views /\ n \in SessionIds /\ w.co[r] \in Coroutine /\ w.co[r].st = "lost"
      /\ w.co[r].srv = s
  BY <1>1 DEF Good, Calling, Running, SameIdentity
<1>3. /\ c \in Coroutine /\ SameIdentity(w.co[r], c) /\ c.st = "waiting" /\ c.wait = n
      /\ c.kind = w.co[r].kind /\ c.done = w.co[r].done /\ c.cut = w.co[r].cut
  BY <1>2 DEF Coroutine, SameIdentity
<1>4. suspendCall(w, s, r) = EditCo(EditEntry(w, s, n, r), r, c)
  <2>1. w = Mk(w.inbox, w.nsession, w.co, w.sessions, w.watching)
    BY <1>2, ViewIsMk
  <2> DEFINE f == [w.sessions EXCEPT ![s][n] = r]
  <2>2. suspendCall(w, s, r) = [w EXCEPT !.sessions = f, !.co = [w.co EXCEPT ![r] = c]]
    BY DEF suspendCall
  <2>3. EditCo(EditEntry(w, s, n, r), r, c) =
          [[w EXCEPT !.sessions = f] EXCEPT !.co = [w.co EXCEPT ![r] = c]]
    BY <2>1 DEF EditCo, EditEntry, Mk
  <2> HIDE DEF f, c, n
  <2> QED BY <2>1, <2>2, <2>3 DEF Mk
<1> HIDE DEF c
<1>5. CASE w.co[r].kind = "call"
  <2>1. w.watching[s][n] \in Services /\ Transit(w, w.watching[s][n], "request", s, n)
    BY <1>1, <1>5 DEF Calling
  <2>2. OwedTo(w, q, r, s, n, w.watching[s][n]) /\ w.watching[s][n] # None
    BY <2>1, Basics DEF OwedTo
  <2> HIDE DEF n
  <2>3. n = w.co[r].wait
    BY DEF n
  <2> QED BY <1>1, <1>2, <1>3, <1>4, <1>5, <2>2, <2>3, GoodSuspend
<1>6. CASE w.co[r].kind # "call"
  <2>1. w.watching[s][n] = None /\ ~InQueue(q, s, n)
    BY <1>1, <1>6 DEF Calling
  <2> HIDE DEF n
  <2>2. n = w.co[r].wait
    BY DEF n
  <2> QED BY <1>1, <1>2, <1>3, <1>4, <1>6, <2>1, <2>2, GoodSuspend
<1> QED BY <1>5, <1>6

\* suspend on "TIMEOUT".
LEMMA GoodSuspendTimeout ==
    ASSUME NEW v, NEW q, NEW r \in Cos, Good(v, q, gone, r),
           NEW s \in Services, Running(v, s, r), v.co[r].timer # 0
    PROVE  Good(suspendTimeout(v, s, r), q, gone, NoCo)
<1> DEFINE n == v.co[r].timer
           c == [v.co[r] EXCEPT !.st = "waiting", !.wait = n, !.kind = "timer"]
<1>1. v \in Views /\ v.co[r] \in Coroutine /\ v.co \in [Cos -> Coroutine]
  BY ViewTypes DEF Good
<1>2. n \in SessionIds /\ n \in 0 .. MaxSession
  BY <1>1, Basics DEF Coroutine
<1>3. /\ c \in Coroutine /\ SameIdentity(v.co[r], c) /\ c.st = "waiting" /\ c.wait = n
      /\ c.kind = "timer" /\ c.done = v.co[r].done /\ c.cut = v.co[r].cut
  <2> HIDE DEF n
  <2> QED BY <1>1, <1>2 DEF Coroutine, SameIdentity
<1>4. suspendTimeout(v, s, r) = EditCo(EditEntry(v, s, n, r), r, c)
  <2>1. v = Mk(v.inbox, v.nsession, v.co, v.sessions, v.watching)
    BY <1>1, ViewIsMk
  <2> DEFINE f == [v.sessions EXCEPT ![s][n] = r]
             g == [v.co EXCEPT ![r].st = "waiting", ![r].wait = n, ![r].kind = "timer"]
             h == [v.co EXCEPT ![r] = c]
  <2>2. suspendTimeout(v, s, r) = [v EXCEPT !.sessions = f, !.co = g]
    BY DEF suspendTimeout
  <2>3. EditCo(EditEntry(v, s, n, r), r, c) = [[v EXCEPT !.sessions = f] EXCEPT !.co = h]
    BY <2>1 DEF EditCo, EditEntry, Mk
  <2>4. g = h
    BY <1>1, CoChain
  <2> HIDE DEF f, g, h
  <2> QED BY <2>1, <2>2, <2>3, <2>4 DEF Mk
<1>5. v.watching[s][n] = None /\ ~InQueue(q, s, n)
  BY <1>2 DEF Good, Watched, Running
<1> HIDE DEF c, n
<1>6. n = v.co[r].timer
  BY DEF n
<1> QED BY <1>2, <1>3, <1>4, <1>5, <1>6, GoodSuspend DEF Running

\* Ended: the record of the running, or of a cut off, coroutine.
LEMMA EndedEdit ==
    ASSUME NEW v \in Views, NEW k \in Cos, NEW st \in {"ended", "dead", "lost"}
    PROVE  \E c \in Coroutine :
              /\ Ended(v, k, st) = EditCo(v, k, c)
              /\ SameIdentity(v.co[k], c) /\ c.st = st /\ c.wait = v.co[k].wait
              /\ c.kind = v.co[k].kind /\ c.done = v.co[k].done /\ c.cut = v.co[k].cut
<1> DEFINE c == [v.co[k] EXCEPT !.st = st]
<1>1. v.co[k] \in Coroutine
  BY ViewTypes
<1>2. /\ c \in Coroutine /\ SameIdentity(v.co[k], c) /\ c.st = st /\ c.wait = v.co[k].wait
      /\ c.kind = v.co[k].kind /\ c.done = v.co[k].done /\ c.cut = v.co[k].cut
  BY <1>1 DEF Coroutine, SameIdentity
<1>3. Ended(v, k, st) = EditCo(v, k, c)
  BY DEF Ended, EditCo
<1> HIDE DEF c
<1> QED BY <1>2, <1>3

\* The running coroutine exits, or is left when suspend itself fails.
LEMMA GoodEnded ==
    ASSUME NEW v, NEW q, NEW r \in Cos, Good(v, q, gone, r),
           NEW s \in Services, Running(v, s, r), NEW st \in {"ended", "lost"}
    PROVE  Good(Ended(v, r, st), q, gone, NoCo)
<1>1. v \in Views
  BY DEF Good
<1>2. PICK c \in Coroutine :
        /\ Ended(v, r, st) = EditCo(v, r, c)
        /\ SameIdentity(v.co[r], c) /\ c.st = st /\ c.wait = v.co[r].wait
        /\ c.kind = v.co[r].kind /\ c.done = v.co[r].done /\ c.cut = v.co[r].cut
  BY <1>1, EndedEdit
<1> DEFINE u == EditCo(v, r, c)
<1>3. Good(u, q, gone, r)
  BY <1>2, GoodRunEdit DEF Running, Loose
<1>4. u.co[r] = c
  BY <1>1, EditCoFacts
<1> HIDE DEF u
<1>5. Good(u, q, gone, NoCo)
  BY <1>2, <1>3, <1>4, GoodStop
<1> QED BY <1>2, <1>5 DEF u

\* suspend on "RETURN".
LEMMA GoodReturn ==
    ASSUME NEW v, NEW q, NEW r \in Cos, Good(v, q, gone, r),
           NEW s \in Services, Running(v, s, r)
    PROVE  LET u == suspendReturn(v, s, r) IN
           /\ Good(u, q, gone, r) /\ Running(u, s, r) /\ SameIdentity(v.co[r], u.co[r])
<1>1. v \in Views /\ v.co[r] \in Coroutine
  BY ViewTypes DEF Good
<1>2. CASE v.co[r].session = 0
  BY <1>2 DEF suspendReturn, SameIdentity
<1>3. CASE v.co[r].session # 0
  <2> DEFINE m == Msg("response", s, v.co[r].session)
             to == v.co[r].from
             a == send(v, to, m)
             c == [v.co[r] EXCEPT !.done = TRUE]
             u == EditCo(a, r, c)
  <2>1. to \in Services \cup {None}
    BY <1>1 DEF Coroutine
  <2>2. m \in Message /\ m.type = "response" /\ m.from = s /\ m.session = v.co[r].session
    BY <1>1 DEF Msg, Message, Coroutine
  <2>3. /\ c \in Coroutine /\ SameIdentity(v.co[r], c) /\ c.st = v.co[r].st
        /\ c.wait = v.co[r].wait /\ c.kind = v.co[r].kind /\ c.cut = v.co[r].cut /\ c.done
    BY <1>1 DEF Coroutine, SameIdentity
  <2> HIDE DEF m, to
  <2>4. /\ a \in Views /\ a.co = v.co
        /\ to \notin gone \cup {None} => \E i \in DOMAIN a.inbox[to] : a.inbox[to][i] = m
    BY <1>1, <2>1, <2>2, SendFacts
  <2>5. suspendReturn(v, s, r) = u
    BY <1>3, <2>4 DEF suspendReturn, EditCo, m, to
  <2> HIDE DEF c
  <2>6. Good(a, q, gone, r)
    BY <2>1, <2>2, GoodSend
  <2> HIDE DEF a
  <2>7. Answered(a, c)
    <3>1. c.from = to /\ c.srv = s /\ c.session = m.session
      BY <2>2, <2>3 DEF SameIdentity, Running, to
    <3> QED BY <2>2, <2>4, <3>1 DEF Answered, Transit
  <2>8. u.co[r] = c
    BY <2>3, <2>4, EditCoFacts
  <2>9. Good(u, q, gone, r)
    <3>1. a.co[r] = v.co[r]
      BY <2>4
    <3>2. c.st = "waiting" => c.wait # 0
      BY <2>3 DEF Good, Formed
    <3> QED BY <2>3, <2>6, <2>7, <3>1, <3>2, GoodRunEdit DEF Running, Loose
  <2>10. Running(u, s, r) /\ SameIdentity(v.co[r], u.co[r])
    BY <2>3, <2>8 DEF Running, SameIdentity
  <2> HIDE DEF u
  <2> QED BY <2>5, <2>9, <2>10
<1> QED BY <1>2, <1>3

\* Views with the same fields are the same.
LEMMA SameView ==
    ASSUME NEW u \in Views, NEW v \in Views, u.inbox = v.inbox, u.nsession = v.nsession,
           u.co = v.co, u.sessions = v.sessions, u.watching = v.watching
    PROVE  u = v
BY ViewIsMk

(* suspend on an error.  The view is reached in the order in which its      *)
(* facts become true: the coroutine is dead, its requester is told, it is   *)
(* done.                                                                    *)
LEMMA GoodError ==
    ASSUME NEW v, NEW q, NEW r \in Cos, Good(v, q, gone, r),
           NEW s \in Services, v.co[r].srv = s, v.co[r].st # "unused"
    PROVE  Good(suspendError(v, s, r), q, gone, NoCo)
<1> DEFINE m == Msg("error", s, v.co[r].session)
           to == v.co[r].from
           b == [v.co[r] EXCEPT !.st = "dead"]
           c == [v.co[r] EXCEPT !.st = "dead", !.done = TRUE]
           x == EditCo(v, r, b)
           y == send(x, to, m)
           u == EditCo(y, r, c)
<1>1. v \in Views /\ v.co[r] \in Coroutine /\ v.co \in [Cos -> Coroutine]
  BY ViewTypes DEF Good
<1>2. to \in Services \cup {None}
  BY <1>1 DEF Coroutine
<1>3. m \in Message /\ m.type = "error" /\ m.from = s /\ m.session = v.co[r].session
  BY <1>1 DEF Msg, Message, Coroutine
<1>4. /\ b \in Coroutine /\ SameIdentity(v.co[r], b) /\ b.st = "dead"
      /\ b.wait = v.co[r].wait /\ b.kind = v.co[r].kind /\ b.cut = v.co[r].cut
      /\ b.done = v.co[r].done
  BY <1>1 DEF Coroutine, SameIdentity
<1>5. /\ c \in Coroutine /\ SameIdentity(v.co[r], c) /\ c.st = "dead"
      /\ c.wait = v.co[r].wait /\ c.kind = v.co[r].kind /\ c.cut = v.co[r].cut /\ c.done
  BY <1>1 DEF Coroutine, SameIdentity
<1> HIDE DEF b, c, m, to
<1>6. /\ x \in Views /\ x.co[r] = b /\ \A i \in Cos : i # r => x.co[i] = v.co[i]
      /\ x.inbox = v.inbox /\ x.nsession = v.nsession
      /\ x.sessions = v.sessions /\ x.watching = v.watching
  BY <1>1, <1>4, EditCoFacts
<1>7. /\ y \in Views /\ y.co = x.co /\ y.nsession = x.nsession
      /\ y.sessions = x.sessions /\ y.watching = x.watching
      /\ to \notin gone \cup {None} => \E i \in DOMAIN y.inbox[to] : y.inbox[to][i] = m
  BY <1>2, <1>3, <1>6, SendFacts
<1>8. /\ u \in Views /\ u.co[r] = c /\ \A i \in Cos : i # r => u.co[i] = v.co[i]
      /\ u.inbox = y.inbox /\ u.nsession = v.nsession
      /\ u.sessions = v.sessions /\ u.watching = v.watching
  <2> HIDE DEF x, y
  <2> QED BY <1>5, <1>6, <1>7, EditCoFacts
<1>9. suspendError(v, s, r) = u
  <2> DEFINE w == send(v, to, m)
             z == EditCo(w, r, c)
  <2>1. /\ w \in Views /\ w.co = v.co /\ w.nsession = v.nsession
        /\ w.sessions = v.sessions /\ w.watching = v.watching
    BY <1>1, <1>2, <1>3, SendFacts
  <2>2. w.inbox = y.inbox
    <3>1. CASE to \in gone \cup {None}
      BY <1>6, <3>1 DEF send
    <3>2. CASE to \notin gone \cup {None}
      <4>1. w = EditInbox(v, to, Append(v.inbox[to], m))
        BY <3>2 DEF send, EditInbox
      <4>2. y = EditInbox(x, to, Append(v.inbox[to], m))
        BY <1>6, <3>2 DEF send, EditInbox
      <4>3. to \in Services /\ Append(v.inbox[to], m) \in Seq(Message)
        <5>1. to \in Services /\ v.inbox[to] \in Seq(Message)
          BY <1>1, <1>2, <3>2, ViewTypes
        <5> QED BY <1>3, <5>1, AppendProperties
      <4> DEFINE g == Append(v.inbox[to], m)
      <4> HIDE DEF w, x, y, g
      <4>a. /\ to \in Services /\ g \in Seq(Message)
            /\ w = EditInbox(v, to, g) /\ y = EditInbox(x, to, g)
        BY <4>1, <4>2, <4>3 DEF g
      <4>4. /\ w.inbox[to] = y.inbox[to]
            /\ \A i \in Services : i # to => w.inbox[i] = v.inbox[i] /\ y.inbox[i] = v.inbox[i]
        <5>1. w.inbox[to] = g /\ \A i \in Services : i # to => w.inbox[i] = v.inbox[i]
          BY <1>1, <4>a, EditInboxFacts
        <5>2. y.inbox[to] = g /\ \A i \in Services : i # to => y.inbox[i] = x.inbox[i]
          <6>1. x \in Views
            BY <1>6
          <6> QED BY <4>a, <6>1, EditInboxFacts
        <5> QED BY <1>6, <5>1, <5>2
      <4>5. w.inbox \in [Services -> Seq(Message)] /\ y.inbox \in [Services -> Seq(Message)]
        BY <1>7, <2>1, ViewTypes
      <4>6. \A i \in Services : w.inbox[i] = y.inbox[i]
        BY <4>4
      <4> QED BY <4>5, <4>6
    <3> QED BY <3>1, <3>2
  <2>3. suspendError(v, s, r) = z
    <3>1. suspendError(v, s, r) = [w EXCEPT !.co[r].st = "dead", !.co[r].done = TRUE]
      BY DEF suspendError, m, to
    <3> DEFINE g == [v.co EXCEPT ![r].st = "dead", ![r].done = TRUE]
               h == [v.co EXCEPT ![r] = c]
    <3>2. suspendError(v, s, r) = [w EXCEPT !.co = g]
      BY <2>1, <3>1
    <3>3. z = [w EXCEPT !.co = h]
      BY <2>1 DEF EditCo
    <3>4. g = h
      BY <1>1, DoneChain DEF c
    <3> HIDE DEF g, h, w
    <3> QED BY <3>2, <3>3, <3>4
  <2>4. /\ z \in Views /\ z.co[r] = c /\ \A i \in Cos : i # r => z.co[i] = v.co[i]
        /\ z.inbox = y.inbox /\ z.nsession = v.nsession
        /\ z.sessions = v.sessions /\ z.watching = v.watching
    <3> HIDE DEF w, y
    <3> QED BY <1>5, <2>1, <2>2, EditCoFacts
  <2> HIDE DEF z, u, y
  <2>5. z.co = u.co
    <3>1. z.co \in [Cos -> Coroutine] /\ u.co \in [Cos -> Coroutine]
      BY <1>8, <2>4, ViewTypes
    <3>2. \A i \in Cos : z.co[i] = u.co[i]
      BY <1>8, <2>4
    <3> QED BY <3>1, <3>2
  <2>6. z = u
    BY <1>8, <2>4, <2>5, SameView
  <2> QED BY <2>3, <2>6
<1>10. Good(x, q, gone, r)
  BY <1>4, GoodRunEdit DEF Loose
<1> HIDE DEF x
<1>11. Good(y, q, gone, r)
  BY <1>2, <1>3, <1>10, GoodSend
<1> HIDE DEF y
<1>12. Answered(y, c)
  <2>1. c.from = to /\ c.srv = s /\ c.session = m.session
    BY <1>3, <1>5 DEF SameIdentity, to
  <2> QED BY <1>3, <1>7, <2>1 DEF Answered, Transit
<1>13. Good(u, q, gone, r)
  <2>1. y.co[r] = b /\ SameIdentity(b, c)
    BY <1>4, <1>5, <1>6, <1>7 DEF SameIdentity
  <2> QED BY <1>4, <1>5, <1>11, <1>12, <2>1, GoodRunEdit DEF Loose
<1> HIDE DEF u
<1>14. Good(u, q, gone, NoCo)
  BY <1>5, <1>8, <1>13, GoodStop
<1> QED BY <1>9, <1>14

\* z.timeout.
LEMMA GoodTimeout ==
    ASSUME NEW v, NEW q, NEW r, Good(v, q, gone, r),
           NEW s \in Services, NEW j \in Cos, j # r, v.co[j].st = "unused",
           v.nsession[s] <= MaxSession
    PROVE  LET u == timeout(v, s, j) IN
           Good(u, q, gone, r) /\ \A i \in Cos : i # j => u.co[i] = v.co[i]
<1> DEFINE n == v.nsession[s]
           c == [Unused EXCEPT !.st = "waiting", !.srv = s, !.wait = n,
                               !.kind = "timer", !.timer = n]
           a == EditNs(v, s, n + 1)
           b == EditEntry(a, s, n, j)
           u == EditCo(b, j, c)
<1>1. /\ n \in SessionIds /\ n \in Nat
      /\ v.sessions[s][n] = NoCo /\ v.watching[s][n] = None /\ ~InQueue(q, s, n)
      /\ Unheld(v, s, NoCo, n)
  BY NextSession
<1>2. v \in Views /\ n + 1 \in 1 .. MaxSession + 1 /\ n \in 0 .. MaxSession
  BY <1>1, Basics DEF Good
<1>3. Good(a, q, gone, r)
  BY GoodNs
<1> HIDE DEF n
<1>4. /\ c \in Coroutine /\ c.st = "waiting" /\ c.srv = s /\ c.from = None
      /\ c.wait = n /\ c.timer = n /\ c.kind = "timer"
  <2>1. 0 \in 0 .. MaxSession
    BY Basics
  <2> QED BY <1>2, <2>1 DEF Coroutine, Unused
<1>5. timeout(v, s, j) = u
  <2>1. v = Mk(v.inbox, v.nsession, v.co, v.sessions, v.watching)
    BY <1>2, ViewIsMk
  <2> DEFINE f == [v.nsession EXCEPT ![s] = n + 1]
             g == [v.sessions EXCEPT ![s][n] = j]
             h == [v.co EXCEPT ![j] = c]
  <2>2. timeout(v, s, j) = [v EXCEPT !.nsession = f, !.sessions = g, !.co = h]
    BY DEF timeout, n
  <2>3. u = [[[v EXCEPT !.nsession = f] EXCEPT !.sessions = g] EXCEPT !.co = h]
    <3> HIDE DEF c
    <3> QED BY <2>1 DEF EditCo, EditEntry, EditNs, Mk
  <2> HIDE DEF f, g, h
  <2> QED BY <2>1, <2>2, <2>3 DEF Mk
<1> HIDE DEF c
<1>6. /\ a \in Views /\ a.nsession[s] = n + 1 /\ a.co = v.co
      /\ a.sessions = v.sessions /\ a.watching = v.watching
  BY <1>2, EditNsFacts
<1> HIDE DEF a
<1>7. Unheld(a, s, NoCo, n) /\ n < a.nsession[s]
  BY <1>1, <1>6 DEF Unheld
<1>8. Good(u, q, gone, r)
  BY <1>1, <1>3, <1>4, <1>6, <1>7, GoodTimer
<1>9. \A i \in Cos : i # j => u.co[i] = v.co[i]
  <2>1. b \in Views /\ b.co = v.co
    BY <1>1, <1>6, EditEntryFacts
  <2> HIDE DEF b
  <2> QED BY <1>4, <2>1, EditCoFacts
<1> HIDE DEF u
<1> QED BY <1>5, <1>8, <1>9

\* What a coroutine does before its last step, whoever looks at it: nothing
\* changes for the coroutines there are.
LEMMA GoodUnyielding ==
    ASSUME NEW v, NEW q, NEW r, Good(v, q, gone, r), v.co[r].st # "unused" \/ r \notin Cos,
           NEW s \in Services, NEW u \in Unyielding(v, s)
    PROVE  /\ Good(u, q, gone, r)
           /\ \A i \in Cos : v.co[i].st # "unused" => u.co[i] = v.co[i]
<1>1. CASE u = v
  BY <1>1
<1>2. ASSUME NEW d \in Services, NEW type \in {"request", "exit"},
             u = send(v, d, Msg(type, s, 0))
      PROVE  /\ Good(u, q, gone, r)
             /\ \A i \in Cos : v.co[i].st # "unused" => u.co[i] = v.co[i]
  <2> DEFINE m == Msg(type, s, 0)
  <2>1. m \in Message /\ m.type # "error"
    BY Basics DEF Msg, Message
  <2> HIDE DEF m
  <2>2. u = send(v, d, m)
    BY <1>2 DEF m
  <2>3. Good(u, q, gone, r)
    BY <2>1, <2>2, GoodSend
  <2>4. u.co = v.co
    BY <2>1, <2>2, SendFacts DEF Good
  <2> QED BY <2>3, <2>4
<1>3. ASSUME NEW j \in Cos, Fresh(v, j), v.nsession[s] <= MaxSession, u = timeout(v, s, j)
      PROVE  /\ Good(u, q, gone, r)
             /\ \A i \in Cos : v.co[i].st # "unused" => u.co[i] = v.co[i]
  <2>1. v.co[j].st = "unused" /\ j # r
    BY <1>3 DEF Fresh
  <2>2. Good(u, q, gone, r) /\ \A i \in Cos : i # j => u.co[i] = v.co[i]
    BY <1>3, <2>1, GoodTimeout
  <2> QED BY <2>1, <2>2
<1>4. CASE \E d \in Services : u = send(v, d, Msg("request", s, 0))
  BY <1>2, <1>4
<1>5. CASE \E d \in Services : u = exit(v, s, d)
  BY <1>2, <1>5 DEF exit
<1> QED BY <1>1, <1>3, <1>4, <1>5 DEF Unyielding, MayExit

LEMMA GoodBefore ==
    ASSUME NEW v, NEW q, NEW r \in Cos, Good(v, q, gone, r),
           NEW s \in Services, Running(v, s, r), NEW u \in Before(v, s, r)
    PROVE  Good(u, q, gone, r) /\ Running(u, s, r)
<1>1. CASE u = suspendReturn(v, s, r)
  BY <1>1, GoodReturn
<1>2. CASE u \in Unyielding(v, s)
  BY <1>2, GoodUnyielding DEF Running
<1> QED BY <1>1, <1>2 DEF Before

\* A coroutine that runs under suspend and does not fail.
LEMMA GoodRun ==
    ASSUME NEW v, NEW q, NEW r \in Cos, Good(v, q, gone, r),
           NEW s \in Services, Running(v, s, r), NEW w \in Run(v, s, r)
    PROVE  Good(w, q, gone, NoCo)
<1>1. PICK u \in Before(v, s, r) :
        \/ w = Ended(u, r, "ended")
        \/ u.co[r].timer # 0 /\ w = suspendTimeout(u, s, r)
        \/ \E x \in Calls(u, s, r) : w = suspendCall(x, s, r)
  BY DEF Run
<1>2. Good(u, q, gone, r) /\ Running(u, s, r)
  BY GoodBefore
<1>3. CASE w = Ended(u, r, "ended")
  BY <1>2, <1>3, GoodEnded
<1>4. CASE u.co[r].timer # 0 /\ w = suspendTimeout(u, s, r)
  BY <1>2, <1>4, GoodSuspendTimeout
<1>5. CASE \E x \in Calls(u, s, r) : w = suspendCall(x, s, r)
  BY <1>2, <1>5, GoodSuspendCall
<1> QED BY <1>1, <1>3, <1>4, <1>5

(* A coroutine k is resumed and nobody looks at what it yields: the one     *)
(* that runs, or another one that waits in a z.kcall.                       *)
LEMMA GoodCutRun ==
    ASSUME NEW v, NEW q, NEW r, Good(v, q, gone, r), v.co[r].st # "unused" \/ r \notin Cos,
           NEW s \in Services, NEW k \in Cos, v.co[k].srv = s,
           v.co[k].st # "unused",
           k = r \/ ~(v.co[k].st = "waiting" /\ v.co[k].kind = "call"),
           NEW w \in CutRun(v, s, k)
    PROVE  /\ Good(w, q, gone, r)
           /\ w.co[k].cut /\ w.co[k].st # "waiting"
           /\ \A i \in Cos : i # k /\ v.co[i].st # "unused" => w.co[i] = v.co[i]
<1> DEFINE b == [v.co[k] EXCEPT !.cut = TRUE]
           a == EditCo(v, k, b)
<1>1. v \in Views /\ v.co[k] \in Coroutine
  BY ViewTypes DEF Good
<1>2. /\ b \in Coroutine /\ SameIdentity(v.co[k], b) /\ b.st = v.co[k].st
      /\ b.wait = v.co[k].wait /\ b.kind = v.co[k].kind /\ b.done = v.co[k].done /\ b.cut
  BY <1>1 DEF Coroutine, SameIdentity
<1>3. PICK c \in Unyielding(a, s) :
        \/ \E st \in {"dead", "ended", "lost"} : w = Ended(c, k, st)
        \/ w \in Calls(c, s, k)
  BY DEF CutRun, EditCo
<1> HIDE DEF b
<1>4. Good(a, q, gone, r)
  BY <1>2, GoodCut
<1>5. a \in Views /\ a.co[k] = b /\ \A i \in Cos : i # k => a.co[i] = v.co[i]
  BY <1>1, <1>2, EditCoFacts
<1> HIDE DEF a
<1>6. /\ Good(c, q, gone, r) /\ c \in Views /\ c.co[k] = b
      /\ \A i \in Cos : i # k /\ v.co[i].st # "unused" => c.co[i] = v.co[i]
  <2>1. a.co[r].st # "unused" \/ r \notin Cos
    BY <1>2, <1>5
  <2>2. /\ Good(c, q, gone, r)
        /\ \A i \in Cos : a.co[i].st # "unused" => c.co[i] = a.co[i]
    BY <1>4, <2>1, GoodUnyielding
  <2> QED BY <1>2, <1>5, <2>2 DEF Good
<1>7. Loose(c, k, r) /\ c.co[k].srv = s
  BY <1>2, <1>6 DEF Loose, SameIdentity
<1>8. ASSUME NEW st \in {"dead", "ended", "lost"}, w = Ended(c, k, st)
      PROVE  /\ Good(w, q, gone, r)
             /\ w.co[k].cut /\ w.co[k].st # "waiting"
             /\ \A i \in Cos : i # k /\ v.co[i].st # "unused" => w.co[i] = v.co[i]
  <2>1. PICK d \in Coroutine :
          /\ Ended(c, k, st) = EditCo(c, k, d)
          /\ SameIdentity(c.co[k], d) /\ d.st = st /\ d.wait = c.co[k].wait
          /\ d.kind = c.co[k].kind /\ d.done = c.co[k].done /\ d.cut = c.co[k].cut
    BY <1>6, EndedEdit
  <2>2. Good(w, q, gone, r)
    BY <1>2, <1>6, <1>7, <1>8, <2>1, GoodRunEdit
  <2>3. w.co[k] = d /\ \A i \in Cos : i # k => w.co[i] = c.co[i]
    BY <1>6, <1>8, <2>1, EditCoFacts
  <2> QED BY <1>2, <1>6, <2>1, <2>2, <2>3
<1>9. CASE w \in Calls(c, s, k)
  <2>1. Good(w, q, gone, r) /\ Calling(c, w, q, s, k)
    BY <1>2, <1>6, <1>7, <1>9, GoodCalls
  <2> QED BY <1>2, <1>6, <2>1 DEF Calling
<1> QED BY <1>3, <1>8, <1>9

\* A coroutine that runs under suspend and fails.
LEMMA GoodRunFails ==
    ASSUME NEW v, NEW q, NEW r \in Cos, Good(v, q, gone, r),
           NEW s \in Services, Running(v, s, r), NEW w \in RunFails(v, s, r)
    PROVE  Good(w, q, gone, NoCo)
<1>1. ASSUME NEW u \in Before(v, s, r), w = suspendError(u, s, r)
      PROVE  Good(w, q, gone, NoCo)
  <2>1. Good(u, q, gone, r) /\ Running(u, s, r)
    BY GoodBefore
  <2> QED BY <1>1, <2>1, GoodError DEF Running
<1>2. ASSUME NEW u \in resume_kcall(v, s), w = suspendError(u, s, r)
      PROVE  Good(w, q, gone, NoCo)
  <2>1. PICK j \in Cos : /\ v.co[j].srv = s /\ v.co[j].kind = "kcall"
                         /\ v.co[j].st = "waiting" /\ v.sessions[s][v.co[j].wait] = j
                         /\ u \in CutRun(v, s, j)
    BY DEF resume_kcall, InKcall
  <2>2. /\ Good(u, q, gone, r) /\ u.co[j].cut
        /\ \A i \in Cos : i # j /\ v.co[i].st # "unused" => u.co[i] = v.co[i]
    BY <2>1, GoodCutRun DEF Running
  <2>3. j # r
    <3>1. v.co[j].wait \in SessionIds
      BY <2>1, Basics, ViewTypes DEF Good, Formed, Coroutine
    <3> QED BY <2>1, <3>1, Basics DEF Good, Entered
  <2>4. Running(u, s, r)
    BY <2>2, <2>3 DEF Running
  <2> QED BY <1>2, <2>2, <2>4, GoodError DEF Running
<1>3. ASSUME NEW u \in Before(v, s, r), w = Ended(u, r, "lost")
      PROVE  Good(w, q, gone, NoCo)
  <2>1. Good(u, q, gone, r) /\ Running(u, s, r)
    BY GoodBefore
  <2> QED BY <1>3, <2>1, GoodEnded
<1> QED BY <1>1, <1>2, <1>3 DEF RunFails

-----------------------------------------------------------------------------
(* The steps *)

LEMMA Carried ==
    ASSUME NEW u, View' = u, Good(u, errorQueue', gone', NoCo),
           errorQueue' \in Queues, down' \in DownSets, drain' \subseteq Services,
           exiting' \subseteq Services, gone' \subseteq Services, roots' \in 0 .. MaxRoots
    PROVE  SessionsInv'
BY DEF SessionsInv

LEMMA Applied ==
    ASSUME NEW u \in Views, Apply(u)
    PROVE  View' = u
<1>1. u = Mk(u.inbox, u.nsession, u.co, u.sessions, u.watching)
  BY ViewIsMk
<1> QED BY <1>1 DEF Apply, View, Mk

\* A step that ends in a Good view keeps the invariant.
LEMMA StepTo ==
    ASSUME SessionsInv, NEW u, Good(u, errorQueue', gone, NoCo), Apply(u), UNCHANGED lives,
           errorQueue' \in Queues, down' \in DownSets, drain' \subseteq Services,
           roots' \in 0 .. MaxRoots
    PROVE  SessionsInv'
<1>1. View' = u
  BY Applied DEF Good
<1>2. Good(u, errorQueue', gone', NoCo) /\ exiting' \subseteq Services /\ gone' \subseteq Services
  BY DEF SessionsInv, lives
<1> QED BY <1>1, <1>2, Carried

LEMMA ResumeStep ==
    ASSUME SessionsInv, NEW v, NEW s \in Services, NEW k \in Cos,
           Good(v, errorQueue, gone, k), Running(v, s, k), Resume(v, s, k),
           UNCHANGED <<down, errorQueue, lives, roots>>
    PROVE  SessionsInv'
<1>1. PICK u : Apply(u) /\ (u \in Run(v, s, k) \/ u \in RunFails(v, s, k))
  BY DEF Resume
<1>2. drain' \subseteq Services
  BY DEF Resume, SessionsInv
<1>3. Good(u, errorQueue, gone, NoCo)
  BY <1>1, GoodRun, GoodRunFails
<1> QED BY <1>1, <1>2, <1>3, StepTo DEF SessionsInv

LEMMA TakenIs ==
    ASSUME SessionsInv, NEW s \in Services
    PROVE  /\ View \in Views
           /\ View.inbox = inbox /\ View.nsession = nsession /\ View.co = co
           /\ View.sessions = sessions /\ View.watching = watching
           /\ Taken(s) = EditInbox(View, s, Tail(inbox[s]))
<1>1. View \in Views
  BY DEF SessionsInv, Good
<1>2. /\ View.inbox = inbox /\ View.nsession = nsession /\ View.co = co
      /\ View.sessions = sessions /\ View.watching = watching
  BY DEF View
<1> QED BY <1>1, <1>2 DEF Taken, EditInbox

\* raw_dispatch_message of a request.
LEMMA RequestStep ==
    ASSUME SessionsInv, NEW s \in Services, dispatchRequest(s)
    PROVE  SessionsInv'
<1> DEFINE m == Head(inbox[s])
           c == Handler(s, m)
<1>1. PICK k \in Cos : /\ Fresh(View, k)
                       /\ \/ Resume([Taken(s) EXCEPT !.co[k] = c], s, k)
                          \/ Apply([Taken(s) EXCEPT !.co[k] = c]) /\ UNCHANGED drain
  BY DEF dispatchRequest
<1>2. /\ View \in Views /\ View.inbox = inbox /\ View.co = co
      /\ Taken(s) = EditInbox(View, s, Tail(inbox[s]))
  BY TakenIs
<1>3. inbox[s] # << >> /\ m.type = "request" /\ UNCHANGED <<down, errorQueue, lives, roots>>
  BY DEF dispatchRequest, Take
<1>4. m \in Message /\ inbox[s] \in Seq(Message)
  <2>1. inbox[s] \in Seq(Message)
    BY <1>2, ViewTypes
  <2> QED BY <1>3, <2>1
<1> HIDE DEF m
<1>5. /\ c \in Coroutine /\ c.st = "lost" /\ c.srv = s /\ c.from = m.from
      /\ c.session = m.session /\ c.wait = 0 /\ c.timer = 0 /\ ~c.done
  <2>1. 0 \in 0 .. MaxSession /\ m.from \in Services \cup {None} /\ m.session \in 0 .. MaxSession
    BY <1>4, Basics DEF Message
  <2> QED BY <2>1 DEF Handler, Coroutine, Unused
<1> DEFINE x == EditCo(View, k, c)
           y == EditInbox(x, s, Tail(x.inbox[s]))
<1>6. Good(x, errorQueue, gone, k)
  <2>1. View.co[k].st = "unused"
    BY <1>1 DEF Fresh
  <2> HIDE DEF c
  <2> QED BY <1>5, <2>1, GoodNew DEF SessionsInv
<1>7. /\ x \in Views /\ x.co[k] = c /\ x.inbox = inbox
  <2> HIDE DEF c
  <2> QED BY <1>2, <1>5, EditCoFacts
<1>8. [Taken(s) EXCEPT !.co[k] = c] = y
  <2>1. y = EditInbox(x, s, Tail(inbox[s]))
    BY <1>7
  <2> DEFINE g == Tail(inbox[s])
  <2> HIDE DEF c, g
  <2>2. [EditInbox(View, s, g) EXCEPT !.co[k] = c] = EditInbox(EditCo(View, k, c), s, g)
    BY DEF EditInbox, EditCo, View
  <2> QED BY <1>2, <2>1, <2>2 DEF g
<1> HIDE DEF c
<1>9. Spare(x, errorQueue, k, s, Head(x.inbox[s]))
  <2>1. \A t, n : m.from = t /\ m.session = n => Serves(x, k, s, t, n, k)
    BY <1>5, <1>7 DEF Serves
  <2> QED BY <1>3, <1>7, <2>1 DEF Spare, m
<1>10. Good(y, errorQueue, gone, k)
  BY <1>3, <1>6, <1>7, <1>9, GoodDrop
<1>11. y.co[k] = c
  BY <1>3, <1>7, TailFacts
<1> HIDE DEF x, y
<1>12. CASE Resume(y, s, k)
  <2>1. Running(y, s, k)
    BY <1>5, <1>11 DEF Running
  <2> QED BY <1>3, <1>10, <1>12, <2>1, ResumeStep
<1>13. CASE Apply(y) /\ UNCHANGED drain
  <2>1. Good(y, errorQueue, gone, NoCo)
    BY <1>5, <1>10, <1>11, GoodStop
  <2> QED BY <1>3, <1>13, <2>1, StepTo DEF SessionsInv
<1> QED BY <1>1, <1>8, <1>12, <1>13

\* raw_dispatch_message of a response.
LEMMA ResponseStep ==
    ASSUME SessionsInv, NEW s \in Services, dispatchResponse(s)
    PROVE  SessionsInv'
<1> DEFINE m == Head(inbox[s])
           n == m.session
           k == IF n = 0 THEN NoCo ELSE sessions[s][n]
           v == [Taken(s) EXCEPT !.sessions[s][n] = NoCo]
           woken == [v EXCEPT !.watching[s] =
                        IF co[k].wait = 0 THEN @ ELSE [@ EXCEPT ![co[k].wait] = None]]
<1>1. /\ inbox[s] # << >> /\ m.type = "response"
      /\ UNCHANGED <<down, errorQueue, lives, roots>>
      /\ \/ k = NoCo /\ Apply(Taken(s)) /\ UNCHANGED drain
         \/ k # NoCo /\ co[k].st \in {"waiting", "lost"} /\ Resume(woken, s, k)
         \/ /\ k # NoCo /\ co[k].st = "dead"
            /\ Apply(suspendError(v, s, k)) /\ UNCHANGED drain
         \/ k # NoCo /\ co[k].st = "ended" /\ Apply(v) /\ UNCHANGED drain
  BY DEF dispatchResponse, Take
<1>2. /\ View \in Views /\ View.inbox = inbox /\ View.co = co
      /\ View.sessions = sessions /\ View.watching = watching
      /\ Taken(s) = EditInbox(View, s, Tail(inbox[s]))
  BY TakenIs
<1>3. m \in Message /\ n \in 0 .. MaxSession
  <2>1. inbox[s] \in Seq(Message)
    BY <1>2, ViewTypes
  <2>2. m \in Message
    BY <1>1, <2>1
  <2> QED BY <2>2 DEF Message
<1>4. CASE k = NoCo
  <2>1. Spare(View, errorQueue, NoCo, s, Head(View.inbox[s]))
    <3> SUFFICES ASSUME NEW i \in Cos, View.co[i].st = "waiting", View.co[i].kind = "call",
                        s = View.co[i].srv, n = View.co[i].wait
                 PROVE  FALSE
      BY <1>1, <1>2 DEF Spare
    <3>1. n # 0 /\ i # NoCo
      BY Basics DEF SessionsInv, Good, Formed
    <3>2. sessions[s][n] = i
      BY <1>2, <3>1 DEF SessionsInv, Good, Awaited
    <3> QED BY <1>4, <3>1, <3>2
  <2>2. Good(Taken(s), errorQueue, gone, NoCo)
    BY <1>1, <1>2, <2>1, GoodDrop DEF SessionsInv
  <2> QED BY <1>1, <1>4, <2>2, StepTo DEF SessionsInv
<1>5. CASE k # NoCo
  <2> DEFINE x == EditEntry(View, s, n, NoCo)
             y == EditInbox(x, s, Tail(x.inbox[s]))
  <2>1. n \in SessionIds /\ k = sessions[s][n]
    BY <1>3, <1>5, Basics
  <2>2. k \in Cos /\ co[k].srv = s
    BY <1>2, <1>5, <2>1, ViewTypes DEF SessionsInv, Good, Entered
  <2> HIDE DEF n
  <2>3. Good(x, errorQueue, gone, k)
    BY <1>2, <1>5, <2>1, GoodEntry DEF SessionsInv
  <2>4. /\ x \in Views /\ x.sessions[s][n] = NoCo /\ x.inbox = inbox /\ x.co = co
    <3>1. NoCo \in Cos \cup {NoCo}
      OBVIOUS
    <3> QED BY <1>2, <2>1, <3>1, EditEntryFacts
  <2>5. v = y
    <3>1. y = EditInbox(x, s, Tail(inbox[s]))
      BY <2>4
    <3> DEFINE g == Tail(inbox[s])
    <3> HIDE DEF g
    <3>2. [EditInbox(View, s, g) EXCEPT !.sessions[s][n] = NoCo] =
            EditInbox(EditEntry(View, s, n, NoCo), s, g)
      BY DEF EditInbox, EditEntry, View
    <3> QED BY <1>2, <3>1, <3>2 DEF g
  <2>6. Spare(x, errorQueue, k, s, Head(x.inbox[s]))
    <3> SUFFICES ASSUME NEW i \in Cos, i # k, x.co[i].st = "waiting", x.co[i].kind = "call",
                        s = x.co[i].srv, n = x.co[i].wait
                 PROVE  FALSE
      BY <1>1, <2>4 DEF Spare, n
    <3>1. x.sessions[s][n] = i
      BY <2>3 DEF Good, Awaited
    <3> QED BY <2>4, <3>1, Basics
  <2>7. Good(y, errorQueue, gone, k)
    BY <1>1, <2>3, <2>4, <2>6, GoodDrop
  <2>8. y \in Views /\ y.co = co
    BY <1>1, <2>4, TailFacts
  <2> HIDE DEF x, y, k, v
  <2>9. CASE co[k].st = "dead" /\ Apply(suspendError(v, s, k)) /\ UNCHANGED drain
    <3>1. Good(suspendError(y, s, k), errorQueue, gone, NoCo)
      BY <2>2, <2>7, <2>8, <2>9, GoodError
    <3> QED BY <1>1, <2>5, <2>9, <3>1, StepTo DEF SessionsInv
  <2>10. CASE co[k].st = "ended" /\ Apply(v) /\ UNCHANGED drain
    <3>1. Good(y, errorQueue, gone, NoCo)
      BY <2>2, <2>7, <2>8, <2>10, GoodStop
    <3> QED BY <1>1, <2>5, <2>10, <3>1, StepTo DEF SessionsInv
  <2>11. CASE co[k].st \in {"waiting", "lost"} /\ Resume(woken, s, k)
    <3>1. CASE co[k].wait = 0
      <4>1. woken = y
        <5>1. woken = [y EXCEPT !.watching = [y.watching EXCEPT ![s] = y.watching[s]]]
          BY <2>5, <3>1
        <5>2. [y.watching EXCEPT ![s] = y.watching[s]] = y.watching
          BY <2>8, ViewTypes
        <5>3. y = Mk(y.inbox, y.nsession, y.co, y.sessions, y.watching)
          BY <2>8, ViewIsMk
        <5> QED BY <5>1, <5>2, <5>3 DEF Mk
      <4>2. Running(y, s, k)
        BY <2>2, <2>8, <2>11 DEF Running
      <4> QED BY <1>1, <2>2, <2>7, <2>11, <4>1, <4>2, ResumeStep
    <3>2. CASE co[k].wait # 0
      <4> DEFINE w == EditWatch(y, s, co[k].wait, None)
      <4>1. co[k].wait \in SessionIds
        BY <1>2, <2>2, <3>2, Basics, ViewTypes DEF Coroutine
      <4>2. woken = w
        BY <2>5, <3>2 DEF EditWatch
      <4>3. Good(w, errorQueue, gone, k)
        BY <2>2, <2>7, <2>8, <4>1, GoodUnwatch
      <4>4. w.co = co
        BY <2>8, <4>1, EditWatchFacts
      <4>5. Running(w, s, k)
        BY <2>2, <2>11, <4>4 DEF Running
      <4> HIDE DEF w, woken
      <4> QED BY <1>1, <2>2, <2>11, <4>2, <4>3, <4>5, ResumeStep
    <3> QED BY <3>1, <3>2
  <2> QED BY <1>1, <1>5, <2>9, <2>10, <2>11
<1> QED BY <1>4, <1>5

\* What a queue holds after an append, a concatenation or a Tail.
LEMMA QueueFacts ==
    ASSUME NEW q \in Queues, NEW s \in Services, NEW x \in Seq(SessionIds)
    PROVE  /\ [q EXCEPT ![s] = x] \in Queues
           /\ \A t \in Services, n \in SessionIds :
                InQueue([q EXCEPT ![s] = x], t, n) <=>
                    IF t = s THEN Holds(x, n) ELSE InQueue(q, t, n)
BY DEF Queues, InQueue

LEMMA ConcatHolds ==
    ASSUME NEW x \in Seq(SessionIds), NEW y \in Seq(SessionIds), NEW n
    PROVE  /\ x \o y \in Seq(SessionIds)
           /\ Holds(x \o y, n) <=> Holds(x, n) \/ Holds(y, n)
<1>1. /\ x \o y \in Seq(SessionIds) /\ Len(x \o y) = Len(x) + Len(y)
      /\ \A i \in 1 .. Len(x) + Len(y) :
            (x \o y)[i] = IF i <= Len(x) THEN x[i] ELSE y[i - Len(x)]
  BY ConcatProperties
<1>2. /\ DOMAIN x = 1 .. Len(x) /\ DOMAIN y = 1 .. Len(y)
      /\ DOMAIN (x \o y) = 1 .. Len(x) + Len(y)
      /\ Len(x) \in Nat /\ Len(y) \in Nat
  BY <1>1, LenProperties
<1>3. ASSUME NEW i \in DOMAIN (x \o y), (x \o y)[i] = n
      PROVE  (\E j \in DOMAIN x : x[j] = n) \/ (\E j \in DOMAIN y : y[j] = n)
  <2>1. CASE i <= Len(x)
    BY <1>1, <1>2, <1>3, <2>1
  <2>2. CASE ~(i <= Len(x))
    <3>1. i - Len(x) \in DOMAIN y /\ y[i - Len(x)] = n
      BY <1>1, <1>2, <1>3, <2>2
    <3> QED BY <3>1
  <2> QED BY <2>1, <2>2
<1>4. ASSUME NEW j \in DOMAIN x, x[j] = n
      PROVE  \E i \in DOMAIN (x \o y) : (x \o y)[i] = n
  <2>1. j \in DOMAIN (x \o y) /\ (x \o y)[j] = n
    BY <1>1, <1>2, <1>4
  <2> QED BY <2>1
<1>5. ASSUME NEW j \in DOMAIN y, y[j] = n
      PROVE  \E i \in DOMAIN (x \o y) : (x \o y)[i] = n
  <2>1. Len(x) + j \in DOMAIN (x \o y) /\ (x \o y)[Len(x) + j] = n
    BY <1>1, <1>2, <1>5
  <2> QED BY <2>1
<1> QED BY <1>1, <1>3, <1>4, <1>5 DEF Holds

\* _error_dispatch.
LEMMA ErrorStep ==
    ASSUME SessionsInv, NEW s \in Services, errorDispatch(s)
    PROVE  SessionsInv'
<1> DEFINE m == Head(inbox[s])
           hit == {n \in SessionIds : watching[s][n] = m.from}
<1>1. /\ inbox[s] # << >> /\ m.type = "error" /\ Apply(Taken(s)) /\ UNCHANGED <<lives, roots>>
      /\ drain' = drain \cup {s}
      /\ \/ /\ m.session = 0
            /\ down' = [down EXCEPT ![s] = @ \cup {m.from}]
            /\ \E q \in [1 .. Cardinality(hit) -> hit] :
                  errorQueue' = [errorQueue EXCEPT ![s] = @ \o q]
         \/ /\ m.session # 0 /\ watching[s][m.session] = None
            /\ UNCHANGED <<errorQueue, down>>
         \/ /\ m.session # 0 /\ watching[s][m.session] # None
            /\ errorQueue' = [errorQueue EXCEPT ![s] = Append(@, m.session)]
            /\ UNCHANGED down
  BY DEF errorDispatch, Take
<1>2. /\ View \in Views /\ View.inbox = inbox /\ View.co = co
      /\ View.sessions = sessions /\ View.watching = watching
      /\ Taken(s) = EditInbox(View, s, Tail(inbox[s]))
  BY TakenIs
<1>3. m \in Message /\ \E i \in DOMAIN inbox[s] : inbox[s][i] = m
  BY <1>1, <1>2, TailFacts
<1>4. m.from \in Services
  BY <1>1, <1>2, <1>3 DEF SessionsInv, Good, Errors
<1>5. /\ errorQueue \in Queues /\ errorQueue[s] \in Seq(SessionIds) /\ down \in DownSets
      /\ Good(View, errorQueue, gone, NoCo)
  BY DEF SessionsInv, Queues
<1> HIDE DEF m
<1>6. ASSUME Good(View, errorQueue', gone, NoCo), errorQueue' \in Queues, down' \in DownSets,
             \A i \in Cos : /\ View.co[i].st = "waiting" /\ View.co[i].kind = "call"
                            /\ View.co[i].srv = s /\ View.co[i].wait = m.session
                            => InQueue(errorQueue', s, m.session)
      PROVE  SessionsInv'
  <2>1. Spare(View, errorQueue', NoCo, s, Head(View.inbox[s]))
    BY <1>1, <1>2, <1>6 DEF Spare, m
  <2>2. Good(Taken(s), errorQueue', gone, NoCo)
    BY <1>1, <1>2, <1>6, <2>1, GoodDrop
  <2> QED BY <1>1, <1>6, <2>2, StepTo DEF SessionsInv
<1>7. CASE /\ m.session = 0
           /\ down' = [down EXCEPT ![s] = @ \cup {m.from}]
           /\ \E q \in [1 .. Cardinality(hit) -> hit] :
                  errorQueue' = [errorQueue EXCEPT ![s] = @ \o q]
  <2>1. PICK q \in [1 .. Cardinality(hit) -> hit] :
          errorQueue' = [errorQueue EXCEPT ![s] = errorQueue[s] \o q]
    BY <1>7
  <2>2. q \in Seq(SessionIds) /\ \A i \in DOMAIN q : q[i] \in hit
    <3>1. IsFiniteSet(SessionIds)
      BY Basics, FS_Interval DEF SessionIds
    <3>2. Cardinality(hit) \in Nat
      BY <3>1, FS_Subset, FS_CardinalityType
    <3>3. hit \subseteq SessionIds
      OBVIOUS
    <3> HIDE DEF hit
    <3> QED BY <3>2, <3>3
  <2> DEFINE x == errorQueue[s] \o q
  <2>3. /\ x \in Seq(SessionIds)
        /\ \A n : Holds(x, n) <=>
              Holds(errorQueue[s], n) \/ Holds(q, n)
    <3> DEFINE a == errorQueue[s]
    <3> HIDE DEF a
    <3>1. a \in Seq(SessionIds) /\ x = a \o q
      BY <1>5 DEF a
    <3> HIDE DEF x
    <3>2. x \in Seq(SessionIds)
      BY <2>2, <3>1, ConcatHolds
    <3>3. ASSUME NEW n
          PROVE  Holds(x, n) <=>
                    Holds(a, n) \/ Holds(q, n)
      BY <2>2, <3>1, ConcatHolds
    <3> QED BY <3>2, <3>3 DEF a
  <2> HIDE DEF x
  <2>4. errorQueue' = [errorQueue EXCEPT ![s] = x]
    BY <2>1 DEF x
  <2>5. /\ errorQueue' \in Queues
        /\ \A t \in Services, n \in SessionIds : InQueue(errorQueue', t, n) <=>
              IF t = s THEN Holds(x, n) ELSE InQueue(errorQueue, t, n)
    BY <1>5, <2>3, <2>4, QueueFacts
  <2>6. \A t \in Services, n \in SessionIds :
           InQueue(errorQueue', t, n) => InQueue(errorQueue, t, n) \/ watching[t][n] # None
    <3> SUFFICES ASSUME NEW t \in Services, NEW n \in SessionIds, InQueue(errorQueue', t, n)
                 PROVE  InQueue(errorQueue, t, n) \/ watching[t][n] # None
      OBVIOUS
    <3>1. CASE t = s /\ Holds(q, n)
      BY <1>4, <2>2, <3>1, Basics DEF Holds
    <3>2. CASE t = s /\ Holds(errorQueue[s], n)
      BY <3>2 DEF InQueue
    <3>3. CASE t # s
      BY <2>5, <3>3
    <3>4. t = s => Holds(x, n)
      BY <2>5
    <3> QED BY <2>3, <3>1, <3>2, <3>3, <3>4
  <2>7. \A t \in Services, n \in SessionIds :
           InQueue(errorQueue, t, n) => InQueue(errorQueue', t, n)
    BY <2>3, <2>5 DEF InQueue
  <2>8. down' \in DownSets
    BY <1>4, <1>5, <1>7 DEF DownSets
  <2>9. \A i \in Cos : View.co[i].st = "waiting" /\ View.co[i].kind = "call" =>
          View.co[i].srv \in Services /\ View.co[i].wait \in SessionIds
    BY <1>5, CallerFacts, Basics
  <2>10. Good(View, errorQueue', gone, NoCo)
    BY <1>2, <1>5, <2>6, <2>7, <2>9, GoodQueue
  <2> QED BY <1>6, <1>7, <2>5, <2>8, <2>9, <2>10, Basics
<1>8. CASE m.session # 0 /\ watching[s][m.session] = None /\ UNCHANGED <<errorQueue, down>>
  BY <1>2, <1>5, <1>6, <1>8, Basics DEF Good, CallWatched
<1>9. CASE /\ m.session # 0 /\ watching[s][m.session] # None
           /\ errorQueue' = [errorQueue EXCEPT ![s] = Append(@, m.session)]
           /\ UNCHANGED down
  <2> DEFINE x == Append(errorQueue[s], m.session)
  <2>1. m.session \in SessionIds
    BY <1>3, <1>9, Basics DEF Message
  <2>2. /\ x \in Seq(SessionIds)
        /\ \A n : Holds(x, n) <=>
              Holds(errorQueue[s], n) \/ n = m.session
    <3>1. x = errorQueue[s] \o <<m.session>> /\ <<m.session>> \in Seq(SessionIds)
      BY <1>5, <2>1
    <3>2. \A n : Holds(<<m.session>>, n) <=> n = m.session
      BY DEF Holds
    <3> DEFINE y == <<m.session>>
    <3> HIDE DEF x, y
    <3>3. /\ y \in Seq(SessionIds) /\ x = errorQueue[s] \o y
          /\ \A n : Holds(y, n) <=> n = m.session
      BY <3>1, <3>2 DEF y
    <3> DEFINE a == errorQueue[s]
    <3> HIDE DEF a
    <3>4. a \in Seq(SessionIds) /\ x = a \o y
      BY <1>5, <3>3 DEF a
    <3>5. x \in Seq(SessionIds)
      BY <3>3, <3>4, ConcatHolds
    <3>6. ASSUME NEW n
          PROVE  Holds(x, n) <=>
                    Holds(a, n) \/ Holds(y, n)
      BY <3>3, <3>4, ConcatHolds
    <3> QED BY <3>3, <3>5, <3>6 DEF a
  <2>3. errorQueue' = [errorQueue EXCEPT ![s] = x]
    BY <1>9
  <2> HIDE DEF x
  <2>4. /\ errorQueue' \in Queues
        /\ \A t \in Services, n \in SessionIds : InQueue(errorQueue', t, n) <=>
              IF t = s THEN Holds(x, n) ELSE InQueue(errorQueue, t, n)
    BY <1>5, <2>2, <2>3, QueueFacts
  <2>5. \A t \in Services, n \in SessionIds :
           InQueue(errorQueue', t, n) => InQueue(errorQueue, t, n) \/ watching[t][n] # None
    BY <1>9, <2>2, <2>4 DEF InQueue
  <2>6. \A t \in Services, n \in SessionIds :
           InQueue(errorQueue, t, n) => InQueue(errorQueue', t, n)
    BY <2>2, <2>4 DEF InQueue
  <2>7. \A i \in Cos : View.co[i].st = "waiting" /\ View.co[i].kind = "call" =>
          View.co[i].srv \in Services /\ View.co[i].wait \in SessionIds
    BY <1>5, CallerFacts, Basics
  <2>8. Good(View, errorQueue', gone, NoCo)
    BY <1>2, <1>5, <2>5, <2>6, <2>7, GoodQueue
  <2>9. InQueue(errorQueue', s, m.session)
    BY <2>1, <2>2, <2>4
  <2> QED BY <1>5, <1>6, <1>9, <2>4, <2>8, <2>9
<1> QED BY <1>1, <1>7, <1>8, <1>9

\* dispatch_error_queue.
LEMMA QueueStep ==
    ASSUME SessionsInv, NEW s \in Services, dispatch_error_queue(s)
    PROVE  SessionsInv'
<1> DEFINE n == Head(errorQueue[s])
           k == sessions[s][n]
           v == [View EXCEPT !.sessions[s][n] = NoCo,
                             !.watching[s][n] = IF k = NoCo THEN @ ELSE None]
           x == Tail(errorQueue[s])
<1>1. /\ drain' \subseteq Services /\ UNCHANGED <<down, lives, roots>>
      /\ \/ Apply(View) /\ UNCHANGED errorQueue
         \/ /\ errorQueue[s] # << >>
            /\ errorQueue' = [errorQueue EXCEPT ![s] = x]
            /\ \/ k = NoCo /\ Apply(v)
               \/ k # NoCo /\ \E u \in CutRun(v, s, k) : Apply(u)
  BY DEF dispatch_error_queue, SessionsInv
<1>2. /\ View \in Views /\ View.inbox = inbox /\ View.co = co
      /\ View.sessions = sessions /\ View.watching = watching
  BY TakenIs
<1>3. /\ errorQueue \in Queues /\ errorQueue[s] \in Seq(SessionIds) /\ down \in DownSets
      /\ Good(View, errorQueue, gone, NoCo)
  BY DEF SessionsInv, Queues
<1>4. CASE Apply(View) /\ UNCHANGED errorQueue
  BY <1>1, <1>3, <1>4, StepTo DEF SessionsInv
<1>5. CASE errorQueue[s] # << >> /\ errorQueue' = [errorQueue EXCEPT ![s] = x]
  <2>1. /\ n \in SessionIds /\ x \in Seq(SessionIds)
        /\ \A e : Holds(errorQueue[s], e) <=> e = n \/ Holds(x, e)
    <3> DEFINE a == errorQueue[s]
    <3>1. /\ n \in SessionIds /\ n = a[1] /\ x \in Seq(SessionIds) /\ Len(x) = Len(a) - 1
          /\ \A i \in 1 .. Len(x) : x[i] = a[i + 1]
          /\ Len(a) \in Nat /\ Len(a) >= 1 /\ DOMAIN a = 1 .. Len(a)
      BY <1>3, <1>5, HeadTailProperties, LenProperties
    <3>2. DOMAIN x = 1 .. Len(x) /\ Len(x) \in Nat
      BY <3>1, LenProperties
    <3> HIDE DEF a, n, x
    <3>3. ASSUME NEW e, NEW i \in DOMAIN a, a[i] = e, e # n PROVE \E j \in DOMAIN x : x[j] = e
      <4>1. i - 1 \in DOMAIN x /\ x[i - 1] = e
        BY <3>1, <3>2, <3>3
      <4> QED BY <4>1
    <3>4. ASSUME NEW e, NEW i \in DOMAIN x, x[i] = e PROVE \E j \in DOMAIN a : a[j] = e
      <4>1. i + 1 \in DOMAIN a /\ a[i + 1] = e
        BY <3>1, <3>2, <3>4
      <4> QED BY <4>1
    <3>5. \E j \in DOMAIN a : a[j] = n
      BY <3>1
    <3>6. ASSUME NEW e PROVE Holds(a, e) <=> e = n \/ Holds(x, e)
      BY <3>3, <3>4, <3>5 DEF Holds
    <3> QED BY <3>1, <3>6 DEF a
  <2> HIDE DEF x, n
  <2>2. /\ errorQueue' \in Queues
        /\ \A t \in Services, e \in SessionIds : InQueue(errorQueue', t, e) <=>
              IF t = s THEN Holds(x, e) ELSE InQueue(errorQueue, t, e)
    BY <1>3, <1>5, <2>1, QueueFacts
  <2>3. \A t \in Services, e \in SessionIds :
          /\ InQueue(errorQueue', t, e) => InQueue(errorQueue, t, e)
          /\ InQueue(errorQueue, t, e) => InQueue(errorQueue', t, e) \/ (t = s /\ e = n)
    BY <2>1, <2>2 DEF InQueue
  <2>4. InQueue(errorQueue, s, n)
    BY <2>1 DEF InQueue
  <2>5. down' \in DownSets
    BY <1>1, <1>3
  <2>6. CASE k = NoCo /\ Apply(v)
    <3>1. v = View
      <4>1. v = [View EXCEPT !.sessions[s][n] = View.sessions[s][n],
                             !.watching[s][n] = View.watching[s][n]]
        BY <1>2, <2>6
      <4> DEFINE f == [View.sessions EXCEPT ![s][n] = View.sessions[s][n]]
                 g == [View.watching EXCEPT ![s][n] = View.watching[s][n]]
      <4>2. f = View.sessions
        BY <1>2, ViewTypes
      <4>3. g = View.watching
        BY <1>2, ViewTypes
      <4>4. v = [View EXCEPT !.sessions = f, !.watching = g]
        BY <4>1
      <4>5. View = Mk(View.inbox, View.nsession, View.co, View.sessions, View.watching)
        BY <1>2, ViewIsMk
      <4> HIDE DEF f, g, v
      <4> QED BY <4>2, <4>3, <4>4, <4>5 DEF Mk
    <3>2. \A i \in Cos : View.co[i].st = "waiting" /\ View.co[i].kind = "call" =>
            /\ View.co[i].srv \in Services /\ View.co[i].wait \in SessionIds
            /\ ~(View.co[i].srv = s /\ View.co[i].wait = n)
      <4> SUFFICES ASSUME NEW i \in Cos, View.co[i].st = "waiting", View.co[i].kind = "call"
                   PROVE  /\ View.co[i].srv \in Services /\ View.co[i].wait \in SessionIds
                          /\ ~(View.co[i].srv = s /\ View.co[i].wait = n)
        OBVIOUS
      <4>1. i # NoCo
        BY Basics
      <4>2. View.sessions[View.co[i].srv][View.co[i].wait] = i
        BY <1>3, <4>1 DEF Good, Awaited
      <4>3. View.co[i].srv \in Services /\ View.co[i].wait \in SessionIds
        BY <1>3, <4>1, CallerFacts
      <4> QED BY <1>2, <2>6, <4>1, <4>2, <4>3
    <3>3. Good(View, errorQueue', gone, NoCo)
      BY <1>3, <2>3, <3>2, GoodQueue
    <3> QED BY <1>1, <2>2, <2>5, <2>6, <3>1, <3>3, StepTo DEF SessionsInv
  <2>7. CASE k # NoCo /\ \E u \in CutRun(v, s, k) : Apply(u)
    <3> DEFINE y == EditEntry(View, s, n, NoCo)
               z == EditWatch(y, s, n, None)
    <3>1. /\ k \in Cos /\ co[k].srv = s /\ co[k].st = "waiting" /\ co[k].wait = n
      <4>1. k \in Cos
        BY <1>2, <2>1, <2>7, ViewTypes
      <4>2. co[k].srv = s
        BY <1>2, <1>3, <2>1, <2>7 DEF Good, Entered
      <4>3. co[k].st = "waiting" /\ co[k].wait = n
        BY <1>2, <1>3, <2>1, <2>4, <2>7 DEF Good, Watched
      <4> QED BY <4>1, <4>2, <4>3
    <3>2. Good(y, errorQueue, gone, k)
      BY <1>2, <1>3, <2>1, <2>7, GoodEntry
    <3>3. y \in Views /\ y.co = co /\ y.sessions[s][n] = NoCo
      <4>1. NoCo \in Cos \cup {NoCo}
        OBVIOUS
      <4> QED BY <1>2, <2>1, <4>1, EditEntryFacts
    <3> HIDE DEF k
    <3>4. v = z
      <4>1. v = [View EXCEPT !.sessions[s][n] = NoCo, !.watching[s][n] = None]
        BY <2>7
      <4> QED BY <4>1 DEF EditWatch, EditEntry, View
    <3> HIDE DEF y, v
    <3>5. \A i \in Cos : i # k /\ y.co[i].st = "waiting" /\ y.co[i].kind = "call" =>
            /\ y.co[i].srv \in Services /\ y.co[i].wait \in SessionIds
            /\ ~(y.co[i].srv = s /\ y.co[i].wait = n)
      <4> SUFFICES ASSUME NEW i \in Cos, i # k, y.co[i].st = "waiting", y.co[i].kind = "call"
                   PROVE  /\ y.co[i].srv \in Services /\ y.co[i].wait \in SessionIds
                          /\ ~(y.co[i].srv = s /\ y.co[i].wait = n)
        OBVIOUS
      <4>1. y.sessions[y.co[i].srv][y.co[i].wait] = i
        BY <3>2 DEF Good, Awaited
      <4>2. y.co[i].srv \in Services /\ y.co[i].wait \in SessionIds
        BY <3>2, CallerFacts
      <4> QED BY <3>3, <4>1, <4>2, Basics
    <3>6. Good(y, errorQueue', gone, k)
      <4>1. \A t \in Services, e \in SessionIds :
              InQueue(errorQueue', t, e) => InQueue(errorQueue, t, e) \/ y.watching[t][e] # None
        BY <2>3
      <4> QED BY <2>3, <3>2, <3>5, <4>1, GoodQueue
    <3>7. Good(z, errorQueue', gone, k)
      BY <2>1, <3>1, <3>3, <3>6, GoodUnwatch
    <3>8. z.co = co
      BY <2>1, <3>3, EditWatchFacts
    <3> HIDE DEF z
    <3>9. PICK u \in CutRun(z, s, k) : Apply(u)
      BY <2>7, <3>4
    <3>10. Good(u, errorQueue', gone, k) /\ u.co[k].cut /\ u.co[k].st # "waiting"
      BY <3>1, <3>7, <3>8, GoodCutRun
    <3>11. Good(u, errorQueue', gone, NoCo)
      BY <3>1, <3>10, GoodStop
    <3> QED BY <1>1, <2>2, <2>5, <3>9, <3>11, StepTo DEF SessionsInv
  <2> QED BY <1>1, <2>6, <2>7, <1>4
<1> QED BY <1>1, <1>4, <1>5

\* Messages from the C code.
LEMMA OutsideStep ==
    ASSUME SessionsInv, NEW s \in Services,
           Root(s) \/ \E n \in SessionIds : Expire(s, n)
    PROVE  SessionsInv'
<1>1. PICK n \in 0 .. MaxSession, type \in {"request", "response"} :
        /\ Apply(send(View, s, Msg(type, None, n)))
        /\ roots < MaxRoots /\ roots' = roots + 1 /\ UNCHANGED <<down, errorQueue, drain, lives>>
  <2>1. CASE Root(s)
    BY <2>1, Basics DEF Root
  <2>2. CASE \E n \in SessionIds : Expire(s, n)
    BY <2>2, Basics DEF Expire
  <2> QED BY <2>1, <2>2
<1> DEFINE m == Msg(type, None, n)
<1>2. m \in Message /\ m.type # "error"
  BY <1>1 DEF Msg, Message
<1>3. roots' \in 0 .. MaxRoots
  BY <1>1, SessionsAssumption DEF SessionsInv
<1> HIDE DEF m
<1>4. Good(send(View, s, m), errorQueue, gone, NoCo)
  BY <1>2, GoodSend DEF SessionsInv
<1>5. Apply(send(View, s, m))
  BY <1>1 DEF m
<1> QED BY <1>1, <1>3, <1>4, <1>5, StepTo DEF SessionsInv

\* An EXIT is taken: nobody is owed what it brings.
LEMMA ExitStep ==
    ASSUME SessionsInv, NEW s \in Services, dispatchExit(s)
    PROVE  SessionsInv'
<1>1. /\ inbox[s] # << >> /\ Head(inbox[s]).type = "exit" /\ Apply(Taken(s))
      /\ exiting' = exiting \cup {s} /\ UNCHANGED <<down, errorQueue, drain, gone, roots>>
  BY DEF dispatchExit, Take
<1>2. /\ View \in Views /\ View.inbox = inbox /\ View.co = co
      /\ Taken(s) = EditInbox(View, s, Tail(inbox[s]))
  BY TakenIs
<1>3. Spare(View, errorQueue, NoCo, s, Head(View.inbox[s]))
  BY <1>1, <1>2 DEF Spare
<1>4. Good(Taken(s), errorQueue, gone, NoCo)
  BY <1>1, <1>2, <1>3, GoodDrop DEF SessionsInv
<1>5. View' = Taken(s)
  BY <1>1, <1>4, Applied DEF Good
<1>6. Good(View', errorQueue', gone', NoCo)
  BY <1>1, <1>4, <1>5
<1> QED BY <1>1, <1>6, Carried DEF SessionsInv

(* A service is freed with the messages it has not dispatched: callers of   *)
(* it are owed nothing any more, and it needs no answers.                   *)
LEMMA ReleaseStep ==
    ASSUME SessionsInv, NEW s \in Services, contextRelease(s)
    PROVE  SessionsInv'
<1> DEFINE u == EditInbox(View, s, << >>)
           g == gone \cup {s}
<1>1. /\ Apply(u) /\ gone' = g /\ exiting' \subseteq Services
      /\ UNCHANGED <<down, errorQueue, drain, roots>>
  BY DEF contextRelease, EditInbox, SessionsInv
<1>2. Good(View, errorQueue, gone, NoCo) /\ View \in Views
  BY DEF SessionsInv, Good
<1>3. /\ u \in Views /\ u.inbox[s] = << >>
      /\ \A t \in Services : t # s => u.inbox[t] = View.inbox[t]
      /\ u.nsession = View.nsession /\ u.co = View.co
      /\ u.sessions = View.sessions /\ u.watching = View.watching
  <2>1. << >> \in Seq(Message)
    OBVIOUS
  <2> QED BY <1>2, <2>1, EditInboxFacts
<1> HIDE DEF u
<1>4. /\ Formed(u) /\ Distinct(u) /\ Entered(u, NoCo) /\ Awaited(u, NoCo)
      /\ Watched(u, errorQueue) /\ CallWatched(u, NoCo)
  BY <1>2, <1>3
  DEF Good, Formed, Distinct, Entered, Awaited, Watched, CallWatched
<1>5. Errors(u)
  BY <1>2, <1>3 DEF Good, Errors
<1>6. Owed(u, errorQueue, g, NoCo)
  <2> SUFFICES ASSUME NEW k \in Cos, k # NoCo, u.co[k].st = "waiting", u.co[k].kind = "call",
                      ~u.co[k].cut, u.co[k].srv \notin g,
                      u.watching[u.co[k].srv][u.co[k].wait] \notin g
               PROVE  OwedTo(u, errorQueue, NoCo, u.co[k].srv, u.co[k].wait,
                                u.watching[u.co[k].srv][u.co[k].wait])
    BY DEF Owed
  <2> DEFINE t == u.co[k].srv
             n == u.co[k].wait
             d == u.watching[t][n]
  <2>1. OwedTo(View, errorQueue, NoCo, t, n, d)
    BY <1>2, <1>3 DEF Good, Owed
  <2>2. t \in Services /\ d \in Services /\ t # s /\ d # s
    BY <1>2, <1>3, CallerFacts
  <2> HIDE DEF t, n, d
  <2>3. u.inbox[t] = View.inbox[t] /\ u.inbox[d] = View.inbox[d]
    BY <1>3, <2>2
  <2>4. \A type, from, e : /\ Transit(View, t, type, from, e) => Transit(u, t, type, from, e)
                           /\ Transit(View, d, type, from, e) => Transit(u, d, type, from, e)
    BY <2>3 DEF Transit
  <2>5. \A j \in Cos : Serves(View, j, d, t, n, NoCo) => Serves(u, j, d, t, n, NoCo)
    BY <1>3 DEF Serves
  <2>6. OwedTo(u, errorQueue, NoCo, t, n, d)
    BY <2>1, <2>4, <2>5 DEF OwedTo
  <2> QED BY <2>6 DEF t, n, d
<1>7. Good(u, errorQueue, g, NoCo)
  BY <1>3, <1>4, <1>5, <1>6 DEF Good
<1>8. View' = u
  BY <1>1, <1>3, Applied
<1>9. gone' \subseteq Services
  BY <1>1 DEF SessionsInv
<1> QED BY <1>1, <1>7, <1>8, <1>9, Carried DEF SessionsInv

LEMMA SessionsInit ==
    ASSUME Init PROVE SessionsInv
<1>1. /\ Unused \in Coroutine /\ Unused.st = "unused" /\ Unused.srv = None
      /\ Unused.wait = 0 /\ Unused.timer = 0
  <2>1. 0 \in 0 .. MaxSession
    BY Basics
  <2> QED BY <2>1 DEF Unused, Coroutine
<1>2. /\ View.inbox = inbox /\ View.nsession = nsession /\ View.co = co
      /\ View.sessions = sessions /\ View.watching = watching
  BY DEF View
<1>3. \A s \in Services : inbox[s] = << >> /\ errorQueue[s] = << >> /\ down[s] = {}
  BY DEF Init
<1>4. \A s \in Services, n \in SessionIds : sessions[s][n] = NoCo /\ watching[s][n] = None
  BY DEF Init
<1>5. \A k \in Cos : co[k] = Unused
  BY DEF Init
<1>6. View \in Views
  <2>1. inbox \in [Services -> Seq(Message)]
    BY DEF Init
  <2>2. nsession \in [Services -> 1 .. MaxSession + 1]
    BY Basics DEF Init
  <2>3. co \in [Cos -> Coroutine]
    BY <1>1 DEF Init
  <2>4. sessions \in [Services -> [SessionIds -> Cos \cup {NoCo}]]
    BY DEF Init
  <2>5. watching \in [Services -> [SessionIds -> Services \cup {None}]]
    BY DEF Init
  <2> QED BY <2>1, <2>2, <2>3, <2>4, <2>5 DEF View, Views
<1>7. errorQueue \in Queues /\ down \in DownSets
  BY DEF Init, Queues, DownSets
<1>8. /\ drain \subseteq Services /\ roots \in 0 .. MaxRoots
      /\ exiting \subseteq Services /\ gone \subseteq Services
  BY SessionsAssumption DEF Init
<1>9. Formed(View) /\ Distinct(View)
  BY <1>1, <1>2, <1>5 DEF Formed, Distinct
<1>10. Entered(View, NoCo) /\ Awaited(View, NoCo)
  BY <1>1, <1>2, <1>4, <1>5 DEF Entered, Awaited
<1>11. \A s \in Services, n \in SessionIds : ~InQueue(errorQueue, s, n)
  BY <1>3 DEF InQueue, Holds
<1>12. Watched(View, errorQueue) /\ CallWatched(View, NoCo)
  BY <1>1, <1>2, <1>4, <1>5, <1>11 DEF Watched, CallWatched
<1>13. Errors(View)
  BY <1>2, <1>3 DEF Errors
<1>14. Owed(View, errorQueue, gone, NoCo)
  BY <1>1, <1>2, <1>5 DEF Owed
<1> QED BY <1>6, <1>7, <1>8, <1>9, <1>10, <1>12, <1>13, <1>14 DEF SessionsInv, Good

LEMMA SessionsStep ==
    ASSUME SessionsInv, [Next]_vars
    PROVE  SessionsInv'
<1>1. CASE UNCHANGED vars
  <2>1. View' = View /\ UNCHANGED <<errorQueue, down, drain, exiting, gone, roots>>
    BY <1>1 DEF vars, View
  <2> QED BY <2>1, Carried DEF SessionsInv
<1>2. CASE Next
  BY <1>2, RequestStep, ResponseStep, ErrorStep, QueueStep, ExitStep,
     ReleaseStep, OutsideStep DEF Next
<1> QED BY <1>1, <1>2

LEMMA SessionsInvariant == Spec => []SessionsInv
<1>1. Init => SessionsInv
  BY SessionsInit
<1>2. SessionsInv /\ [Next]_vars => SessionsInv'
  BY SessionsStep
<1> QED BY <1>1, <1>2, PTL DEF Spec

-----------------------------------------------------------------------------
(* The theorems *)

\* Every variable of the session layer keeps its type: no step uses a session
\* that was not given out, or an error message that names no service.
THEOREM SessionTypes == Spec => []TypeOK
<1>1. SessionsInv => TypeOK
  BY DEF SessionsInv, Good, Views, View, Queues, DownSets, TypeOK
<1> QED BY <1>1, SessionsInvariant, PTL

\* An answer reaches the coroutine that waits for it and no other, for any
\* number of services, coroutines and sessions.
THEOREM AnswersFindCallers == Spec => []AnswerFindsCaller
<1>1. SessionsInv => AnswerFindsCaller
  <2> SUFFICES ASSUME SessionsInv PROVE AnswerFindsCaller
    OBVIOUS
  <2>1. View.co = co /\ View.sessions = sessions
    BY DEF View
  <2>2. \A k \in Cos : k # NoCo
    BY Basics
  <2> QED BY <2>1, <2>2 DEF SessionsInv, Good, Entered, Awaited, AnswerFindsCaller
<1> QED BY <1>1, SessionsInvariant, PTL

\* The ways in which a z.call is forgotten are the ones CallOwed lists, for
\* any number of services, coroutines and sessions: the request, the answer,
\* the error or whoever serves it is there, or the service is gone.
THEOREM CallsStayOwed == Spec => []CallOwed
<1>1. SessionsInv => CallOwed
  <2> SUFFICES ASSUME SessionsInv PROVE CallOwed
    OBVIOUS
  <2> SUFFICES ASSUME NEW k \in Cos, co[k].st = "waiting", co[k].kind = "call", ~co[k].cut,
                      co[k].srv \notin gone, watching[co[k].srv][co[k].wait] \notin gone
               PROVE  LET s == co[k].srv  n == co[k].wait  d == watching[s][n] IN
                      \/ Answering(d, s, n)
                      \/ \E j \in Cos :
                            /\ Serving(j, d, s, n)
                            /\ co[j].st \in {"waiting", "ended", "lost"} \/ co[j].cut
    BY DEF CallOwed
  <2> DEFINE s == co[k].srv
             n == co[k].wait
             d == watching[s][n]
  <2>1. View.co = co /\ View.inbox = inbox /\ View.watching = watching /\ k # NoCo
    BY Basics DEF View
  <2>2. OwedTo(View, errorQueue, NoCo, s, n, d)
    BY <2>1 DEF SessionsInv, Good, Owed
  <2> HIDE DEF s, n, d
  <2>3. \A t, type, from, e : Transit(View, t, type, from, e) => InTransit(t, type, from, e)
    BY <2>1 DEF Transit, InTransit
  <2>4. \A j \in Cos : Serves(View, j, d, s, n, NoCo) =>
          Serving(j, d, s, n) /\ (co[j].st \in {"waiting", "ended", "lost"} \/ co[j].cut)
    BY <2>1, Basics DEF Serves, Serving
  <2>5. InQueue(errorQueue, s, n) => \E i \in DOMAIN errorQueue[s] : errorQueue[s][i] = n
    BY DEF InQueue, Holds
  <2> QED BY <2>2, <2>3, <2>4, <2>5 DEF OwedTo, Answering, s, n, d
<1> QED BY <1>1, SessionsInvariant, PTL
==============================================================================
