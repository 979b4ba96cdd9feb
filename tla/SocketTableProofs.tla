-------------------------- MODULE SocketTableProofs --------------------------
(***************************************************************************)
(* The invariants of SocketTable for any number of workers, records and    *)
(* calls.  They rest on one inductive invariant in three parts: what the   *)
(* threads and the requests may look like (Forms), that an id is used by   *)
(* nobody before tcpGetReserveId stored it (FreshIds), and, while no id    *)
(* was recovered twice, who may touch a record (Ownership).                *)
(***************************************************************************)
EXTENDS SocketTable, SequenceTheorems, TLAPS

State(i) == sockets[getIndex(i)].state
Type(i) == sockets[getIndex(i)].type

-----------------------------------------------------------------------------
(* The inductive invariant *)

ThreadForms ==
    /\ \A x \in Threads :
        /\ pc[x] \in {"alloc", "cas", "setId", "accepted"} => arg[x].type \in Opens
        /\ pc[x] \in {"cas", "setId", "accepted"} => arg[x].id \in Ids
        /\ pc[x] = "post" /\ arg[x].type # "stop" => arg[x].id \in Ids
        /\ crash = "no" => tries[x] < SetSize
    /\ \A w \in Workers : pc[w] # "accepted"
    /\ pc[Loop] # "post"
    /\ pc[Loop] # "idle" <=> loop.at = "reserve"

RequestForms ==
    \A k \in 1 .. Len(requests) :
        requests[k].type # "stop" => requests[k].id \in Ids

RecordForms ==
    /\ \A s \in Slots :
        /\ sockets[s].id # NoId => getIndex(sockets[s].id) = s
        /\ sockets[s].reg => sockets[s].id # NoId
        /\ sockets[s].state = "disconnected" => ~sockets[s].reg
    /\ loop.at \in {"recover", "notify"}
          => loop.id \in Ids /\ sockets[getIndex(loop.id)].id # NoId

Forms == TypeOK /\ ThreadForms /\ RequestForms /\ RecordForms

(* Nothing holds an id that is still to be given out. *)
IdsBelow ==
    /\ \A x \in Threads : arg[x].id < allocId
    /\ \A k \in 1 .. Len(requests) : requests[k].id < allocId
    /\ \A s \in Slots : sockets[s].id < allocId
    /\ \A i \in known \cup live \cup conn : i < allocId
    /\ loop.id < allocId

(* i is in no other thread's hands, was told to no service, waits in no    *)
(* request and is not what the loop works on.                              *)
Private(x, i) ==
    /\ \A y \in Threads \ {x} : pc[y] # "alloc" => arg[y].id # i
    /\ i \notin known
    /\ \A k \in 1 .. Len(requests) : requests[k].id # i
    /\ loop.id # i

(* An id that its thread has not stored yet is nowhere else. *)
FreshIds ==
    \A x \in Threads : pc[x] \in {"cas", "setId"} =>
        /\ Private(x, arg[x].id)
        /\ arg[x].id \notin conn
        /\ pc[x] = "cas" => arg[x].id \notin live
        /\ \A s \in Slots : sockets[s].id # arg[x].id

(* x reserved the record for the id in its hands and has not passed it on. *)
Holds(x) == pc[x] \in {"setId", "post", "accepted"} /\ arg[x].type \in Opens

Reserved(i) == i \in live /\ Type(i) = "reserve"

HeldReserved ==
    \A x \in Threads : Holds(x) =>
        /\ Reserved(arg[x].id)
        /\ Private(x, arg[x].id)
        /\ arg[x].id \notin conn
        /\ pc[x] # "setId" => Found(arg[x].id)

(* The request that opens an id comes before every other one for it. *)
OpenReserved ==
    \A k \in 1 .. Len(requests) : requests[k].type \in Opens =>
        /\ Reserved(requests[k].id) /\ Found(requests[k].id)
        /\ requests[k].id \notin conn
        /\ requests[k].id # loop.id
        /\ \A j \in 1 .. k - 1 : requests[j].id # requests[k].id

RecordStates ==
    \A s \in Slots :
        /\ sockets[s].type \in {"none", "reserve"} => sockets[s].state = "disconnected"
        /\ sockets[s].state # "disconnected" => sockets[s].id \in live
        /\ sockets[s].type = "socket" /\ sockets[s].state # "disconnected"
              => sockets[s].buf \subseteq {sockets[s].id}

LiveOwned ==
    \A i \in live :
        /\ \A j \in live \ {i} : getIndex(i) # getIndex(j)
        /\ Type(i) # "none"
        /\ Found(i) \/ Unset(i)

Recovering ==
    loop.at = "recover" =>
        /\ State(loop.id) = "disconnected"
        /\ loop.id \in conn \cap live => loop.tell

(* A connection is connected until the loop is about to recover it. *)
Connected ==
    \A i \in conn \cap live :
        State(i) = "connected" \/ (loop.at = "recover" /\ loop.id = i)

Ownership ==
    /\ HeldReserved /\ OpenReserved /\ RecordStates /\ LiveOwned
    /\ Recovering /\ Connected /\ CloseTold

Inv == /\ Forms /\ IdsBelow /\ FreshIds
       /\ twice \/ Ownership
       /\ RecoverAsserts

-----------------------------------------------------------------------------
(* The operators *)

\* getIndex gives a record of the table.
LEMMA IndexType == \A i \in Nat : getIndex(i) \in Slots
BY TableAssumption DEF getIndex, Slots

\* The ids are numbers above NoId.
LEMMA IdsNat == NoId \in Nat /\ \A i \in Ids : i \in Nat /\ i # NoId
BY TableAssumption DEF Ids, NoId

\* What is left of the requests when the first one was taken.
LEMMA TailIndex ==
    ASSUME requests \in Seq(Request), requests # <<>>, requests' = Tail(requests)
    PROVE  /\ Head(requests) = requests[1] /\ 1 \in 1 .. Len(requests)
           /\ Head(requests) \in Request
           /\ requests' \in Seq(Request) /\ Len(requests') = Len(requests) - 1
           /\ \A k \in 1 .. Len(requests') :
                k + 1 \in 1 .. Len(requests) /\ requests'[k] = requests[k + 1]
OBVIOUS

\* What the requests are when one was posted.
LEMMA AppendIndex ==
    ASSUME requests \in Seq(Request), NEW r \in Request,
           requests' = Append(requests, r)
    PROVE  /\ requests' \in Seq(Request) /\ Len(requests') = Len(requests) + 1
           /\ \A k \in 1 .. Len(requests) : requests'[k] = requests[k]
           /\ requests'[Len(requests) + 1] = r
           /\ \A k \in 1 .. Len(requests') :
                k \in 1 .. Len(requests) \/ k = Len(requests) + 1
OBVIOUS

(* The step leaves every record but s alone, and s has these fields then. *)
Edited(s, id, type, state, reg, buf) ==
    /\ sockets' \in [Slots -> Record]
    /\ sockets'[s].id = id /\ sockets'[s].type = type /\ sockets'[s].state = state
    /\ sockets'[s].reg = reg /\ sockets'[s].buf = buf
    /\ \A r \in Slots \ {s} : sockets'[r] = sockets[r]

Types == {"none", "reserve", "accept", "socket", "connect"}

\* A thread that is given an id keeps a request in its hands.
LEMMA ArgType ==
    ASSUME TypeOK, NEW x \in Threads, NEW i \in Ids,
           arg' = [arg EXCEPT ![x].id = i]
    PROVE  arg' \in [Threads -> Request]
BY DEF TypeOK, Request

\* A step that stores a type.
LEMMA EditType ==
    ASSUME TypeOK, NEW s \in Slots, NEW t \in Types,
           sockets' = [sockets EXCEPT ![s].type = t]
    PROVE  Edited(s, sockets[s].id, t, sockets[s].state, sockets[s].reg, sockets[s].buf)
BY DEF TypeOK, Record, Types, Edited

\* A step that stores an id.
LEMMA EditId ==
    ASSUME TypeOK, NEW s \in Slots, NEW i \in Ids,
           sockets' = [sockets EXCEPT ![s].id = i]
    PROVE  Edited(s, i, sockets[s].type, sockets[s].state, sockets[s].reg,
                  sockets[s].buf)
BY DEF TypeOK, Record, Edited

\* A step that registers the descriptor.
LEMMA EditReg ==
    ASSUME TypeOK, NEW s \in Slots, sockets' = [sockets EXCEPT ![s].reg = TRUE]
    PROVE  Edited(s, sockets[s].id, sockets[s].type, sockets[s].state, TRUE,
                  sockets[s].buf)
BY DEF TypeOK, Record, Edited

\* A step that stores a send buffer.
LEMMA EditBuf ==
    ASSUME TypeOK, NEW s \in Slots, NEW b \in SUBSET Ids,
           sockets' = [sockets EXCEPT ![s].buf = b]
    PROVE  Edited(s, sockets[s].id, sockets[s].type, sockets[s].state,
                  sockets[s].reg, b)
BY DEF TypeOK, Record, Edited

\* handleTcpSocketListen and handleTcpSocketConnect.
LEMMA EditOpen ==
    ASSUME TypeOK, NEW s \in Slots, NEW t \in Types,
           sockets' = [sockets EXCEPT ![s].state = "connecting", ![s].type = t]
    PROVE  Edited(s, sockets[s].id, t, "connecting", sockets[s].reg, sockets[s].buf)
BY DEF TypeOK, Record, Types, Edited

\* socketStart and socketStop.
LEMMA EditStart ==
    ASSUME TypeOK, NEW s \in Slots, NEW r \in BOOLEAN,
           NEW st \in {"connected", "disconnected"},
           sockets' = [sockets EXCEPT ![s].reg = r, ![s].state = st]
    PROVE  Edited(s, sockets[s].id, sockets[s].type, st, r, sockets[s].buf)
BY DEF TypeOK, Record, Edited

\* handleClose.
LEMMA EditClose ==
    ASSUME TypeOK, NEW s \in Slots, NEW b \in SUBSET Ids,
           sockets' = [sockets EXCEPT ![s].state = "disconnected",
                                      ![s].reg = FALSE, ![s].buf = b]
    PROVE  Edited(s, sockets[s].id, sockets[s].type, "disconnected", FALSE, b)
BY DEF TypeOK, Record, Edited

\* onAccept.
LEMMA EditAccepted ==
    ASSUME TypeOK, NEW s \in Slots,
           sockets' = [sockets EXCEPT ![s].type = "socket",
                                      ![s].state = "connecting", ![s].buf = {}]
    PROVE  Edited(s, sockets[s].id, "socket", "connecting", sockets[s].reg, {})
BY DEF TypeOK, Record, Edited

\* tcpRecoverId: its assertion fails, or the record is free again.
LEMMA RecoverCases ==
    ASSUME TypeOK, NEW i \in Ids, NEW where, tcpRecoverId(i, sockets, where)
    PROVE  \/ /\ State(i) # "disconnected" /\ crash' = where
              /\ UNCHANGED <<sockets, live, twice>>
           \/ /\ State(i) = "disconnected"
              /\ LET s == getIndex(i) IN
                 Edited(s, sockets[s].id, "none", sockets[s].state,
                        sockets[s].reg, sockets[s].buf)
              /\ live' = live \ {i} /\ UNCHANGED crash
              /\ twice' = (twice \/ i \notin live \/ where = "recoverInUse")
<1>1. getIndex(i) \in Slots
  BY IndexType, IdsNat
<1>2. CASE State(i) # "disconnected"
  BY <1>2 DEF tcpRecoverId, State
<1>3. CASE State(i) = "disconnected"
  BY <1>1, <1>3, EditType DEF tcpRecoverId, State, Types
<1> QED BY <1>2, <1>3

\* The initial state satisfies the invariant.
LEMMA InitInv == Init => Inv
<1> SUFFICES ASSUME Init PROVE Inv
  OBVIOUS
<1>1. TypeOK
  <2>1. requests \in Seq(Request) /\ Len(requests) <= Capacity
    BY TableAssumption DEF Init
  <2>2. sockets \in [Slots -> Record]
    BY DEF Init, Record
  <2>3. NoRequest \in Request
    BY DEF NoRequest, Request
  <2>4. /\ allocId \in 1 .. MaxId + 1 /\ calls \in 0 .. MaxCalls
        /\ tries \in [Threads -> 0 .. SetSize]
    BY TableAssumption DEF Init
  <2> QED BY <2>1, <2>2, <2>3, <2>4 DEF Init, TypeOK, Idle
<1>2. Len(requests) = 0
  BY DEF Init
<1>3. ThreadForms /\ RequestForms /\ RecordForms
  BY <1>2, TableAssumption DEF Init, ThreadForms, RequestForms, RecordForms, Idle, NoRequest, Threads
<1>4. IdsBelow /\ FreshIds
  BY <1>2 DEF Init, IdsBelow, FreshIds, NoRequest, Idle, NoId
<1>5. HeldReserved /\ OpenReserved /\ RecordStates /\ LiveOwned
  BY <1>2 DEF Init, HeldReserved, Holds, OpenReserved, RecordStates, LiveOwned
<1>6. Recovering /\ Connected /\ CloseTold
  BY DEF Init, Recovering, Connected, CloseTold, Idle
<1> QED BY <1>1, <1>3, <1>4, <1>5, <1>6 DEF Init, Inv, Forms, Ownership, RecoverAsserts

-----------------------------------------------------------------------------
(* Forms is kept by every step. *)

\* A thread is a worker or the loop; the loop is no worker.
LEMMA ThreadCases == Threads = Workers \cup {Loop} /\ Loop \notin Workers
BY TableAssumption DEF Threads

\* The steps of tcpGetReserveId.
LEMMA ReserveForms ==
    ASSUME Forms, crash = "no", NEW x \in Threads,
           ReserveLook(x) \/ ReserveCas(x) \/ ReserveSetId(x)
    PROVE  Forms'
<1> USE DEF Forms
<1>0. allocId \in 1 .. MaxId + 1 /\ MaxId \in Nat /\ SetSize \in Nat
  BY TableAssumption DEF TypeOK
<1>1. CASE ReserveLook(x)
  <2>1. allocId \in Ids
    BY <1>0, <1>1 DEF ReserveLook, Ids
  <2>2. /\ UNCHANGED <<sockets, requests, loop>> /\ allocId' = allocId + 1
        /\ arg' = [arg EXCEPT ![x].id = allocId]
    BY <1>1 DEF ReserveLook
  <2>3. arg' \in [Threads -> Request]
    BY <2>1, <2>2, ArgType
  <2>4. /\ tries[x] + 1 \in 0 .. SetSize /\ tries[x] < SetSize
        /\ tries[x] + 1 = SetSize \/ tries[x] + 1 < SetSize
    BY <1>0 DEF ThreadForms, TypeOK
  <2>5. TypeOK'
    <3>1. /\ pc' \in [Threads -> {"idle", "alloc", "cas", "setId", "post", "accepted"}]
          /\ crash' \in {"no", "full"}
      BY <1>1 DEF TypeOK, ReserveLook, Goto
    <3>2. tries' \in [Threads -> 0 .. SetSize]
      BY <1>1, <2>4 DEF TypeOK, ReserveLook
    <3>3. allocId' \in 1 .. MaxId + 1
      BY <1>0, <2>1, <2>2 DEF Ids
    <3> QED BY <1>1, <2>2, <2>3, <3>1, <3>2, <3>3 DEF TypeOK, ReserveLook, history
  <2>6. ThreadForms'
    BY <1>1, <2>1, <2>2, <2>4, ThreadCases DEF TypeOK, ReserveLook, Goto, ThreadForms
  <2>7. RequestForms' /\ RecordForms'
    BY <2>2 DEF RequestForms, RecordForms
  <2> QED BY <2>5, <2>6, <2>7
<1>2. CASE ReserveCas(x)
  <2> DEFINE s == getIndex(arg[x].id)
  <2>1. arg[x].id \in Ids /\ s \in Slots
    BY <1>2, IdsNat, IndexType DEF ReserveCas, ThreadForms
  <2>2. TypeOK'
    <3>1. sockets' \in [Slots -> Record]
      BY <1>2, <2>1, EditType DEF TypeOK, ReserveCas, Types, Edited
    <3> QED BY <1>2, <2>1, <3>1 DEF TypeOK, ReserveCas, Goto, history
  <2>3. ThreadForms' /\ RequestForms'
    BY <1>2, ThreadCases DEF TypeOK, ReserveCas, Goto, ThreadForms, RequestForms
  <2>4. RecordForms'
    <3>1. UNCHANGED sockets
          \/ Edited(s, sockets[s].id, "reserve", sockets[s].state, sockets[s].reg,
                    sockets[s].buf)
      BY <1>2, <2>1, EditType DEF ReserveCas, Types
    <3>2. UNCHANGED loop
      BY <1>2 DEF ReserveCas
    <3> QED BY <2>1, <3>1, <3>2, IndexType, IdsNat DEF RecordForms, Edited
  <2> QED BY <2>2, <2>3, <2>4
<1>3. CASE ReserveSetId(x)
  <2> DEFINE s == getIndex(arg[x].id)
  <2>1. arg[x].id \in Ids /\ s \in Slots /\ arg[x].id # NoId
    BY <1>3, IdsNat, IndexType DEF ReserveSetId, Goto, ThreadForms
  <2>2. TypeOK'
    <3>1. sockets' \in [Slots -> Record]
      BY <1>3, <2>1, EditId DEF ReserveSetId, Edited
    <3> QED BY <1>0, <1>3, <3>1 DEF TypeOK, ReserveSetId, Goto, history
  <2>3. ThreadForms' /\ RequestForms'
    BY <1>3, TableAssumption, ThreadCases
    DEF TypeOK, ReserveSetId, Goto, ThreadForms, RequestForms
  <2>4. RecordForms'
    BY <1>3, <2>1 DEF TypeOK, ReserveSetId, Goto, RecordForms, Record
  <2> QED BY <2>2, <2>3, <2>4
<1> QED BY <1>1, <1>2, <1>3

\* The calls of the services.
LEMMA WorkerForms ==
    ASSUME Forms, crash = "no", NEW w \in Workers, Worker(w)
    PROVE  Forms'
<1> USE DEF Forms
<1>0. w \in Threads /\ w # Loop /\ calls \in Nat /\ MaxCalls \in Nat
  BY ThreadCases, TableAssumption DEF TypeOK
<1>1. ASSUME NEW type \in Opens, Open(w, type) PROVE Forms'
  <2>1. [type |-> type, id |-> NoId] \in Request
    BY DEF Request
  <2>2. TypeOK'
    BY <1>0, <1>1, <2>1 DEF Open, Reserving, Goto, TypeOK, table, history
  <2>3. ThreadForms' /\ RequestForms' /\ RecordForms'
    BY <1>0, <1>1 DEF Open, Reserving, Goto, TypeOK, table, ThreadForms,
                      RequestForms, RecordForms
  <2> QED BY <2>2, <2>3
<1>2. ASSUME NEW i \in Ids, NEW type \in {"start", "close", "send"}, Use(w, type, i)
      PROVE  Forms'
  <2>1. [type |-> type, id |-> i] \in Request
    BY DEF Request
  <2>2. TypeOK'
    BY <1>0, <1>2, <2>1 DEF Use, Goto, TypeOK, table, history
  <2>3. ThreadForms' /\ RequestForms' /\ RecordForms'
    BY <1>0, <1>2 DEF Use, Goto, TypeOK, table, ThreadForms,
                      RequestForms, RecordForms
  <2> QED BY <2>2, <2>3
<1>3. CASE tcpStop(w)
  <2>1. [type |-> "stop", id |-> NoId] \in Request
    BY DEF Request
  <2>2. TypeOK'
    BY <1>0, <1>3, <2>1 DEF tcpStop, Goto, TypeOK, table, history
  <2>3. ThreadForms' /\ RequestForms' /\ RecordForms'
    BY <1>0, <1>3 DEF tcpStop, Goto, TypeOK, table, ThreadForms,
                      RequestForms, RecordForms
  <2> QED BY <2>2, <2>3
<1>4. CASE PostAccepted(w)
  <2>1. arg[w] \in Request /\ NoRequest \in Request
    BY <1>0 DEF TypeOK, NoRequest, Request
  <2>2. /\ requests' = Append(requests, arg[w]) /\ requests \in Seq(Request)
        /\ Len(requests) < Capacity /\ pc[w] = "post"
    BY <1>4 DEF PostAccepted, Goto, TypeOK
  <2>3. requests' \in Seq(Request) /\ Len(requests') <= Capacity
    BY <2>1, <2>2, AppendIndex, TableAssumption
  <2>4. TypeOK'
    BY <1>0, <1>4, <2>1, <2>3
    DEF PostAccepted, Goto, TypeOK, table, history, Request
  <2>5. RequestForms'
    BY <1>0, <2>1, <2>2, AppendIndex DEF ThreadForms, RequestForms
  <2>6. ThreadForms' /\ RecordForms'
    BY <1>0, <1>4 DEF PostAccepted, Goto, TypeOK, table, ThreadForms, RecordForms
  <2> QED BY <2>4, <2>5, <2>6
<1>5. CASE PostRefused(w)
  <2> DEFINE i == arg[w].id
  <2>1. arg[w] \in Request /\ NoRequest \in Request /\ pc[w] = "post"
    BY <1>0, <1>5 DEF TypeOK, NoRequest, Request, PostRefused, Goto
  <2>2. CASE UNCHANGED table
    <3>1. TypeOK'
      BY <1>0, <1>5, <2>1, <2>2 DEF PostRefused, Goto, TypeOK, table, history
    <3>2. ThreadForms' /\ RequestForms' /\ RecordForms'
      BY <1>0, <1>5, <2>2 DEF PostRefused, Goto, TypeOK, table, ThreadForms,
                              RequestForms, RecordForms
    <3> QED BY <3>1, <3>2
  <2>3. ASSUME NEW where \in {"recoverInPost", "recoverInUse"},
               arg[w].type \notin {"send", "stop"},
               tcpRecoverId(i, sockets, where)
        PROVE  Forms'
    <3>1. i \in Ids /\ getIndex(i) \in Slots
      BY <1>0, <2>1, <2>3, IdsNat, IndexType DEF ThreadForms
    <3>2. TypeOK'
      <4>1. /\ sockets' \in [Slots -> Record] /\ live' \subseteq Ids
            /\ crash' \in {"no", where}
        BY <2>3, <3>1, RecoverCases DEF TypeOK, Edited
      <4>2. twice' \in BOOLEAN
        BY <2>3, <3>1, RecoverCases DEF TypeOK
      <4> QED BY <1>0, <1>5, <2>1, <4>1, <4>2 DEF PostRefused, Goto, TypeOK, history
    <3>3. ThreadForms' /\ RequestForms'
      BY <1>0, <1>5, <2>3
      DEF PostRefused, Goto, TypeOK, ThreadForms, RequestForms, tcpRecoverId
    <3>4. RecordForms'
      BY <1>5, <2>3, <3>1, RecoverCases, IndexType, IdsNat
      DEF PostRefused, RecordForms, Edited
    <3> QED BY <3>2, <3>3, <3>4
  <2> QED BY <1>5, <2>2, <2>3 DEF PostRefused
<1> QED BY <1>1, <1>2, <1>3, <1>4, <1>5
        DEF Worker, tcpSocketListen, tcpSocketConnect, tcpSocketAsyncConnect,
            tcpSocketStart, tcpSocketClose, tcpSocketSend, Opens

-----------------------------------------------------------------------------
(* What the handlers of the loop have in common. *)

(* The loop starts to work on id i: a request was taken, or an event came. *)
Takes(i) ==
    /\ loop.at = "idle"
    /\ \/ requests # <<>> /\ i = Head(requests).id /\ requests' = Tail(requests)
       \/ /\ \E s \in Slots : sockets[s].reg /\ sockets[s].id = i
          /\ UNCHANGED requests
    /\ UNCHANGED <<allocId, pc, tries, arg, known, calls>>

(* What a handler that takes i leaves alone. *)
Handles(i) ==
    /\ Takes(i)
    /\ sockets' \in [Slots -> Record]
    /\ \A s \in Slots : sockets'[s].id = sockets[s].id
    /\ UNCHANGED <<live, twice, crash, closeMsgs>>
    /\ conn \subseteq conn' /\ conn' \subseteq conn \cup {i}
    /\ \/ loop' = loop
       \/ loop'.at \in {"recover", "ended"} /\ loop'.id \in {NoId, i}

\* The requests that are left, and who still holds an id, are not about i.
LEMMA TakesOther ==
    ASSUME Forms, NEW i, Takes(i)
    PROVE  /\ requests' \in Seq(Request) /\ Len(requests') <= Capacity
           /\ \A k \in 1 .. Len(requests') : \E j \in 1 .. Len(requests) :
                requests'[k] = requests[j]
           /\ i \in Ids \cup {NoId}
<1>0. /\ requests \in Seq(Request) /\ Len(requests) <= Capacity
      /\ sockets \in [Slots -> Record]
  BY DEF Forms, TypeOK
<1>1. CASE requests # <<>> /\ i = Head(requests).id /\ requests' = Tail(requests)
  BY <1>0, <1>1, TailIndex, TableAssumption DEF Request
<1>2. CASE /\ \E s \in Slots : sockets[s].reg /\ sockets[s].id = i
           /\ UNCHANGED requests
  BY <1>0, <1>2 DEF Record
<1> QED BY <1>1, <1>2 DEF Takes

\* A handler keeps what the threads and the requests look like, and no fresh
\* id gets out.
LEMMA HandlesFresh ==
    ASSUME Inv, NEW i, Handles(i)
    PROVE  ThreadForms' /\ RequestForms' /\ IdsBelow' /\ FreshIds'
<1> USE DEF Inv, Handles
<1>1. /\ \A k \in 1 .. Len(requests') : \E j \in 1 .. Len(requests) :
            requests'[k] = requests[j]
  BY TakesOther DEF Forms
<1>2. loop.at = "idle" /\ UNCHANGED <<allocId, pc, tries, arg, known>>
  BY DEF Takes
<1>3. ThreadForms'
  BY <1>2 DEF Forms, ThreadForms
<1>4. RequestForms'
  BY <1>1 DEF Forms, RequestForms
<1>5. i < allocId
  <2>1. CASE requests # <<>> /\ i = Head(requests).id /\ requests' = Tail(requests)
    <3>1. Head(requests) = requests[1] /\ 1 \in 1 .. Len(requests)
      BY <2>1, TailIndex DEF Forms, TypeOK
    <3> QED BY <2>1, <3>1 DEF IdsBelow
  <2>2. CASE \E s \in Slots : sockets[s].reg /\ sockets[s].id = i
    BY <2>2 DEF IdsBelow
  <2> QED BY <2>1, <2>2 DEF Takes
<1>6. NoId < allocId
  BY TableAssumption DEF Forms, TypeOK, NoId
<1>7. IdsBelow'
  BY <1>1, <1>2, <1>5, <1>6 DEF IdsBelow
<1>8. ASSUME NEW x \in Threads, pc[x] \in {"cas", "setId"}
      PROVE  arg[x].id \notin {i, NoId}
  <2>1. arg[x].id # NoId
    BY <1>8, IdsNat DEF Forms, ThreadForms
  <2>2. CASE requests # <<>> /\ i = Head(requests).id /\ requests' = Tail(requests)
    <3>1. Head(requests) = requests[1] /\ 1 \in 1 .. Len(requests)
      BY <2>2, TailIndex DEF Forms, TypeOK
    <3> QED BY <1>8, <2>1, <2>2, <3>1 DEF FreshIds, Private
  <2>3. CASE \E s \in Slots : sockets[s].reg /\ sockets[s].id = i
    BY <1>8, <2>1, <2>3 DEF FreshIds
  <2> QED BY <2>2, <2>3 DEF Takes
<1>9. FreshIds'
  BY <1>1, <1>2, <1>8 DEF FreshIds, Private
<1> QED BY <1>3, <1>4, <1>7, <1>9

\* While no id was recovered twice, nobody holds or is to open the id that a
\* handler works on, once the request for it is taken.
LEMMA TakesUnheld ==
    ASSUME Inv, ~twice, NEW i, Takes(i)
    PROVE  /\ \A x \in Threads : Holds(x) => arg[x].id # i
           /\ \A k \in 1 .. Len(requests') :
                requests'[k].type \in Opens => requests'[k].id # i
<1> USE DEF Inv, Ownership
<1>1. CASE requests # <<>> /\ i = Head(requests).id /\ requests' = Tail(requests)
  <2>1. /\ Head(requests) = requests[1] /\ 1 \in 1 .. Len(requests)
        /\ Len(requests) \in Nat
        /\ \A k \in 1 .. Len(requests') :
            k + 1 \in 1 .. Len(requests) /\ requests'[k] = requests[k + 1]
    BY <1>1, TailIndex DEF Forms, TypeOK
  <2>2. \A x \in Threads : Holds(x) => arg[x].id # i
    BY <1>1, <2>1 DEF HeldReserved, Private
  <2>3. ASSUME NEW k \in 1 .. Len(requests'), requests'[k].type \in Opens
        PROVE  requests'[k].id # i
    <3>1. k + 1 \in 1 .. Len(requests) /\ 1 \in 1 .. (k + 1) - 1
      BY <2>1, <2>3
    <3> QED BY <1>1, <2>1, <2>3, <3>1 DEF OpenReserved
  <2> QED BY <2>2, <2>3
<1>2. ASSUME NEW s \in Slots, sockets[s].reg, sockets[s].id = i, UNCHANGED requests
      PROVE  /\ \A x \in Threads : Holds(x) => arg[x].id # i
             /\ \A k \in 1 .. Len(requests') :
                    requests'[k].type \in Opens => requests'[k].id # i
  <2>1. getIndex(i) = s /\ Type(i) # "reserve"
    BY <1>2 DEF Forms, RecordForms, RecordStates, Type
  <2> QED BY <1>2, <2>1 DEF HeldReserved, OpenReserved, Reserved
<1> QED BY <1>1, <1>2 DEF Takes

\* A handler that changes the type of no record, or of the one of an id in
\* use, keeps what the reserved records and the ids in use are.
LEMMA HandlesOwn ==
    ASSUME Inv, ~twice, NEW i, Handles(i), conn' \ live \subseteq conn,
           \A s \in Slots :
              \/ sockets'[s].type = sockets[s].type
              \/ i \in live /\ s = getIndex(i) /\ sockets'[s].type # "none"
    PROVE  HeldReserved' /\ OpenReserved' /\ LiveOwned' /\ CloseTold'
<1> USE DEF Inv, Ownership, Handles
<1>0. live \subseteq Ids /\ requests \in Seq(Request)
  BY DEF Forms, TypeOK
<1>1. loop.at = "idle" /\ UNCHANGED <<pc, arg, known>>
  BY DEF Takes
<1>2. \A k \in 1 .. Len(requests') : \E j \in 1 .. Len(requests) :
            requests'[k] = requests[j]
  BY TakesOther DEF Forms
<1>3. ASSUME NEW j \in live, j # i PROVE Type(j)' = Type(j)
  <2>1. getIndex(j) \in Slots
    BY <1>0, IdsNat, IndexType
  <2>2. i \in live => getIndex(j) # getIndex(i)
    BY <1>3 DEF LiveOwned
  <2> QED BY <2>1, <2>2 DEF Type
<1>4. \A j \in live : getIndex(j) \in Slots /\ (Found(j)' <=> Found(j)) /\ j # NoId
  BY <1>0, IdsNat, IndexType DEF Found
<1>5. HeldReserved'
  <2> SUFFICES ASSUME NEW x \in Threads, Holds(x)
               PROVE  /\ Reserved(arg[x].id)'
                      /\ Private(x, arg[x].id)'
                      /\ arg[x].id \notin conn'
                      /\ pc[x] # "setId" => Found(arg[x].id)'
    BY <1>1 DEF HeldReserved, Holds
  <2>1. /\ arg[x].id # i /\ arg[x].id \in live /\ Type(arg[x].id) = "reserve"
        /\ Private(x, arg[x].id) /\ arg[x].id \notin conn
        /\ pc[x] # "setId" => Found(arg[x].id)
    BY TakesUnheld DEF HeldReserved, Reserved
  <2>2. Reserved(arg[x].id)'
    BY <1>1, <1>3, <2>1 DEF Reserved, Type
  <2>3. Private(x, arg[x].id)'
    BY <1>1, <1>2, <1>4, <2>1 DEF Private
  <2>4. arg[x].id \notin conn' /\ (pc[x] # "setId" => Found(arg[x].id)')
    BY <1>1, <1>4, <2>1 DEF Found
  <2> QED BY <2>2, <2>3, <2>4
<1>6. OpenReserved'
  <2> SUFFICES ASSUME NEW k \in 1 .. Len(requests'), requests'[k].type \in Opens
               PROVE  /\ Reserved(requests[k].id)' /\ Found(requests[k].id)'
                      /\ requests'[k].id \notin conn'
                      /\ requests'[k].id # loop'.id
                      /\ \A j \in 1 .. k - 1 : requests'[j].id # requests'[k].id
    BY DEF OpenReserved
  <2> DEFINE o == requests'[k].id
  <2>1. o # i
    BY TakesUnheld
  <2>2. /\ o \in live /\ Type(o) = "reserve" /\ Found(o)
        /\ o \notin conn /\ o # loop.id
    BY <1>2 DEF OpenReserved, Reserved
  <2>3. Reserved(requests[k].id)' /\ Found(requests[k].id)'
    BY <1>3, <1>4, <2>1, <2>2 DEF Reserved, Type, Found
  <2>4. ASSUME NEW j \in 1 .. k - 1 PROVE requests'[j].id # o
    <3>1. CASE requests # <<>> /\ requests' = Tail(requests)
      <4>1. \A l \in 1 .. Len(requests') :
                l + 1 \in 1 .. Len(requests) /\ requests'[l] = requests[l + 1]
        BY <1>0, <3>1, TailIndex
      <4>2. j + 1 \in 1 .. (k + 1) - 1 /\ j \in 1 .. Len(requests')
        BY <1>0, <3>1, TailIndex
      <4> QED BY <4>1, <4>2 DEF OpenReserved
    <3>2. CASE UNCHANGED requests
      BY <3>2 DEF OpenReserved
    <3> QED BY <3>1, <3>2 DEF Takes
  <2> QED BY <1>4, <2>1, <2>2, <2>3, <2>4
<1>7. LiveOwned'
  <2> SUFFICES ASSUME NEW j \in live
               PROVE  Type(j)' # "none" /\ (Found(j)' \/ Unset(j)')
    BY DEF LiveOwned
  <2>1. Type(j)' # "none"
    BY <1>4 DEF LiveOwned, Type
  <2>2. Unset(j)' <=> Unset(j)
    BY <1>1 DEF Unset
  <2> QED BY <1>4, <2>1, <2>2 DEF LiveOwned
<1>8. CloseTold'
  BY <1>1 DEF CloseTold
<1> QED BY <1>5, <1>6, <1>7, <1>8

\* The whole invariant after a handler.
LEMMA HandlesInv ==
    ASSUME Inv, NEW i, Handles(i), conn' \subseteq Ids,
           loop' \in [at : {"idle", "recover", "notify", "reserve", "ended"},
                      id : Ids \cup {NoId}, tell : BOOLEAN],
           RecordForms',
           ~twice => /\ conn' \ live \subseteq conn
                     /\ \A s \in Slots :
                          \/ sockets'[s].type = sockets[s].type
                          \/ /\ i \in live /\ s = getIndex(i)
                             /\ sockets'[s].type # "none"
                     /\ RecordStates' /\ Recovering' /\ Connected'
    PROVE  Inv'
<1>1. TypeOK'
  BY TakesOther DEF Inv, Forms, TypeOK, Handles, Takes
<1>2. ThreadForms' /\ RequestForms' /\ IdsBelow' /\ FreshIds'
  BY HandlesFresh
<1>3. ~twice => Ownership'
  BY HandlesOwn DEF Ownership
<1>4. RecoverAsserts' /\ twice' = twice
  BY DEF Inv, RecoverAsserts, Handles
<1> QED BY <1>1, <1>2, <1>3, <1>4 DEF Inv, Forms

-----------------------------------------------------------------------------
(* The things a handler can do with the record of the id it took. *)

\* Nothing: there is no such record, or only a message is sent.
LEMMA QuietInv == ASSUME Inv, NEW i, Takes(i), Quiet PROVE Inv'
<1>1. /\ UNCHANGED <<sockets, live, twice, crash, loop, conn, closeMsgs>>
      /\ sockets \in [Slots -> Record]
  BY DEF Quiet, table, history, Inv, Forms, TypeOK
<1>2. Handles(i)
  BY <1>1 DEF Handles
<1>3. RecordForms'
  BY <1>1 DEF Inv, Forms, RecordForms
<1>4. ~twice => RecordStates' /\ Recovering' /\ Connected'
  BY <1>1 DEF Inv, Ownership, RecordStates, Recovering, State, Connected
<1> QED BY <1>1, <1>2, <1>3, <1>4, HandlesInv DEF Inv, Forms, TypeOK

\* The record of an opened id gets its descriptor.
LEMMA OpenedInv ==
    ASSUME Inv, NEW i \in Ids, Takes(i), Found(i),
           ~twice => Reserved(i) /\ i \notin conn,
           NEW t \in {"accept", "connect"},
           sockets' = [sockets EXCEPT ![getIndex(i)].state = "connecting",
                                      ![getIndex(i)].type = t],
           UNCHANGED <<live, twice, crash, loop, history>>
    PROVE  Inv'
<1> DEFINE s == getIndex(i)
<1>0. s \in Slots /\ i # NoId /\ sockets[s].id = i
  BY IdsNat, IndexType DEF Found
<1>1. Edited(s, sockets[s].id, t, "connecting", sockets[s].reg, sockets[s].buf)
  BY <1>0, EditOpen DEF Inv, Forms, Types
<1>2. Handles(i)
  BY <1>1 DEF Handles, Edited, history
<1>3. RecordForms'
  <2>1. loop.at = "idle" /\ UNCHANGED loop
    BY DEF Takes
  <2> QED BY <1>0, <1>1, <2>1 DEF Inv, Forms, RecordForms, Edited
<1>4. ASSUME ~twice PROVE RecordStates' /\ Recovering' /\ Connected'
  <2>1. i \in live /\ loop.at = "idle"
    BY <1>4 DEF Reserved, Takes
  <2>2. RecordStates'
    BY <1>0, <1>1, <1>4, <2>1 DEF Inv, Ownership, RecordStates, Edited
  <2>3. ASSUME NEW j \in conn \cap live PROVE State(j)' = "connected"
    <3>1. j # i /\ j \in live /\ State(j) = "connected" /\ j \in Ids
      BY <1>4, <2>1 DEF Inv, Ownership, Connected, Forms, TypeOK
    <3>2. getIndex(j) \in Slots \ {s}
      BY <1>4, <2>1, <3>1, IdsNat, IndexType DEF Inv, Ownership, LiveOwned
    <3> QED BY <1>1, <3>1, <3>2 DEF Edited, State
  <2> QED BY <2>1, <2>2, <2>3 DEF Recovering, Connected, history
<1>5. \A r \in Slots : sockets'[r].type = sockets[r].type \/ (r = s /\ t # "none")
  BY <1>1 DEF Edited
<1> QED BY <1>0, <1>1, <1>2, <1>3, <1>4, <1>5, HandlesInv
        DEF Inv, Forms, TypeOK, Edited, Reserved, history

\* The record is to be recovered without a message.
LEMMA AbortInv ==
    ASSUME Inv, NEW i \in Ids, Takes(i), Found(i),
           ~twice => State(i) = "disconnected",
           loop' = [at |-> "recover", id |-> i, tell |-> FALSE],
           UNCHANGED <<table, history>>
    PROVE  Inv'
<1> DEFINE s == getIndex(i)
<1>0. s \in Slots /\ i # NoId /\ sockets[s].id = i
  BY IdsNat, IndexType DEF Found
<1>1. /\ UNCHANGED <<sockets, live, twice, crash, conn, closeMsgs>>
      /\ sockets \in [Slots -> Record]
  BY DEF table, history, Inv, Forms, TypeOK
<1>2. Handles(i)
  BY <1>1 DEF Handles
<1>3. RecordForms'
  BY <1>0, <1>1 DEF Inv, Forms, RecordForms
<1>4. ASSUME ~twice PROVE RecordStates' /\ Recovering' /\ Connected'
  <2>1. loop.at = "idle"
    BY DEF Takes
  <2>2. \A j \in conn \cap live : State(j) = "connected"
    BY <1>4, <2>1 DEF Inv, Ownership, Connected
  <2> QED BY <1>1, <1>4, <2>1, <2>2
          DEF Inv, Ownership, RecordStates, Recovering, State, Connected
<1> QED BY <1>1, <1>2, <1>3, <1>4, HandlesInv DEF Inv, Forms, TypeOK

\* The record is in use: its state, its registration and its buffer change.
LEMMA UsedInv ==
    ASSUME Inv, NEW i \in Ids, Takes(i), Found(i), State(i) # "disconnected",
           NEW st \in {"connecting", "connected", "disconnected"},
           NEW r \in BOOLEAN, NEW b,
           Edited(getIndex(i), i, Type(i), st, r, b),
           UNCHANGED <<live, twice, crash, closeMsgs>>,
           ~twice /\ Type(i) = "socket" =>
                b \subseteq sockets[getIndex(i)].buf \cup {i},
           \/ /\ UNCHANGED loop /\ st # "disconnected"
              /\ State(i) = "connected" => st = "connected"
              /\ conn' = conn \/ (st = "connected" /\ conn' = conn \cup {i})
           \/ /\ loop'.at = "recover" /\ loop'.id = i /\ loop'.tell \in BOOLEAN
              /\ loop' \in [at : {"recover"}, id : Ids, tell : BOOLEAN]
              /\ State(i) = "connected" => loop'.tell
              /\ st = "disconnected" /\ ~r /\ UNCHANGED conn
    PROVE  Inv'
<1> DEFINE s == getIndex(i)
<1>0. s \in Slots /\ i # NoId /\ sockets[s].id = i
  BY IdsNat, IndexType DEF Found
<1>1. conn \subseteq conn' /\ conn' \subseteq conn \cup {i}
  OBVIOUS
<1>2. Handles(i)
  BY <1>0, <1>1 DEF Handles, Edited
<1>3. RecordForms'
  <2>1. loop.at = "idle" /\ RecordForms
    BY DEF Takes, Inv, Forms
  <2>2. ASSUME NEW q \in Slots
        PROVE  /\ sockets'[q].id # NoId => getIndex(sockets'[q].id) = q
               /\ sockets'[q].reg => sockets'[q].id # NoId
               /\ sockets'[q].state = "disconnected" => ~sockets'[q].reg
    <3>1. CASE q = s
      BY <1>0, <2>1, <3>1 DEF Edited
    <3>2. CASE q # s
      BY <2>1, <3>2 DEF Edited, RecordForms
    <3> QED BY <3>1, <3>2
  <2>3. loop'.at \in {"recover", "notify"}
          => loop'.id \in Ids /\ sockets'[getIndex(loop'.id)].id # NoId
    BY <1>0, <2>1 DEF Edited
  <2> QED BY <2>2, <2>3 DEF RecordForms
<1>4. \A q \in Slots : sockets'[q].type = sockets[q].type
  BY DEF Edited, Type
<1>5. ASSUME ~twice
      PROVE  /\ conn' \ live \subseteq conn
             /\ RecordStates' /\ Recovering' /\ Connected'
  <2>1. i \in live /\ loop.at = "idle"
    BY <1>0, <1>5 DEF Inv, Ownership, RecordStates, State, Takes
  <2>2. RecordStates'
    BY <1>0, <1>5, <2>1 DEF Inv, Ownership, RecordStates, Edited, State, Type
  <2>3. Recovering'
    BY <1>0, <1>5, <2>1 DEF Inv, Ownership, Connected, Recovering, State, Edited
  <2>4. ASSUME NEW j \in conn \cap live, j # i PROVE State(j)' = "connected"
    <3>1. State(j) = "connected" /\ j \in Ids
      BY <1>5, <2>1 DEF Inv, Ownership, Connected, Forms, TypeOK
    <3>2. getIndex(j) \in Slots \ {s}
      BY <1>5, <2>1, <2>4, <3>1, IdsNat, IndexType DEF Inv, Ownership, LiveOwned
    <3> QED BY <3>1, <3>2 DEF Edited, State
  <2>5. i \in conn => State(i) = "connected"
    BY <1>5, <2>1 DEF Inv, Ownership, Connected
  <2>6. Connected'
    BY <1>0, <1>1, <2>1, <2>4, <2>5 DEF Connected, State, Edited
  <2> QED BY <1>1, <2>1, <2>2, <2>3, <2>6
<1>6. conn' \subseteq Ids
  BY <1>1 DEF Inv, Forms, TypeOK
<1>7. loop' \in [at : {"idle", "recover", "notify", "reserve", "ended"},
                 id : Ids \cup {NoId}, tell : BOOLEAN]
  BY DEF Inv, Forms, TypeOK
<1> QED BY <1>2, <1>3, <1>4, <1>5, <1>6, <1>7, HandlesInv

\* handleClose of socket.c, whoever calls it.
LEMMA ClosedInv ==
    ASSUME Inv, NEW i \in Ids, Takes(i), Found(i), State(i) # "disconnected",
           NEW b \in SUBSET Ids, b \subseteq sockets[getIndex(i)].buf \cup {i},
           handleClose(i, b)
    PROVE  Inv'
<1> DEFINE s == getIndex(i)
<1>0. s \in Slots /\ sockets[s].id = i
  BY IdsNat, IndexType DEF Found
<1>1. Edited(s, i, Type(i), "disconnected", FALSE, b)
  BY <1>0, EditClose DEF handleClose, Inv, Forms, Type
<1>2. /\ loop' = [at |-> "recover", id |-> i, tell |-> TRUE]
      /\ UNCHANGED <<live, twice, crash, closeMsgs, conn>>
  BY DEF handleClose, history
<1> QED BY <1>1, <1>2, UsedInv

\* The request at the head of the queue names an id.
LEMMA HandleTakes ==
    ASSUME Inv, NEW type, Handle(type)
    PROVE  /\ Takes(Head(requests).id)
           /\ type # "stop" => Head(requests).id \in Ids
           /\ ~twice /\ type \in Opens =>
                /\ Reserved(Head(requests).id) /\ Found(Head(requests).id)
                /\ Head(requests).id \notin conn
<1>1. Takes(Head(requests).id)
  BY DEF Handle, Takes
<1>2. Head(requests) = requests[1] /\ 1 \in 1 .. Len(requests)
  BY TailIndex DEF Handle, Inv, Forms, TypeOK
<1> QED BY <1>1, <1>2
        DEF Handle, Inv, Forms, RequestForms, Ownership, OpenReserved

\* The handlers of listen, connect and the asynchronous connect.
LEMMA OpenHandlersInv ==
    ASSUME Inv, NEW ok \in BOOLEAN,
           \/ handleTcpSocketListen(ok) \/ handleTcpSocketConnect(ok)
           \/ handleTcpSocketAsyncConnect
    PROVE  Inv'
<1> DEFINE i == Head(requests).id
<1>1. CASE handleTcpSocketListen(ok)
  <2>1. /\ Takes(i) /\ i \in Ids
        /\ ~twice => Reserved(i) /\ i \notin conn
    BY <1>1, HandleTakes DEF handleTcpSocketListen, Opens
  <2>2. CASE ok /\ Found(i)
    <3>1. /\ sockets' = [sockets EXCEPT ![getIndex(i)].state = "connecting",
                                        ![getIndex(i)].type = "accept"]
          /\ UNCHANGED <<live, twice, crash, loop, history>>
      BY <1>1, <2>2 DEF handleTcpSocketListen
    <3> QED BY <2>1, <2>2, <3>1, OpenedInv
  <2>3. CASE ~(ok /\ Found(i))
    BY <1>1, <2>1, <2>3, QuietInv DEF handleTcpSocketListen
  <2> QED BY <2>2, <2>3
<1>2. CASE handleTcpSocketConnect(ok)
  <2>1. /\ Takes(i) /\ i \in Ids
        /\ ~twice => Reserved(i) /\ i \notin conn
    BY <1>2, HandleTakes DEF handleTcpSocketConnect, Opens
  <2>2. CASE ok /\ Found(i)
    <3>1. /\ sockets' = [sockets EXCEPT ![getIndex(i)].state = "connecting",
                                        ![getIndex(i)].type = "connect"]
          /\ UNCHANGED <<live, twice, crash, loop, history>>
      BY <1>2, <2>2 DEF handleTcpSocketConnect
    <3> QED BY <2>1, <2>2, <3>1, OpenedInv
  <2>3. CASE ~(ok /\ Found(i))
    BY <1>2, <2>1, <2>3, QuietInv DEF handleTcpSocketConnect
  <2> QED BY <2>2, <2>3
<1>3. CASE handleTcpSocketAsyncConnect
  <2>1. Takes(i) /\ i \in Ids /\ (~twice => Reserved(i))
    BY <1>3, HandleTakes DEF handleTcpSocketAsyncConnect, Opens
  <2>2. ~twice => State(i) = "disconnected"
    <3>1. getIndex(i) \in Slots
      BY <2>1, IdsNat, IndexType
    <3> QED BY <2>1, <3>1 DEF Reserved, Type, State, Inv, Ownership, RecordStates
  <2>3. CASE Found(i)
    BY <1>3, <2>1, <2>2, <2>3, AbortInv DEF handleTcpSocketAsyncConnect
  <2>4. CASE ~Found(i)
    BY <1>3, <2>1, <2>4, QuietInv DEF handleTcpSocketAsyncConnect
  <2> QED BY <2>3, <2>4
<1> QED BY <1>1, <1>2, <1>3

\* The handler of start.
LEMMA StartHandlerInv ==
    ASSUME Inv, NEW ok \in BOOLEAN, handleTcpSocketStart(ok) PROVE Inv'
<1> DEFINE i == Head(requests).id
           s == getIndex(i)
<1>1. Takes(i) /\ i \in Ids
  BY HandleTakes DEF handleTcpSocketStart
<1>2. s \in Slots
  BY <1>1, IdsNat, IndexType
<1>3. CASE ~Found(i) \/ sockets[s].state # "connecting"
  BY <1>1, <1>3, QuietInv DEF handleTcpSocketStart
<1>4. CASE Found(i) /\ sockets[s].state = "connecting"
  <2>0. sockets[s].id = i /\ State(i) = "connecting" /\ Type(i) = sockets[s].type
    BY <1>4 DEF Found, State, Type
  <2>1. CASE socketAccept(i)
    <3>1. /\ Edited(s, i, Type(i), "connecting", TRUE, sockets[s].buf)
          /\ UNCHANGED <<live, twice, crash, closeMsgs, conn, loop>>
      BY <1>2, <2>0, <2>1, EditReg DEF socketAccept, Inv, Forms, State, history
    <3> QED BY <1>1, <1>4, <2>0, <3>1, UsedInv
  <2>2. CASE socketStart(i)
    <3>1. /\ Edited(s, i, Type(i), "connected", TRUE, sockets[s].buf)
          /\ UNCHANGED <<live, twice, crash, closeMsgs, loop>>
          /\ conn' = conn \cup {i}
      BY <1>2, <2>0, <2>2, EditStart DEF socketStart, Inv, Forms
    <3> QED BY <1>1, <1>4, <2>0, <3>1, UsedInv
  <2>3. CASE socketStop(i)
    <3>1. /\ Edited(s, i, Type(i), "disconnected", FALSE, sockets[s].buf)
          /\ UNCHANGED <<live, twice, crash, closeMsgs, conn>>
          /\ loop' = [at |-> "recover", id |-> i, tell |-> FALSE]
      BY <1>2, <2>0, <2>3, EditStart DEF socketStop, Inv, Forms, history
    <3> QED BY <1>1, <1>4, <2>0, <3>1, UsedInv
  <2> QED BY <1>4, <2>1, <2>2, <2>3 DEF handleTcpSocketStart
<1> QED BY <1>3, <1>4

\* The handlers of close and send.
LEMMA UseHandlersInv ==
    ASSUME Inv, handleTcpSocketClose \/ handleTcpSocketSend PROVE Inv'
<1> DEFINE i == Head(requests).id
           s == getIndex(i)
<1>1. Takes(i) /\ i \in Ids
  BY HandleTakes DEF handleTcpSocketClose, handleTcpSocketSend
<1>2. s \in Slots /\ sockets[s].buf \in SUBSET Ids
  BY <1>1, IdsNat, IndexType DEF Inv, Forms, TypeOK, Record
<1>3. CASE ~Found(i)
  BY <1>1, <1>3, QuietInv DEF handleTcpSocketClose, handleTcpSocketSend
<1>4. CASE Found(i) /\ handleTcpSocketClose
  <2>1. socketForceClose(i)
    BY <1>4 DEF handleTcpSocketClose
  <2>2. CASE sockets[s].state = "disconnected"
    BY <1>1, <1>4, <2>1, <2>2, AbortInv DEF socketForceClose, State
  <2>3. CASE sockets[s].state # "disconnected"
    BY <1>1, <1>2, <1>4, <2>1, <2>3, ClosedInv DEF socketForceClose, State
  <2> QED BY <2>2, <2>3
<1>5. CASE Found(i) /\ handleTcpSocketSend
  <2>1. socketWrite(i)
    BY <1>5 DEF handleTcpSocketSend
  <2>2. CASE Quiet
    BY <1>1, <2>2, QuietInv
  <2>3. CASE sockets[s].state = "connected" /\ handleClose(i, {})
    BY <1>1, <1>5, <2>3, ClosedInv DEF State
  <2>4. CASE /\ sockets[s].state = "connected"
             /\ sockets' = [sockets EXCEPT ![s].buf = @ \cup {i}]
             /\ UNCHANGED <<live, twice, crash, loop, history>>
    <3> DEFINE b == sockets[s].buf \cup {i}
    <3>0. sockets[s].id = i /\ State(i) = "connected" /\ Type(i) = sockets[s].type
      BY <1>5, <2>4 DEF Found, State, Type
    <3>1. b \in SUBSET Ids /\ sockets' = [sockets EXCEPT ![s].buf = b]
      BY <1>1, <1>2, <2>4
    <3>2. /\ Edited(s, i, Type(i), "connected", sockets[s].reg, b)
          /\ UNCHANGED <<live, twice, crash, closeMsgs, conn, loop>>
      BY <1>2, <2>4, <3>0, <3>1, EditBuf DEF Inv, Forms, State, history
    <3>3. sockets[s].reg \in BOOLEAN
      BY <1>2 DEF Inv, Forms, TypeOK, Record
    <3> QED BY <1>1, <1>5, <3>0, <3>2, <3>3, UsedInv
  <2> QED BY <2>1, <2>2, <2>3, <2>4 DEF socketWrite
<1> QED BY <1>3, <1>4, <1>5

\* The handler of stop ends the loop.
LEMMA StopHandlerInv == ASSUME Inv, handleTcpStop PROVE Inv'
<1> DEFINE i == Head(requests).id
<1>1. Takes(i) /\ loop.at = "idle"
  BY HandleTakes DEF handleTcpStop, Handle
<1>2. /\ UNCHANGED <<sockets, live, twice, crash, conn, closeMsgs>>
      /\ sockets \in [Slots -> Record]
      /\ loop' = [at |-> "ended", id |-> NoId, tell |-> FALSE]
  BY DEF handleTcpStop, table, history, Inv, Forms, TypeOK, Idle
<1>3. Handles(i)
  BY <1>1, <1>2 DEF Handles
<1>4. RecordForms'
  BY <1>2 DEF Inv, Forms, RecordForms
<1>5. ~twice => RecordStates' /\ Recovering' /\ Connected'
  BY <1>1, <1>2 DEF Inv, Ownership, RecordStates, Recovering, State, Connected
<1> QED BY <1>2, <1>3, <1>4, <1>5, HandlesInv DEF Inv, Forms, TypeOK

\* The events that end a connection or empty its buffer.
LEMMA EventsInv ==
    ASSUME Inv, NEW s \in Slots, onRead(s) \/ onWrite(s) PROVE Inv'
<1> DEFINE i == sockets[s].id
<1>1. sockets[s].reg /\ Event(s) /\ UNCHANGED <<pc, tries, arg>>
  BY DEF onRead, onWrite, Event
<1>2. /\ i \in Ids /\ getIndex(i) = s /\ sockets[s].state # "disconnected"
      /\ sockets[s].buf \in SUBSET Ids /\ sockets[s].reg \in BOOLEAN
  BY <1>1 DEF Inv, Forms, RecordForms, TypeOK, Record
<1>3. Takes(i) /\ Found(i) /\ State(i) # "disconnected"
  BY <1>1, <1>2 DEF Takes, Event, Found, State
<1>4. CASE handleClose(i, sockets[s].buf)
  BY <1>2, <1>3, <1>4, ClosedInv
<1>5. CASE /\ sockets[s].state = "connected"
           /\ sockets' = [sockets EXCEPT ![s].buf = {}]
           /\ UNCHANGED <<live, twice, crash, loop, history>>
  <2>1. State(i) = "connected" /\ Type(i) = sockets[s].type
    BY <1>2, <1>5 DEF State, Type
  <2>2. /\ Edited(s, i, Type(i), "connected", sockets[s].reg, {})
        /\ UNCHANGED <<live, twice, crash, closeMsgs, conn, loop>>
    BY <1>5, <2>1, EditBuf DEF Inv, Forms, history
  <2> QED BY <1>2, <1>3, <2>1, <2>2, UsedInv
<1> QED BY <1>4, <1>5 DEF onRead, onWrite

-----------------------------------------------------------------------------
(* The other steps of the loop. *)

\* A record that is recovered: those of the other ids in use stay as they are.
LEMMA RecoveredOthers ==
    ASSUME Inv, ~twice, NEW i \in live, State(i) = "disconnected",
           LET s == getIndex(i) IN
              Edited(s, sockets[s].id, "none", sockets[s].state, sockets[s].reg,
                     sockets[s].buf),
           live' = live \ {i}
    PROVE  /\ \A j \in live \ {i} : Type(j)' = Type(j)
           /\ \A j \in live : (Found(j)' <=> Found(j)) /\ State(j)' = State(j)
           /\ RecordStates'
<1> USE DEF Inv, Ownership, Forms, TypeOK
<1>1. \A j \in live : getIndex(j) \in Slots /\ j # NoId
  BY IdsNat, IndexType
<1>2. \A s \in Slots : /\ sockets'[s].id = sockets[s].id
                       /\ sockets'[s].state = sockets[s].state
                       /\ sockets'[s].buf = sockets[s].buf
  BY <1>1 DEF Edited
<1>3. \A j \in live \ {i} : getIndex(j) # getIndex(i)
  BY DEF LiveOwned
<1>4. RecordStates'
  <2> SUFFICES ASSUME NEW s \in Slots
      PROVE  /\ sockets'[s].type \in {"none", "reserve"}
                    => sockets'[s].state = "disconnected"
             /\ sockets'[s].state # "disconnected" => sockets'[s].id \in live'
             /\ sockets'[s].type = "socket" /\ sockets'[s].state # "disconnected"
                    => sockets'[s].buf \subseteq {sockets'[s].id}
    BY DEF RecordStates
  <2>1. CASE s = getIndex(i)
    BY <1>1, <2>1 DEF Edited, State
  <2>2. CASE s # getIndex(i)
    <3>1. sockets[s].id # i
      BY <1>1, <2>2 DEF RecordForms
    <3> QED BY <2>2, <3>1 DEF Edited, RecordStates
  <2> QED BY <2>1, <2>2
<1>5. \A j \in live \ {i} : Type(j)' = Type(j)
  BY <1>1, <1>3 DEF Edited, Type
<1>6. \A j \in live : (Found(j)' <=> Found(j)) /\ State(j)' = State(j)
  BY <1>1, <1>2 DEF Found, State
<1> QED BY <1>4, <1>5, <1>6

\* The loop recovers the id it works on.
LEMMA LoopRecoverInv == ASSUME Inv, crash = "no", LoopRecover PROVE Inv'
<1> DEFINE i == loop.id
<1> USE DEF Inv
<1>0. /\ TypeOK /\ ThreadForms /\ RequestForms /\ RecordForms /\ loop.at = "recover"
      /\ UNCHANGED <<allocId, requests, pc, tries, arg, known, conn, closeMsgs, calls>>
      /\ loop' = IF loop.tell THEN [loop EXCEPT !.at = "notify"] ELSE Idle
  BY DEF LoopRecover, Forms, history
<1>1. i \in Ids /\ getIndex(i) \in Slots
  BY <1>0, IdsNat, IndexType DEF RecordForms
<1>2. \/ /\ State(i) # "disconnected" /\ crash' = "recoverInLoop"
         /\ UNCHANGED <<sockets, live, twice>>
      \/ /\ State(i) = "disconnected"
         /\ LET s == getIndex(i) IN
            Edited(s, sockets[s].id, "none", sockets[s].state,
                   sockets[s].reg, sockets[s].buf)
         /\ live' = live \ {i} /\ UNCHANGED crash
         /\ twice' = (twice \/ i \notin live)
  BY <1>0, <1>1, RecoverCases DEF LoopRecover
<1>3. /\ loop' \in [at : {"idle", "notify"}, id : Ids \cup {NoId}, tell : BOOLEAN]
      /\ loop'.at = "notify" => loop.tell
      /\ loop'.id \in {i, NoId} /\ (loop'.at = "notify" => loop'.id = i)
      /\ loop.tell => loop'.at = "notify"
  BY <1>0, <1>1 DEF Idle, TypeOK
<1>4. /\ \A s \in Slots : /\ sockets'[s].id = sockets[s].id
                          /\ sockets'[s].state = sockets[s].state
                          /\ sockets'[s].reg = sockets[s].reg
      /\ live' \subseteq live /\ crash' \in {"no", "recoverInLoop"}
      /\ sockets' \in [Slots -> Record]
  BY <1>0, <1>1, <1>2 DEF Edited, TypeOK
<1>5. twice' \in BOOLEAN
  BY <1>0, <1>2 DEF TypeOK
<1>6. TypeOK'
  BY <1>0, <1>3, <1>4, <1>5 DEF TypeOK
<1>7. ThreadForms' /\ RequestForms'
  BY <1>0, <1>3 DEF ThreadForms, RequestForms
<1>8. RecordForms'
  BY <1>0, <1>1, <1>3, <1>4 DEF RecordForms
<1>9. IdsBelow'
  <2>1. NoId < allocId
    BY <1>0, TableAssumption DEF TypeOK, NoId
  <2> QED BY <1>0, <1>3, <1>4, <2>1 DEF IdsBelow
<1>10. FreshIds'
  <2>1. \A x \in Threads : pc[x] \in {"cas", "setId"} => arg[x].id # NoId
    BY <1>0, IdsNat DEF ThreadForms
  <2> QED BY <1>0, <1>3, <1>4, <2>1 DEF FreshIds, Private
<1>11. RecoverAsserts'
  <2>1. CASE State(i) # "disconnected"
    <3>1. twice
      BY <1>0, <2>1 DEF Ownership, Recovering
    <3> QED BY <1>2, <2>1, <3>1 DEF RecoverAsserts
  <2>2. CASE State(i) = "disconnected"
    BY <1>2, <2>2 DEF RecoverAsserts
  <2> QED BY <2>1, <2>2
<1>12. ASSUME ~twice' PROVE Ownership'
  <2>1. /\ ~twice /\ Ownership /\ i \in live /\ State(i) = "disconnected"
        /\ live' = live \ {i}
    BY <1>0, <1>2, <1>12 DEF Ownership, Recovering, State
  <2>2. /\ \A j \in live \ {i} : Type(j)' = Type(j)
        /\ \A j \in live : (Found(j)' <=> Found(j)) /\ State(j)' = State(j)
        /\ RecordStates'
    BY <1>2, <2>1, RecoveredOthers
  <2>3. \A j \in live : j # NoId
    BY <1>0, IdsNat DEF TypeOK
  <2>4. HeldReserved'
    <3> SUFFICES ASSUME NEW x \in Threads, Holds(x)
                 PROVE  /\ Reserved(arg[x].id)' /\ Private(x, arg[x].id)'
                        /\ arg[x].id \notin conn
                        /\ pc[x] # "setId" => Found(arg[x].id)'
      BY <1>0 DEF HeldReserved, Holds
    <3>1. /\ arg[x].id \in live \ {i} /\ Type(arg[x].id) = "reserve"
          /\ Private(x, arg[x].id) /\ arg[x].id \notin conn
          /\ pc[x] # "setId" => Found(arg[x].id)
      BY <2>1 DEF Ownership, HeldReserved, Private, Reserved
    <3>2. Reserved(arg[x].id)' /\ (pc[x] # "setId" => Found(arg[x].id)')
      BY <1>0, <2>1, <2>2, <3>1 DEF Reserved, Type, Found
    <3> QED BY <1>0, <1>3, <2>3, <3>1, <3>2 DEF Private
  <2>5. OpenReserved'
    <3> SUFFICES ASSUME NEW k \in 1 .. Len(requests), requests[k].type \in Opens
                 PROVE  /\ Reserved(requests[k].id)' /\ Found(requests[k].id)'
                        /\ requests[k].id \notin conn
                        /\ requests[k].id # loop'.id
                        /\ \A j \in 1 .. k - 1 : requests[j].id # requests[k].id
      BY <1>0 DEF OpenReserved
    <3>1. /\ requests[k].id \in live \ {i} /\ Type(requests[k].id) = "reserve"
          /\ Found(requests[k].id) /\ requests[k].id \notin conn
          /\ \A j \in 1 .. k - 1 : requests[j].id # requests[k].id
      BY <2>1 DEF Ownership, OpenReserved, Reserved
    <3>2. Reserved(requests[k].id)' /\ Found(requests[k].id)'
      BY <1>0, <2>1, <2>2, <3>1 DEF Reserved, Type, Found
    <3> QED BY <1>3, <2>3, <3>1, <3>2
  <2>6. LiveOwned'
    <3>1. \A j \in live : Unset(j)' <=> Unset(j)
      BY <1>0 DEF Unset
    <3> QED BY <2>1, <2>2, <3>1 DEF Ownership, LiveOwned
  <2>7. Recovering' /\ Connected'
    BY <1>0, <1>3, <2>1, <2>2 DEF Ownership, Recovering, Connected
  <2>8. CloseTold'
    BY <1>0, <1>3, <2>1 DEF Ownership, Recovering, CloseTold
  <2> QED BY <2>2, <2>4, <2>5, <2>6, <2>7, <2>8 DEF Ownership
<1> QED BY <1>6, <1>7, <1>8, <1>9, <1>10, <1>11, <1>12 DEF Forms

\* The loop sends the SOCK_CLOSE message.
LEMMA LoopNotifyInv == ASSUME Inv, LoopNotify PROVE Inv'
<1> DEFINE i == loop.id
           n == sockets[getIndex(i)].id
<1> USE DEF Inv
<1>0. /\ TypeOK /\ ThreadForms /\ RequestForms /\ RecordForms /\ loop.at = "notify"
      /\ UNCHANGED <<sockets, live, twice, crash, allocId, requests, pc, tries, arg,
                     known, conn, calls>>
      /\ closeMsgs' = closeMsgs \cup {[closed |-> i, names |-> n]}
      /\ loop' = [at |-> "idle", id |-> NoId, tell |-> FALSE]
  BY DEF LoopNotify, Forms, Idle, table
<1>1. i \in Ids /\ getIndex(i) \in Slots /\ n \in Ids /\ getIndex(n) = getIndex(i)
  <2>1. i \in Ids /\ getIndex(i) \in Slots
    BY <1>0, IdsNat, IndexType DEF RecordForms
  <2> QED BY <1>0, <2>1 DEF RecordForms, TypeOK, Record
<1>2. TypeOK'
  BY <1>0, <1>1 DEF TypeOK
<1>3. ThreadForms' /\ RequestForms' /\ RecordForms'
  BY <1>0 DEF ThreadForms, RequestForms, RecordForms
<1>4. IdsBelow' /\ FreshIds'
  <2>1. NoId < allocId
    BY <1>0, TableAssumption DEF TypeOK, NoId
  <2>2. \A x \in Threads : pc[x] \in {"cas", "setId"} => arg[x].id # NoId
    BY <1>0, IdsNat DEF ThreadForms
  <2> QED BY <1>0, <2>1, <2>2 DEF IdsBelow, FreshIds, Private
<1>5. ASSUME ~twice PROVE Ownership'
  <2>1. Ownership /\ \A j \in live : j # NoId
    BY <1>0, <1>5, IdsNat DEF TypeOK
  <2>2. HeldReserved' /\ OpenReserved'
    BY <1>0, <2>1 DEF Ownership, HeldReserved, OpenReserved, Holds, Reserved, Type,
                      Private, Found
  <2>3. RecordStates' /\ LiveOwned'
    BY <1>0, <2>1 DEF Ownership, RecordStates, LiveOwned, Type, Found, Unset
  <2>4. Recovering' /\ Connected'
    BY <1>0, <2>1 DEF Ownership, Recovering, Connected, State
  <2>5. CloseTold'
    <3> DEFINE m == [closed |-> i, names |-> n]
    <3>1. m \in closeMsgs' /\ m.closed = i /\ getIndex(m.names) = getIndex(i)
      BY <1>0, <1>1
    <3>2. ASSUME NEW j \in conn \ live
          PROVE  \E l \in closeMsgs' : l.closed = j /\ getIndex(l.names) = getIndex(j)
      <4>1. CASE j = i
        BY <3>1, <4>1
      <4>2. CASE j # i
        BY <1>0, <1>5, <2>1, <4>2 DEF Ownership, CloseTold
      <4> QED BY <4>1, <4>2
    <3> QED BY <1>0, <3>2 DEF CloseTold
  <2> QED BY <2>2, <2>3, <2>4, <2>5 DEF Ownership
<1>6. RecoverAsserts'
  BY <1>0 DEF RecoverAsserts
<1> QED BY <1>0, <1>2, <1>3, <1>4, <1>5, <1>6 DEF Forms

\* A connection came in: the loop starts to reserve a record for it.
LEMMA OnAcceptInv == ASSUME Inv, NEW s \in Slots, onAccept(s) PROVE Inv'
<1> DEFINE i == sockets[s].id
           r == [type |-> "listen", id |-> NoId]
<1> USE DEF Inv
<1>0. /\ TypeOK /\ ThreadForms /\ RequestForms /\ RecordForms /\ loop.at = "idle"
      /\ UNCHANGED <<sockets, live, twice, crash, allocId, requests, tries,
                     known, conn, closeMsgs, calls>>
      /\ pc[Loop] = "idle" /\ pc' = [pc EXCEPT ![Loop] = "alloc"]
      /\ arg' = [arg EXCEPT ![Loop] = r] /\ Loop \in Threads
      /\ loop' = [at |-> "reserve", id |-> i, tell |-> FALSE]
      /\ sockets[s].reg /\ sockets[s].type = "accept"
  BY ThreadCases DEF onAccept, Event, Reserving, Goto, Forms, table, history
<1>1. i \in Ids /\ getIndex(i) = s /\ r \in Request
  <2>1. i # NoId /\ getIndex(i) = s
    BY <1>0 DEF RecordForms
  <2>2. i \in Ids
    BY <1>0, <2>1 DEF TypeOK, Record
  <2>3. r \in Request
    BY DEF Request, Opens
  <2> QED BY <2>1, <2>2, <2>3
<1>2. /\ pc'[Loop] = "alloc" /\ arg'[Loop] = r
      /\ \A x \in Threads \ {Loop} : pc'[x] = pc[x] /\ arg'[x] = arg[x]
  BY <1>0 DEF TypeOK
<1>3. TypeOK'
  BY <1>0, <1>1 DEF TypeOK
<1>4. ThreadForms'
  BY <1>0, <1>2, ThreadCases DEF ThreadForms, Opens
<1>5. RequestForms' /\ RecordForms'
  BY <1>0 DEF RequestForms, RecordForms
<1>6. IdsBelow'
  <2>1. NoId < allocId
    BY <1>0, TableAssumption DEF TypeOK, NoId
  <2> QED BY <1>0, <1>2, <2>1 DEF IdsBelow
<1>7. FreshIds'
  BY <1>0, <1>2 DEF FreshIds, Private
<1>8. ASSUME ~twice PROVE Ownership'
  <2>1. Ownership /\ Type(i) = "accept"
    BY <1>0, <1>1, <1>8 DEF Type
  <2>2. HeldReserved'
    BY <1>0, <1>2, <2>1
    DEF Ownership, HeldReserved, Holds, Reserved, Type, Private, Found
  <2>3. OpenReserved'
    BY <1>0, <2>1 DEF Ownership, OpenReserved, Reserved, Type, Found
  <2>4. RecordStates'
    BY <1>0, <2>1 DEF Ownership, RecordStates
  <2>5. LiveOwned'
    <3>1. \A j \in live : Unset(j) => Unset(j)'
      BY <1>0, <1>2 DEF Unset
    <3> QED BY <1>0, <2>1, <3>1 DEF Ownership, LiveOwned, Type, Found
  <2>6. Recovering' /\ Connected'
    BY <1>0, <2>1 DEF Ownership, Recovering, Connected, State
  <2>7. CloseTold'
    BY <1>0, <2>1 DEF Ownership, CloseTold
  <2> QED BY <2>2, <2>3, <2>4, <2>5, <2>6, <2>7 DEF Ownership
<1>9. RecoverAsserts'
  BY <1>0 DEF RecoverAsserts
<1> QED BY <1>0, <1>3, <1>4, <1>5, <1>6, <1>7, <1>8, <1>9 DEF Forms

\* The record that the loop reserved gets the connection.
LEMMA AcceptedInv == ASSUME Inv, crash = "no", Accepted PROVE Inv'
<1> DEFINE i == arg[Loop].id
           s == getIndex(i)
<1> USE DEF Inv
<1>0. /\ TypeOK /\ ThreadForms /\ RequestForms /\ RecordForms /\ Loop \in Threads
      /\ UNCHANGED <<live, twice, crash, allocId, requests, tries, conn, closeMsgs,
                     calls>>
      /\ pc[Loop] = "accepted" /\ pc' = [pc EXCEPT ![Loop] = "idle"]
      /\ arg' = [arg EXCEPT ![Loop] = NoRequest]
      /\ loop' = [at |-> "idle", id |-> NoId, tell |-> FALSE]
      /\ known' = known \cup {i}
      /\ sockets' = [sockets EXCEPT ![s].type = "socket",
                                    ![s].state = "connecting", ![s].buf = {}]
  BY ThreadCases DEF Accepted, Goto, Forms, Idle, history
<1>1. i \in Ids /\ s \in Slots /\ NoRequest \in Request /\ NoRequest.id = NoId
  BY <1>0, IdsNat, IndexType DEF ThreadForms, NoRequest, Request
<1>2. /\ pc'[Loop] = "idle" /\ arg'[Loop].id = NoId
      /\ \A x \in Threads \ {Loop} : pc'[x] = pc[x] /\ arg'[x] = arg[x]
  BY <1>0, <1>1 DEF TypeOK
<1>3. Edited(s, sockets[s].id, "socket", "connecting", sockets[s].reg, {})
  BY <1>0, <1>1, EditAccepted
<1>4. TypeOK'
  BY <1>0, <1>1, <1>3 DEF TypeOK, Edited
<1>5. ThreadForms' /\ RequestForms'
  BY <1>0, <1>2, ThreadCases DEF ThreadForms, RequestForms
<1>6. \A q \in Slots : sockets'[q].id = sockets[q].id /\ sockets'[q].reg = sockets[q].reg
  BY <1>1, <1>3 DEF Edited
<1>7. RecordForms'
  <2>1. \A q \in Slots : sockets'[q].state = "disconnected"
                            => sockets[q].state = "disconnected"
    BY <1>1, <1>3 DEF Edited
  <2> QED BY <1>0, <1>6, <2>1 DEF RecordForms
<1>8. IdsBelow'
  <2>1. NoId < allocId
    BY <1>0, TableAssumption DEF TypeOK, NoId
  <2> QED BY <1>0, <1>2, <1>6, <2>1 DEF IdsBelow
<1>9. FreshIds'
  <2>1. \A x \in Threads : pc[x] \in {"cas", "setId"} => arg[x].id # NoId
    BY <1>0, IdsNat DEF ThreadForms
  <2>2. ASSUME NEW x \in Threads, pc'[x] \in {"cas", "setId"}
        PROVE  /\ Private(x, arg[x].id)' /\ arg'[x].id \notin conn
               /\ pc'[x] = "cas" => arg'[x].id \notin live
               /\ \A q \in Slots : sockets'[q].id # arg'[x].id
    <3>1. x # Loop /\ pc'[x] = pc[x] /\ arg'[x] = arg[x]
      BY <1>2, <2>2
    <3>2. /\ Private(x, arg[x].id) /\ arg[x].id \notin conn
          /\ pc[x] = "cas" => arg[x].id \notin live
          /\ \A q \in Slots : sockets[q].id # arg[x].id
      BY <2>2, <3>1 DEF FreshIds
    <3>3. arg[x].id # i /\ arg[x].id # NoId
      BY <1>0, <2>1, <2>2, <3>1, <3>2 DEF Private
    <3>4. \A y \in Threads \ {x} : pc'[y] # "alloc" => arg'[y].id # arg[x].id
      BY <1>2, <3>2, <3>3 DEF Private
    <3>5. Private(x, arg[x].id)'
      BY <1>0, <3>1, <3>2, <3>3, <3>4 DEF Private
    <3> QED BY <1>6, <3>1, <3>2, <3>5
  <2> QED BY <1>0, <2>2 DEF FreshIds
<1>10. ASSUME ~twice PROVE Ownership'
  <2>1. /\ Ownership /\ i \in live /\ Private(Loop, i) /\ i \notin conn
        /\ sockets[s].id = i /\ Type(i) = "reserve"
        /\ \A j \in live : j \in Ids /\ j # NoId /\ getIndex(j) \in Slots
    BY <1>0, <1>10, IdsNat, IndexType
    DEF Ownership, HeldReserved, Holds, ThreadForms, Reserved, Found, TypeOK
  <2>2. \A j \in live \ {i} : Type(j)' = Type(j) /\ State(j)' = State(j)
    <3>1. \A j \in live \ {i} : getIndex(j) # s
      BY <2>1 DEF Ownership, LiveOwned
    <3> QED BY <1>3, <2>1, <3>1 DEF Edited, Type, State
  <2>3. \A j \in live : Found(j)' <=> Found(j)
    BY <1>6, <2>1 DEF Found
  <2>4. HeldReserved'
    <3> SUFFICES ASSUME NEW x \in Threads, x # Loop, Holds(x)
                 PROVE  /\ Reserved(arg[x].id)' /\ Private(x, arg[x].id)'
                        /\ arg[x].id \notin conn
                        /\ pc[x] # "setId" => Found(arg[x].id)'
      BY <1>0, <1>2 DEF HeldReserved, Holds
    <3>1. /\ arg[x].id \in live \ {i} /\ Type(arg[x].id) = "reserve"
          /\ Private(x, arg[x].id) /\ arg[x].id \notin conn
          /\ pc[x] # "setId" => Found(arg[x].id)
      BY <1>0, <2>1 DEF Ownership, HeldReserved, Private, Reserved
    <3>2. Reserved(arg[x].id)' /\ (pc[x] # "setId" => Found(arg[x].id)')
      <4>1. arg'[x] = arg[x]
        BY <1>2
      <4>2. arg[x].id \in live' /\ sockets'[getIndex(arg[x].id)].type = "reserve"
        BY <1>0, <2>2, <3>1 DEF Type
      <4>3. pc[x] # "setId" => sockets'[getIndex(arg[x].id)].id = arg[x].id
        BY <2>3, <3>1 DEF Found
      <4> QED BY <4>1, <4>2, <4>3 DEF Reserved, Type, Found
    <3> QED BY <1>0, <1>2, <2>1, <3>1, <3>2 DEF Private
  <2>5. OpenReserved'
    <3> SUFFICES ASSUME NEW k \in 1 .. Len(requests), requests[k].type \in Opens
                 PROVE  /\ Reserved(requests[k].id)' /\ Found(requests[k].id)'
                        /\ requests[k].id \notin conn
                        /\ requests[k].id # NoId
                        /\ \A j \in 1 .. k - 1 : requests[j].id # requests[k].id
      BY <1>0 DEF OpenReserved
    <3>1. /\ requests[k].id \in live \ {i} /\ Type(requests[k].id) = "reserve"
          /\ Found(requests[k].id) /\ requests[k].id \notin conn
          /\ \A j \in 1 .. k - 1 : requests[j].id # requests[k].id
      BY <2>1 DEF Ownership, OpenReserved, Reserved, Private
    <3>2. Reserved(requests[k].id)' /\ Found(requests[k].id)'
      BY <1>0, <2>2, <2>3, <3>1 DEF Reserved, Type, Found
    <3> QED BY <2>1, <3>1, <3>2
  <2>6. RecordStates'
    BY <1>0, <1>3, <2>1 DEF Ownership, RecordStates, Edited
  <2>7. LiveOwned'
    <3>1. \A j \in live : Unset(j) => Unset(j)'
      BY <1>0, <1>2 DEF Unset
    <3>2. \A j \in live : Type(j)' # "none"
      BY <1>3, <2>1, <2>2 DEF Edited, Type, Ownership, LiveOwned
    <3> QED BY <1>0, <2>1, <2>3, <3>1, <3>2 DEF Ownership, LiveOwned
  <2>8. Recovering' /\ Connected'
    <3>1. loop.at = "reserve"
      BY <1>0 DEF ThreadForms
    <3>2. \A j \in conn \cap live : State(j)' = "connected"
      BY <2>1, <2>2, <3>1 DEF Ownership, Connected
    <3> QED BY <1>0, <3>2 DEF Recovering, Connected
  <2>9. CloseTold'
    <3>1. loop.at = "reserve"
      BY <1>0 DEF ThreadForms
    <3> QED BY <1>0, <2>1, <3>1 DEF Ownership, CloseTold
  <2> QED BY <2>4, <2>5, <2>6, <2>7, <2>8, <2>9 DEF Ownership
<1>11. RecoverAsserts'
  BY <1>0 DEF RecoverAsserts
<1> QED BY <1>0, <1>4, <1>5, <1>7, <1>8, <1>9, <1>10, <1>11 DEF Forms

-----------------------------------------------------------------------------
(* The steps of the threads. *)

(* Thread x goes to another step with request r in its hands; the records, *)
(* the requests and the loop stay as they are.                             *)
Moves(x, to, r) ==
    /\ pc'[x] = to /\ arg'[x] = r
    /\ \A y \in Threads \ {x} : pc'[y] = pc[y] /\ arg'[y] = arg[y]
    /\ UNCHANGED <<sockets, live, twice, requests, loop, known, conn, closeMsgs>>

\* A thread that moves to a step at which it has reserved no record leaves
\* every record to its owner.
LEMMA MovesOwn ==
    ASSUME Inv, ~twice, NEW x \in Threads, NEW to, NEW r, Moves(x, to, r),
           pc[x] # "setId",
           to \in {"idle", "alloc", "cas"} \/ (to = "post" /\ r.type \notin Opens),
           to = "alloc" \/ \A y \in Threads \ {x} : Holds(y) => arg[y].id # r.id
    PROVE  Ownership'
<1> USE DEF Moves
<1>0. Ownership
  BY DEF Inv
<1>1. HeldReserved'
  <2> SUFFICES ASSUME NEW y \in Threads, Holds(y)'
               PROVE  /\ Reserved(arg[y].id)' /\ Private(y, arg[y].id)'
                      /\ arg'[y].id \notin conn
                      /\ pc'[y] # "setId" => Found(arg[y].id)'
    BY DEF HeldReserved
  <2>1. y # x /\ pc'[y] = pc[y] /\ arg'[y] = arg[y] /\ Holds(y)
    BY DEF Holds
  <2>2. /\ Reserved(arg[y].id) /\ Private(y, arg[y].id) /\ arg[y].id \notin conn
        /\ pc[y] # "setId" => Found(arg[y].id)
    BY <1>0, <2>1 DEF Ownership, HeldReserved
  <2>3. \A z \in Threads \ {y} : pc'[z] # "alloc" => arg'[z].id # arg[y].id
    <3>1. pc'[x] # "alloc" => arg'[x].id # arg[y].id
      BY <2>1
    <3> QED BY <2>2, <3>1 DEF Private
  <2>4. Private(y, arg[y].id)'
    BY <2>1, <2>2, <2>3 DEF Private
  <2> QED BY <2>1, <2>2, <2>4 DEF Reserved, Type, Found
<1>2. OpenReserved' /\ RecordStates'
  BY <1>0 DEF Ownership, OpenReserved, RecordStates, Reserved, Type, Found
<1>3. LiveOwned'
  <2>1. \A j \in live : Unset(j) => Unset(j)'
    BY DEF Unset
  <2> QED BY <1>0, <2>1 DEF Ownership, LiveOwned, Type, Found
<1>4. Recovering' /\ Connected' /\ CloseTold'
  BY <1>0 DEF Ownership, Recovering, Connected, State, CloseTold
<1> QED BY <1>1, <1>2, <1>3, <1>4 DEF Ownership

\* tcpGetReserveId looks at the record of the next id.
LEMMA ReserveLookInv ==
    ASSUME Inv, crash = "no", NEW x \in Threads, ReserveLook(x) PROVE Inv'
<1> DEFINE a == allocId
           r == [arg[x] EXCEPT !.id = a]
<1> USE DEF Inv
<1>0. Forms' /\ TypeOK /\ a \in Nat /\ pc[x] = "alloc" /\ allocId' = a + 1
  <2>1. Forms'
    BY ReserveForms
  <2>2. TypeOK /\ a \in Nat
    BY DEF Forms, TypeOK
  <2> QED BY <2>1, <2>2 DEF ReserveLook
<1>1. /\ UNCHANGED <<sockets, live, twice, requests, loop, known, conn, closeMsgs>>
      /\ arg' = [arg EXCEPT ![x].id = a]
      /\ pc' = [pc EXCEPT ![x] = "cas"] \/ pc' = pc
      /\ crash' \in {"no", "full"}
  BY DEF ReserveLook, history, Goto
<1>2. /\ pc'[x] \in {"alloc", "cas"} /\ arg'[x].id = a
      /\ \A y \in Threads \ {x} : pc'[y] = pc[y] /\ arg'[y] = arg[y]
  BY <1>0, <1>1 DEF TypeOK, Request
<1>3. /\ \A y \in Threads : arg[y].id \in Nat
      /\ \A k \in 1 .. Len(requests) : requests[k].id \in Nat
      /\ \A s \in Slots : sockets[s].id \in Nat
      /\ \A i \in known \cup live \cup conn : i \in Nat
      /\ loop.id \in Nat
  <2>1. \A i \in Ids \cup {NoId} : i \in Nat
    BY IdsNat
  <2>2. \A k \in 1 .. Len(requests) : requests[k] \in Request
    BY <1>0 DEF TypeOK
  <2>3. /\ \A y \in Threads : arg[y].id \in Ids \cup {NoId}
        /\ \A s \in Slots : sockets[s].id \in Ids \cup {NoId}
        /\ loop.id \in Ids \cup {NoId}
    BY <1>0 DEF TypeOK, Request, Record
  <2>4. \A k \in 1 .. Len(requests) : requests[k].id \in Ids \cup {NoId}
    BY <2>2 DEF Request
  <2>5. \A i \in known \cup live \cup conn : i \in Ids
    BY <1>0 DEF TypeOK
  <2> QED BY <2>1, <2>3, <2>4, <2>5
<1>4. IdsBelow'
  BY <1>0, <1>1, <1>2, <1>3 DEF IdsBelow
<1>5. /\ \A y \in Threads : arg[y].id # a
      /\ \A k \in 1 .. Len(requests) : requests[k].id # a
      /\ \A s \in Slots : sockets[s].id # a
      /\ a \notin known \cup live \cup conn
      /\ loop.id # a
  BY <1>0, <1>3 DEF IdsBelow
<1>6. FreshIds'
  <2>1. ASSUME pc'[x] = "cas"
        PROVE  /\ Private(x, arg[x].id)' /\ arg'[x].id \notin conn
               /\ arg'[x].id \notin live
               /\ \A s \in Slots : sockets'[s].id # arg'[x].id
    BY <1>1, <1>2, <1>5 DEF Private
  <2>2. ASSUME NEW y \in Threads \ {x}, pc'[y] \in {"cas", "setId"}
        PROVE  /\ Private(y, arg[y].id)' /\ arg'[y].id \notin conn
               /\ pc'[y] = "cas" => arg'[y].id \notin live
               /\ \A s \in Slots : sockets'[s].id # arg'[y].id
    <3>1. /\ Private(y, arg[y].id) /\ arg[y].id \notin conn
          /\ pc[y] = "cas" => arg[y].id \notin live
          /\ \A s \in Slots : sockets[s].id # arg[y].id
      BY <1>2, <2>2 DEF FreshIds
    <3>2. \A z \in Threads \ {y} : pc'[z] # "alloc" => arg'[z].id # arg[y].id
      BY <1>2, <1>5, <3>1 DEF Private
    <3>3. Private(y, arg[y].id)'
      BY <1>1, <1>2, <3>1, <3>2 DEF Private
    <3> QED BY <1>1, <1>2, <3>1, <3>3
  <2> QED BY <1>1, <1>2, <2>1, <2>2 DEF FreshIds
<1>7. ~twice => Ownership'
  <2>1. Moves(x, pc'[x], arg'[x])
    BY <1>1, <1>2 DEF Moves
  <2> QED BY <1>0, <1>2, <1>5, <2>1, MovesOwn
<1>8. RecoverAsserts'
  BY <1>1 DEF RecoverAsserts
<1> QED BY <1>0, <1>1, <1>4, <1>6, <1>7, <1>8

\* The compare-and-swap takes the record or is lost.
LEMMA ReserveCasInv ==
    ASSUME Inv, crash = "no", NEW x \in Threads, ReserveCas(x) PROVE Inv'
<1> DEFINE i == arg[x].id
           s == getIndex(i)
<1> USE DEF Inv
<1>0. /\ Forms' /\ TypeOK /\ pc[x] = "cas" /\ arg[x].type \in Opens
      /\ i \in Ids /\ s \in Slots
      /\ UNCHANGED <<twice, crash, allocId, requests, arg, loop, known, conn, closeMsgs>>
  BY ReserveForms, IdsNat, IndexType DEF Forms, ThreadForms, ReserveCas, history
<1>1. RecoverAsserts'
  BY <1>0 DEF RecoverAsserts
<1>2. /\ Private(x, i) /\ i \notin conn /\ i \notin live
      /\ \A q \in Slots : sockets[q].id # i
  BY <1>0 DEF FreshIds
<1>3. CASE sockets[s].type # "none"
  <2>1. Moves(x, "alloc", arg[x])
    BY <1>0, <1>3 DEF ReserveCas, Goto, Moves, TypeOK
  <2>2. UNCHANGED <<sockets, live>>
    BY <2>1 DEF Moves
  <2>3. IdsBelow' /\ FreshIds'
    BY <1>0, <2>1, <2>2 DEF IdsBelow, FreshIds, Private, Moves
  <2>4. ~twice => Ownership'
    BY <1>0, <2>1, MovesOwn
  <2> QED BY <1>0, <1>1, <2>3, <2>4
<1>4. CASE sockets[s].type = "none"
  <2>1. /\ pc' = [pc EXCEPT ![x] = "setId"] /\ live' = live \cup {i}
        /\ sockets' = [sockets EXCEPT ![s].type = "reserve"]
    BY <1>4 DEF ReserveCas, Goto
  <2>2. Edited(s, sockets[s].id, "reserve", sockets[s].state, sockets[s].reg,
               sockets[s].buf)
    BY <1>0, <2>1, EditType DEF Types
  <2>3. pc'[x] = "setId" /\ \A y \in Threads \ {x} : pc'[y] = pc[y]
    BY <1>0, <2>1 DEF TypeOK
  <2>4. \A q \in Slots : sockets'[q].id = sockets[q].id
                         /\ sockets'[q].state = sockets[q].state
                         /\ sockets'[q].buf = sockets[q].buf
    BY <1>0, <2>2 DEF Edited
  <2>5. IdsBelow'
    BY <1>0, <2>1, <2>4 DEF IdsBelow
  <2>6. FreshIds'
    <3>1. \A y \in Threads \ {x} : pc[y] = "cas" => arg[y].id # i
      BY <1>0, <1>2 DEF Private
    <3> QED BY <1>0, <1>2, <2>1, <2>3, <2>4, <3>1 DEF FreshIds, Private
  <2>7. ASSUME ~twice PROVE Ownership'
    <3>1. Ownership /\ \A j \in live : j # NoId /\ getIndex(j) \in Slots
      BY <1>0, <2>7, IdsNat, IndexType DEF TypeOK
    <3>2. \A j \in live : getIndex(j) # s
      BY <1>4, <3>1 DEF Ownership, LiveOwned, Type
    <3>3. \A j \in live : /\ sockets'[getIndex(j)] = sockets[getIndex(j)]
                          /\ Type(j)' = Type(j) /\ State(j)' = State(j)
                          /\ Found(j)' <=> Found(j)
      BY <2>2, <3>1, <3>2 DEF Edited, Type, State, Found
    <3>4. HeldReserved'
      <4>1. /\ Reserved(arg[x].id)' /\ Private(x, arg[x].id)'
            /\ arg'[x].id \notin conn
        BY <1>0, <1>2, <2>1, <2>2, <2>3 DEF Reserved, Type, Edited, Private
      <4>2. ASSUME NEW y \in Threads \ {x}, Holds(y)'
            PROVE  /\ Reserved(arg[y].id)' /\ Private(y, arg[y].id)'
                   /\ arg'[y].id \notin conn
                   /\ pc'[y] # "setId" => Found(arg[y].id)'
        <5>1. Holds(y) /\ pc'[y] = pc[y] /\ arg' = arg
          BY <1>0, <2>3, <4>2 DEF Holds
        <5>2. /\ arg[y].id \in live /\ Type(arg[y].id) = "reserve"
              /\ Private(y, arg[y].id) /\ arg[y].id \notin conn
              /\ pc[y] # "setId" => Found(arg[y].id)
          BY <3>1, <5>1 DEF Ownership, HeldReserved, Reserved
        <5>3. Private(y, arg[y].id)'
          BY <1>0, <1>2, <2>3, <5>1, <5>2 DEF Private
        <5> QED BY <2>1, <3>3, <5>1, <5>2, <5>3 DEF Reserved, Type, Found
      <4> QED BY <1>0, <2>3, <4>1, <4>2 DEF HeldReserved
    <3>5. OpenReserved'
      <4> SUFFICES ASSUME NEW k \in 1 .. Len(requests), requests[k].type \in Opens
                   PROVE  Reserved(requests[k].id)' /\ Found(requests[k].id)'
        BY <1>0, <3>1 DEF Ownership, OpenReserved
      <4>1. /\ requests[k].id \in live /\ Type(requests[k].id) = "reserve"
            /\ Found(requests[k].id)
        BY <3>1 DEF Ownership, OpenReserved, Reserved
      <4> QED BY <1>0, <2>1, <3>3, <4>1 DEF Reserved, Type, Found
    <3>6. RecordStates'
      <4> SUFFICES ASSUME NEW q \in Slots
          PROVE  /\ sockets'[q].type \in {"none", "reserve"}
                        => sockets'[q].state = "disconnected"
                 /\ sockets'[q].state # "disconnected" => sockets'[q].id \in live'
                 /\ sockets'[q].type = "socket" /\ sockets'[q].state # "disconnected"
                        => sockets'[q].buf \subseteq {sockets'[q].id}
        BY DEF RecordStates
      <4> QED BY <1>4, <2>1, <2>2, <2>4, <3>1 DEF Ownership, RecordStates, Edited
    <3>7. LiveOwned'
      <4>1. \A j \in live : Unset(j) => Unset(j)'
        BY <1>0, <2>3 DEF Unset
      <4>2. \A j \in live : Type(j)' # "none" /\ (Found(j)' \/ Unset(j)')
        BY <3>1, <3>3, <4>1 DEF Ownership, LiveOwned
      <4>3. sockets'[s].type # "none" /\ \E y \in Threads : pc'[y] = "setId" /\ arg'[y].id = i
        BY <1>0, <2>2, <2>3 DEF Edited
      <4>4. \A j, k \in live' : j # k => getIndex(j) # getIndex(k)
        BY <2>1, <3>1, <3>2 DEF Ownership, LiveOwned
      <4>5. \A j \in live' : Type(j)' # "none" /\ (Found(j)' \/ Unset(j)')
        BY <2>1, <4>2, <4>3 DEF Type, Unset
      <4> QED BY <4>4, <4>5 DEF LiveOwned
    <3>8. Recovering' /\ Connected'
      <4>1. loop.at = "recover" => getIndex(loop.id) \in Slots
        BY IdsNat, IndexType DEF Forms, RecordForms
      <4> QED BY <1>0, <1>2, <2>1, <2>4, <3>1, <3>3, <4>1
              DEF Ownership, Recovering, Connected, State
    <3>9. CloseTold'
      BY <1>0, <2>1, <3>1 DEF Ownership, CloseTold
    <3> QED BY <3>4, <3>5, <3>6, <3>7, <3>8, <3>9 DEF Ownership
  <2> QED BY <1>0, <1>1, <2>5, <2>6, <2>7
<1> QED BY <1>3, <1>4

\* The id is stored in the reserved record.
LEMMA ReserveSetIdInv ==
    ASSUME Inv, crash = "no", NEW x \in Threads, ReserveSetId(x) PROVE Inv'
<1> DEFINE i == arg[x].id
           s == getIndex(i)
<1> USE DEF Inv
<1>0. /\ Forms' /\ TypeOK /\ pc[x] = "setId" /\ arg[x].type \in Opens
      /\ i \in Ids /\ s \in Slots
      /\ UNCHANGED <<live, twice, crash, allocId, requests, arg, loop, known, conn,
                     closeMsgs>>
  BY ReserveForms, IdsNat, IndexType DEF Forms, ThreadForms, ReserveSetId, Goto, history
<1>1. RecoverAsserts'
  BY <1>0 DEF RecoverAsserts
<1>2. Private(x, i) /\ i \notin conn /\ \A q \in Slots : sockets[q].id # i
  BY <1>0 DEF FreshIds
<1>3. /\ pc'[x] \in {"post", "accepted"}
      /\ \A y \in Threads \ {x} : pc'[y] = pc[y]
  BY <1>0 DEF ReserveSetId, Goto, TypeOK
<1>4. Edited(s, i, sockets[s].type, sockets[s].state, sockets[s].reg, sockets[s].buf)
  BY <1>0, EditId DEF ReserveSetId
<1>5. \A q \in Slots : /\ sockets'[q].id \in {sockets[q].id, i}
                       /\ sockets'[q].state = sockets[q].state
                       /\ sockets'[q].type = sockets[q].type
                       /\ sockets'[q].buf = sockets[q].buf
  BY <1>0, <1>4 DEF Edited
<1>6. IdsBelow'
  BY <1>0, <1>5 DEF IdsBelow
<1>7. FreshIds'
  <2> SUFFICES ASSUME NEW y \in Threads \ {x}, pc[y] \in {"cas", "setId"}
               PROVE  /\ Private(y, arg[y].id)' /\ arg[y].id \notin conn
                      /\ pc[y] = "cas" => arg[y].id \notin live
                      /\ \A q \in Slots : sockets'[q].id # arg[y].id
    BY <1>0, <1>3 DEF FreshIds
  <2>1. /\ Private(y, arg[y].id) /\ arg[y].id \notin conn
        /\ pc[y] = "cas" => arg[y].id \notin live
        /\ \A q \in Slots : sockets[q].id # arg[y].id
    BY DEF FreshIds
  <2>2. arg[y].id # i
    BY <1>0, <2>1 DEF Private
  <2>3. Private(y, arg[y].id)'
    BY <1>0, <1>3, <2>1, <2>2 DEF Private
  <2> QED BY <1>5, <2>1, <2>2, <2>3
<1>8. ASSUME ~twice PROVE Ownership'
  <2>1. /\ Ownership /\ i \in live /\ sockets[s].type = "reserve"
        /\ \A j \in live : j # NoId /\ getIndex(j) \in Slots
    BY <1>0, <1>8, IdsNat, IndexType
    DEF TypeOK, Ownership, HeldReserved, Holds, Reserved, Type
  <2>2. \A j \in live \ {i} : getIndex(j) # s
    BY <2>1 DEF Ownership, LiveOwned
  <2>3. \A j \in live : /\ Type(j)' = Type(j) /\ State(j)' = State(j)
                        /\ j # i => (Found(j)' <=> Found(j))
    BY <1>4, <1>5, <2>1, <2>2 DEF Edited, Type, State, Found
  <2>4. sockets'[s].id = i
    BY <1>4 DEF Edited
  <2>5. HeldReserved'
    <3>1. /\ Reserved(arg[x].id)' /\ Private(x, arg[x].id)'
          /\ arg'[x].id \notin conn /\ Found(arg[x].id)'
      BY <1>0, <1>2, <1>3, <1>5, <2>1, <2>4 DEF Reserved, Type, Private, Found
    <3>2. ASSUME NEW y \in Threads \ {x}, Holds(y)'
          PROVE  /\ Reserved(arg[y].id)' /\ Private(y, arg[y].id)'
                 /\ arg'[y].id \notin conn
                 /\ pc'[y] # "setId" => Found(arg[y].id)'
      <4>1. Holds(y) /\ pc'[y] = pc[y] /\ arg' = arg
        BY <1>0, <1>3, <3>2 DEF Holds
      <4>2. /\ arg[y].id \in live /\ Type(arg[y].id) = "reserve"
            /\ Private(y, arg[y].id) /\ arg[y].id \notin conn
            /\ pc[y] # "setId" => Found(arg[y].id)
        BY <2>1, <4>1 DEF Ownership, HeldReserved, Reserved
      <4>3. arg[y].id # i
        BY <1>0, <4>2 DEF Private
      <4>4. Private(y, arg[y].id)'
        BY <1>0, <1>3, <4>1, <4>2, <4>3 DEF Private
      <4> QED BY <1>0, <2>3, <4>1, <4>2, <4>3, <4>4 DEF Reserved, Type, Found
    <3> QED BY <1>0, <3>1, <3>2 DEF HeldReserved
  <2>6. OpenReserved'
    <3> SUFFICES ASSUME NEW k \in 1 .. Len(requests), requests[k].type \in Opens
                 PROVE  Reserved(requests[k].id)' /\ Found(requests[k].id)'
      BY <1>0, <2>1 DEF Ownership, OpenReserved
    <3>1. /\ requests[k].id \in live /\ Type(requests[k].id) = "reserve"
          /\ Found(requests[k].id) /\ requests[k].id # i
      BY <1>2, <2>1 DEF Ownership, OpenReserved, Reserved, Private
    <3> QED BY <1>0, <2>3, <3>1 DEF Reserved, Type, Found
  <2>7. RecordStates'
    <3>1. sockets[s].state = "disconnected"
      BY <1>0, <2>1 DEF Ownership, RecordStates
    <3> QED BY <1>0, <1>4, <1>5, <2>1, <3>1 DEF Ownership, RecordStates, Edited
  <2>8. LiveOwned'
    <3>1. \A j \in live \ {i} : Unset(j) => Unset(j)'
      BY <1>0, <1>3 DEF Unset
    <3>2. \A j \in live : Type(j)' # "none" /\ (Found(j)' \/ Unset(j)')
      BY <2>1, <2>3, <2>4, <3>1 DEF Ownership, LiveOwned, Found
    <3> QED BY <1>0, <2>1, <3>2 DEF Ownership, LiveOwned
  <2>9. Recovering' /\ Connected'
    <3>1. loop.at = "recover" => getIndex(loop.id) \in Slots
      BY IdsNat, IndexType DEF Forms, RecordForms
    <3> QED BY <1>0, <1>5, <2>1, <2>3, <3>1
            DEF Ownership, Recovering, Connected, State
  <2>10. CloseTold'
    BY <1>0, <2>1 DEF Ownership, CloseTold
  <2> QED BY <2>5, <2>6, <2>7, <2>8, <2>9, <2>10 DEF Ownership
<1> QED BY <1>0, <1>1, <1>6, <1>7, <1>8

\* A service makes a call: it has a request for an id it knows, or for none.
LEMMA CallInv ==
    ASSUME Inv, Forms', NEW w \in Workers, NEW to \in {"alloc", "post"}, NEW r,
           pc[w] = "idle", Moves(w, to, r), UNCHANGED <<allocId, crash>>,
           r.id \in known \cup {NoId}, to = "alloc" \/ r.type \notin Opens
    PROVE  Inv'
<1> USE DEF Inv
<1>0. /\ TypeOK /\ ThreadForms /\ w \in Threads
      /\ UNCHANGED <<sockets, live, twice, requests, loop, known, conn, closeMsgs>>
      /\ pc'[w] = to /\ arg'[w] = r
      /\ \A y \in Threads \ {w} : pc'[y] = pc[y] /\ arg'[y] = arg[y]
  BY ThreadCases DEF Forms, Moves
<1>1. NoId < allocId
  BY <1>0, TableAssumption DEF TypeOK, NoId
<1>2. IdsBelow'
  BY <1>0, <1>1 DEF IdsBelow
<1>3. FreshIds'
  <2> SUFFICES ASSUME NEW y \in Threads \ {w}, pc[y] \in {"cas", "setId"}
               PROVE  /\ Private(y, arg[y].id)' /\ arg[y].id \notin conn
                      /\ pc[y] = "cas" => arg[y].id \notin live
                      /\ \A q \in Slots : sockets[q].id # arg[y].id
    BY <1>0 DEF FreshIds
  <2>1. /\ Private(y, arg[y].id) /\ arg[y].id \notin conn
        /\ pc[y] = "cas" => arg[y].id \notin live
        /\ \A q \in Slots : sockets[q].id # arg[y].id
    BY DEF FreshIds
  <2>2. arg[y].id # r.id
    BY <1>0, <2>1, IdsNat DEF Private, ThreadForms
  <2>3. Private(y, arg[y].id)'
    BY <1>0, <2>1, <2>2 DEF Private
  <2> QED BY <2>1, <2>3
<1>4. ASSUME ~twice PROVE Ownership'
  <2>1. ASSUME NEW y \in Threads \ {w}, Holds(y) PROVE arg[y].id # r.id
    <3>1. arg[y].id \in Ids
      BY <1>0, <2>1 DEF Holds, ThreadForms, Opens
    <3>2. arg[y].id \notin known
      BY <1>4, <2>1 DEF Ownership, HeldReserved, Private
    <3> QED BY <3>1, <3>2, IdsNat
  <2> QED BY <1>0, <1>4, <2>1, MovesOwn
<1>5. RecoverAsserts'
  BY <1>0 DEF RecoverAsserts
<1> QED BY <1>0, <1>2, <1>3, <1>4, <1>5

\* A request is posted.
LEMMA PostAcceptedInv ==
    ASSUME Inv, Forms', NEW w \in Workers, PostAccepted(w) PROVE Inv'
<1> DEFINE r == arg[w]
           n == Len(requests) + 1
<1> USE DEF Inv
<1>0. /\ TypeOK /\ ThreadForms /\ w \in Threads /\ pc[w] = "post" /\ r \in Request
      /\ UNCHANGED <<sockets, live, twice, crash, allocId, loop, conn, closeMsgs>>
      /\ known' = known \cup ({r.id} \ {NoId})
  BY ThreadCases DEF Forms, TypeOK, PostAccepted, Goto, table, history
<1>1. /\ requests' \in Seq(Request) /\ Len(requests') = n /\ n \in Nat
      /\ \A k \in 1 .. Len(requests) : requests'[k] = requests[k]
      /\ requests'[n] = r
      /\ \A k \in 1 .. Len(requests') : k \in 1 .. Len(requests) \/ k = n
  BY <1>0, AppendIndex DEF PostAccepted, TypeOK
<1>2. /\ pc'[w] = "idle" /\ arg'[w].id = NoId
      /\ \A y \in Threads \ {w} : pc'[y] = pc[y] /\ arg'[y] = arg[y]
  BY <1>0 DEF PostAccepted, Goto, NoRequest, TypeOK
<1>3. IdsBelow'
  <2>1. NoId < allocId
    BY <1>0, TableAssumption DEF TypeOK, NoId
  <2>2. \A k \in 1 .. Len(requests') : requests'[k].id < allocId
    BY <1>0, <1>1 DEF IdsBelow
  <2> QED BY <1>0, <1>2, <2>1, <2>2 DEF IdsBelow
<1>4. ASSUME NEW y \in Threads \ {w}, arg[y].id \in Ids, Private(y, arg[y].id)
      PROVE  Private(y, arg[y].id)'
  <2>1. arg[y].id # r.id /\ arg[y].id # NoId
    BY <1>0, <1>4, IdsNat DEF Private
  <2>2. \A k \in 1 .. Len(requests') : requests'[k].id # arg[y].id
    BY <1>1, <1>4, <2>1 DEF Private
  <2>3. \A z \in Threads \ {y} : pc'[z] # "alloc" => arg'[z].id # arg[y].id
    BY <1>2, <1>4, <2>1 DEF Private
  <2> QED BY <1>0, <1>2, <1>4, <2>1, <2>2, <2>3 DEF Private
<1>5. FreshIds'
  <2> SUFFICES ASSUME NEW y \in Threads \ {w}, pc[y] \in {"cas", "setId"}
               PROVE  /\ Private(y, arg[y].id)' /\ arg[y].id \notin conn
                      /\ pc[y] = "cas" => arg[y].id \notin live
                      /\ \A q \in Slots : sockets[q].id # arg[y].id
    BY <1>0, <1>2 DEF FreshIds
  <2>1. arg[y].id \in Ids
    BY <1>0 DEF ThreadForms
  <2> QED BY <1>4, <2>1 DEF FreshIds
<1>6. ASSUME ~twice PROVE Ownership'
  <2>0. Ownership
    BY <1>6
  <2>1. HeldReserved'
    <3> SUFFICES ASSUME NEW y \in Threads \ {w}, Holds(y)
                 PROVE  /\ Reserved(arg[y].id)' /\ Private(y, arg[y].id)'
                        /\ arg[y].id \notin conn
                        /\ pc[y] # "setId" => Found(arg[y].id)'
      BY <1>0, <1>2 DEF HeldReserved, Holds
    <3>1. Private(y, arg[y].id) /\ arg[y].id \notin conn
      BY <2>0 DEF Ownership, HeldReserved, Reserved
    <3>2. arg[y].id \in Ids
      BY <1>0, <2>0 DEF TypeOK, Ownership, HeldReserved, Reserved
    <3>3. Reserved(arg[y].id) /\ (pc[y] # "setId" => Found(arg[y].id))
      BY <2>0 DEF Ownership, HeldReserved
    <3> QED BY <1>0, <1>2, <1>4, <3>1, <3>2, <3>3 DEF Reserved, Type, Found
  <2>2. OpenReserved'
    <3> SUFFICES ASSUME NEW k \in 1 .. Len(requests'), requests'[k].type \in Opens
                 PROVE  /\ Reserved(requests[k].id)' /\ Found(requests[k].id)'
                        /\ requests'[k].id \notin conn
                        /\ requests'[k].id # loop.id
                        /\ \A j \in 1 .. k - 1 : requests'[j].id # requests'[k].id
      BY <1>0 DEF OpenReserved
    <3>1. CASE k \in 1 .. Len(requests)
      BY <1>0, <1>1, <2>0, <3>1 DEF Ownership, OpenReserved, Reserved, Type, Found
    <3>2. CASE k = n
      <4>1. Holds(w)
        BY <1>0, <1>1, <3>2 DEF Holds
      <4>2. /\ Reserved(r.id) /\ Found(r.id) /\ Private(w, r.id) /\ r.id \notin conn
        BY <1>0, <2>0, <4>1 DEF Ownership, HeldReserved
      <4>3. \A j \in 1 .. n - 1 : requests'[j].id # r.id
        BY <1>0, <1>1, <4>2 DEF Private, TypeOK
      <4> QED BY <1>0, <1>1, <3>2, <4>2, <4>3 DEF Private, Reserved, Type, Found
    <3> QED BY <1>1, <3>1, <3>2
  <2>3. RecordStates'
    BY <1>0, <2>0 DEF Ownership, RecordStates
  <2>4. LiveOwned'
    <3>1. \A j \in live : Unset(j) => Unset(j)'
      BY <1>0, <1>2 DEF Unset
    <3> QED BY <1>0, <2>0, <3>1 DEF Ownership, LiveOwned, Type, Found
  <2>5. Recovering' /\ Connected' /\ CloseTold'
    BY <1>0, <2>0 DEF Ownership, Recovering, Connected, State, CloseTold
  <2> QED BY <2>1, <2>2, <2>3, <2>4, <2>5 DEF Ownership
<1>7. RecoverAsserts'
  BY <1>0 DEF RecoverAsserts
<1> QED BY <1>0, <1>3, <1>5, <1>6, <1>7

\* The queue was full.
LEMMA PostRefusedInv ==
    ASSUME Inv, crash = "no", Forms', NEW w \in Workers, PostRefused(w) PROVE Inv'
<1> DEFINE i == arg[w].id
           where == IF arg[w].type \in Opens THEN "recoverInPost" ELSE "recoverInUse"
<1> USE DEF Inv
<1>0. /\ TypeOK /\ ThreadForms /\ w \in Threads /\ pc[w] = "post"
      /\ UNCHANGED <<allocId, requests, loop, known, conn, closeMsgs>>
  BY ThreadCases DEF Forms, PostRefused, Goto, history
<1>1. /\ pc'[w] = "idle" /\ arg'[w] = NoRequest /\ NoRequest.id = NoId
      /\ \A y \in Threads \ {w} : pc'[y] = pc[y] /\ arg'[y] = arg[y]
  BY <1>0 DEF PostRefused, Goto, NoRequest, TypeOK
<1>2. \/ UNCHANGED <<sockets, live, twice>> /\ crash' \in {"no", "recoverInUse"}
      \/ /\ UNCHANGED <<sockets, live, twice>> /\ crash' = "recoverInPost"
         /\ arg[w].type \in Opens /\ i \in Ids /\ State(i) # "disconnected"
      \/ /\ State(i) = "disconnected" /\ i \in Ids
         /\ LET s == getIndex(i) IN
            Edited(s, sockets[s].id, "none", sockets[s].state,
                   sockets[s].reg, sockets[s].buf)
         /\ live' = live \ {i} /\ UNCHANGED crash
         /\ twice' = (twice \/ i \notin live \/ arg[w].type \notin Opens)
  <2>1. CASE arg[w].type \in {"send", "stop"}
    BY <2>1 DEF PostRefused, table
  <2>2. CASE arg[w].type \notin {"send", "stop"}
    <3>1. tcpRecoverId(i, sockets, where) /\ i \in Ids
      BY <1>0, <2>2 DEF PostRefused, ThreadForms
    <3>2. where = "recoverInUse" <=> arg[w].type \notin Opens
      OBVIOUS
    <3>3. \/ /\ State(i) # "disconnected" /\ crash' = where
             /\ UNCHANGED <<sockets, live, twice>>
          \/ /\ State(i) = "disconnected"
             /\ LET s == getIndex(i) IN
                Edited(s, sockets[s].id, "none", sockets[s].state,
                       sockets[s].reg, sockets[s].buf)
             /\ live' = live \ {i} /\ UNCHANGED crash
             /\ twice' = (twice \/ i \notin live \/ where = "recoverInUse")
      BY <1>0, <3>1, RecoverCases
    <3> QED BY <3>1, <3>2, <3>3
  <2> QED BY <2>1, <2>2
<1>3. /\ \A s \in Slots : sockets'[s].id = sockets[s].id
      /\ live' \subseteq live
  <2>1. i \in Ids => getIndex(i) \in Slots
    BY IdsNat, IndexType
  <2> QED BY <1>2, <2>1 DEF Edited
<1>4. IdsBelow'
  <2>1. NoId < allocId
    BY <1>0, TableAssumption DEF TypeOK, NoId
  <2> QED BY <1>0, <1>1, <1>3, <2>1 DEF IdsBelow
<1>5. ASSUME NEW y \in Threads \ {w}, arg[y].id \in Ids, Private(y, arg[y].id)
      PROVE  Private(y, arg[y].id)'
  BY <1>0, <1>1, <1>5, IdsNat DEF Private
<1>6. FreshIds'
  <2> SUFFICES ASSUME NEW y \in Threads \ {w}, pc[y] \in {"cas", "setId"}
               PROVE  /\ Private(y, arg[y].id)' /\ arg[y].id \notin conn
                      /\ pc[y] = "cas" => arg[y].id \notin live'
                      /\ \A q \in Slots : sockets'[q].id # arg[y].id
    BY <1>0, <1>1 DEF FreshIds
  <2>1. arg[y].id \in Ids
    BY <1>0 DEF ThreadForms
  <2> QED BY <1>3, <1>5, <2>1 DEF FreshIds
<1>7. ~twice /\ arg[w].type \in Opens
        => i \in live /\ State(i) = "disconnected" /\ Private(w, i) /\ i \notin conn
  <2>1. ~twice /\ arg[w].type \in Opens => Reserved(i) /\ Private(w, i) /\ i \notin conn
    BY <1>0 DEF Ownership, HeldReserved, Holds
  <2>2. i \in live => getIndex(i) \in Slots
    BY <1>0, IdsNat, IndexType DEF TypeOK
  <2> QED BY <2>1, <2>2 DEF Ownership, RecordStates, Reserved, Type, State
<1>8. RecoverAsserts'
  BY <1>2, <1>7 DEF RecoverAsserts
<1>9. CASE UNCHANGED <<sockets, live, twice>>
  <2>1. Moves(w, "idle", NoRequest)
    BY <1>0, <1>1, <1>9 DEF Moves
  <2>2. \A y \in Threads \ {w} : ~twice /\ Holds(y) => arg[y].id # NoId
    BY <1>0, IdsNat DEF Ownership, HeldReserved, Reserved, TypeOK
  <2>3. ~twice => Ownership'
    BY <1>0, <1>1, <2>1, <2>2, MovesOwn
  <2> QED BY <1>4, <1>6, <1>8, <1>9, <2>3
<1>10. CASE /\ State(i) = "disconnected" /\ i \in Ids
            /\ LET s == getIndex(i) IN
               Edited(s, sockets[s].id, "none", sockets[s].state,
                      sockets[s].reg, sockets[s].buf)
            /\ live' = live \ {i} /\ UNCHANGED crash
            /\ twice' = (twice \/ i \notin live \/ arg[w].type \notin Opens)
  <2>1. ASSUME ~twice' PROVE Ownership'
    <3>1. ~twice /\ i \in live /\ arg[w].type \in Opens
      BY <1>10, <2>1
    <3>2. Ownership /\ Private(w, i) /\ i \notin conn
      BY <1>7, <3>1
    <3>3. /\ \A j \in live \ {i} : Type(j)' = Type(j)
          /\ \A j \in live : (Found(j)' <=> Found(j)) /\ State(j)' = State(j)
          /\ RecordStates'
      BY <1>10, <3>1, RecoveredOthers
    <3>4. HeldReserved'
      <4> SUFFICES ASSUME NEW y \in Threads \ {w}, Holds(y)
                   PROVE  /\ Reserved(arg[y].id)' /\ Private(y, arg[y].id)'
                          /\ arg[y].id \notin conn
                          /\ pc[y] # "setId" => Found(arg[y].id)'
        BY <1>0, <1>1 DEF HeldReserved, Holds
      <4>1. /\ arg[y].id \in live /\ Type(arg[y].id) = "reserve"
            /\ Private(y, arg[y].id) /\ arg[y].id \notin conn
            /\ pc[y] # "setId" => Found(arg[y].id)
        BY <3>2 DEF Ownership, HeldReserved, Reserved
      <4>2. arg[y].id # i /\ arg[y].id \in Ids
        BY <1>0, <4>1 DEF Private, TypeOK
      <4>3. Private(y, arg[y].id)'
        BY <1>5, <4>1, <4>2
      <4>4. arg'[y] = arg[y]
        BY <1>1
      <4> QED BY <1>10, <3>3, <4>1, <4>2, <4>3, <4>4 DEF Reserved, Type, Found
    <3>5. OpenReserved'
      <4> SUFFICES ASSUME NEW k \in 1 .. Len(requests), requests[k].type \in Opens
                   PROVE  Reserved(requests[k].id)' /\ Found(requests[k].id)'
        BY <1>0, <3>2 DEF Ownership, OpenReserved
      <4>1. /\ requests[k].id \in live \ {i} /\ Type(requests[k].id) = "reserve"
            /\ Found(requests[k].id)
        BY <3>2 DEF Ownership, OpenReserved, Reserved, Private
      <4> QED BY <1>0, <1>10, <3>3, <4>1 DEF Reserved, Type, Found
    <3>6. LiveOwned'
      <4>1. \A j \in live : Unset(j) => Unset(j)'
        BY <1>0, <1>1 DEF Unset
      <4> QED BY <1>10, <3>2, <3>3, <4>1 DEF Ownership, LiveOwned
    <3>7. Recovering'
      <4>1. loop.at = "recover" =>
                getIndex(loop.id) \in Slots /\ State(loop.id)' = State(loop.id)
        <5>1. loop.at = "recover" => getIndex(loop.id) \in Slots
          BY IdsNat, IndexType DEF Forms, RecordForms
        <5>2. \A s \in Slots : sockets'[s].state = sockets[s].state
          BY <1>10 DEF Edited
        <5> QED BY <1>0, <5>1, <5>2 DEF State
      <4> QED BY <1>0, <1>10, <3>2, <4>1 DEF Ownership, Recovering
    <3>8. Connected'
      BY <1>0, <1>10, <3>2, <3>3 DEF Ownership, Connected
    <3>9. CloseTold'
      BY <1>0, <1>10, <3>1, <3>2 DEF Ownership, CloseTold
    <3> QED BY <3>3, <3>4, <3>5, <3>6, <3>7, <3>8, <3>9 DEF Ownership
  <2> QED BY <1>4, <1>6, <1>8, <2>1
<1> QED BY <1>2, <1>9, <1>10

\* The steps of a worker keep the invariant.
LEMMA WorkerInv ==
    ASSUME Inv, crash = "no", NEW w \in Workers, Worker(w) PROVE Inv'
<1>0. Forms' /\ w \in Threads
  BY WorkerForms, ThreadCases DEF Inv
<1>00. pc \in [Threads -> {"idle", "alloc", "cas", "setId", "post", "accepted"}]
       /\ arg \in [Threads -> Request]
  BY DEF Inv, Forms, TypeOK
<1>1. ASSUME NEW type \in Opens, Open(w, type) PROVE Inv'
  <2> DEFINE r == [type |-> type, id |-> NoId]
  <2>1. Moves(w, "alloc", r) /\ pc[w] = "idle" /\ UNCHANGED <<allocId, crash>>
    BY <1>0, <1>00, <1>1 DEF Open, Reserving, Goto, Moves, table, history
  <2> QED BY <1>0, <2>1, CallInv
<1>2. ASSUME NEW i \in Ids, NEW type \in {"start", "close", "send"}, Use(w, type, i)
      PROVE  Inv'
  <2> DEFINE r == [type |-> type, id |-> i]
  <2>1. /\ Moves(w, "post", r) /\ pc[w] = "idle" /\ UNCHANGED <<allocId, crash>>
        /\ i \in known
    BY <1>0, <1>00, <1>2 DEF Use, Goto, Moves, table, history
  <2> QED BY <1>0, <2>1, CallInv DEF Opens
<1>3. CASE tcpStop(w)
  <2> DEFINE r == [type |-> "stop", id |-> NoId]
  <2>1. Moves(w, "post", r) /\ pc[w] = "idle" /\ UNCHANGED <<allocId, crash>>
    BY <1>0, <1>00, <1>3 DEF tcpStop, Goto, Moves, table, history
  <2> QED BY <1>0, <2>1, CallInv DEF Opens
<1>4. CASE PostAccepted(w)
  BY <1>0, <1>4, PostAcceptedInv
<1>5. CASE PostRefused(w)
  BY <1>0, <1>5, PostRefusedInv
<1> QED BY <1>1, <1>2, <1>3, <1>4, <1>5
        DEF Worker, tcpSocketListen, tcpSocketConnect, tcpSocketAsyncConnect,
            tcpSocketStart, tcpSocketClose, tcpSocketSend, Opens

\* Every step keeps the invariant.
LEMMA InvStep == Inv /\ [Next]_vars => Inv'
<1> SUFFICES ASSUME Inv, [Next]_vars PROVE Inv'
  OBVIOUS
<1>1. CASE UNCHANGED vars
  <2>1. /\ UNCHANGED <<sockets, live, twice, crash, allocId, requests, pc, tries, arg,
                       loop, known, conn, closeMsgs, calls>>
    BY <1>1 DEF vars, table, history
  <2>2. Forms'
    BY <2>1 DEF Inv, Forms, TypeOK, ThreadForms, RequestForms, RecordForms
  <2>3. IdsBelow' /\ FreshIds' /\ RecoverAsserts'
    BY <2>1 DEF Inv, IdsBelow, FreshIds, Private, RecoverAsserts
  <2>4. ASSUME ~twice PROVE Ownership'
    <3>1. Ownership
      BY <2>4 DEF Inv
    <3>2. HeldReserved' /\ OpenReserved'
      BY <2>1, <3>1 DEF Ownership, HeldReserved, OpenReserved, Holds, Reserved,
                        Private, Type, Found
    <3>3. RecordStates' /\ LiveOwned'
      BY <2>1, <3>1 DEF Ownership, RecordStates, LiveOwned, Type, Found, Unset
    <3>4. Recovering' /\ Connected' /\ CloseTold'
      BY <2>1, <3>1 DEF Ownership, Recovering, Connected, CloseTold, State
    <3> QED BY <3>2, <3>3, <3>4 DEF Ownership
  <2> QED BY <2>1, <2>2, <2>3, <2>4 DEF Inv
<1>2. CASE Next
  <2>0. crash = "no"
    BY <1>2 DEF Next
  <2>1. ASSUME NEW w \in Workers, Worker(w) PROVE Inv'
    BY <2>0, <2>1, WorkerInv
  <2>2. ASSUME NEW x \in Threads, ReserveLook(x) \/ ReserveCas(x) \/ ReserveSetId(x)
        PROVE  Inv'
    BY <2>0, <2>2, ReserveLookInv, ReserveCasInv, ReserveSetIdInv
  <2>3. CASE Handler
    BY <2>0, <2>3, OpenHandlersInv, StartHandlerInv, UseHandlersInv, StopHandlerInv,
       LoopRecoverInv, LoopNotifyInv DEF Handler
  <2>4. CASE Accepted
    BY <2>0, <2>4, AcceptedInv
  <2>5. ASSUME NEW s \in Slots, onAccept(s) \/ onRead(s) \/ onWrite(s) PROVE Inv'
    BY <2>5, OnAcceptInv, EventsInv
  <2> QED BY <1>2, <2>1, <2>2, <2>3, <2>4, <2>5 DEF Next
<1> QED BY <1>1, <1>2

-----------------------------------------------------------------------------
(* The theorems *)

\* The invariant holds in every reachable state.
LEMMA InvHolds == Spec => []Inv
<1>1. Init => Inv
  BY InitInv
<1>2. Inv /\ [Next]_vars => Inv'
  BY InvStep
<1> QED BY <1>1, <1>2, PTL DEF Spec

\* The variables keep their types; in particular a SOCK_CLOSE message always
\* names an id, although the record was free for others before it is made.
THEOREM SocketTypes == Spec => []TypeOK
<1>1. Inv => TypeOK
  BY DEF Inv, Forms
<1> QED BY <1>1, InvHolds, PTL

\* A record has one owner, whatever the interleaving of tcpGetReserveId in the
\* threads with the handlers of the loop, until an id is recovered twice.
THEOREM RecordsHaveOneOwner == Spec => []OneOwner
<1>1. Inv => OneOwner
  BY DEF Inv, Ownership, LiveOwned, OneOwner, Type
<1> QED BY <1>1, InvHolds, PTL

\* The assertion in tcpRecoverId holds in the loop and for a refused listen or
\* connect until an id is recovered twice.
THEOREM RecoverAssertHolds == Spec => []RecoverAsserts
<1>1. Inv => RecoverAsserts
  BY DEF Inv
<1> QED BY <1>1, InvHolds, PTL

\* The service of a connection that is over got a SOCK_CLOSE or gets it next.
THEOREM ClosesAreTold == Spec => []CloseTold
<1>1. Inv => CloseTold
  BY DEF Inv, Ownership, CloseTold
<1> QED BY <1>1, InvHolds, PTL

\* An accepted connection sends nothing that was meant for another one.
THEOREM AcceptedBuffers == Spec => []AcceptedBuffersOwn
<1>1. Inv => AcceptedBuffersOwn
  BY DEF Inv, Ownership, RecordStates, AcceptedBuffersOwn
<1> QED BY <1>1, InvHolds, PTL
==============================================================================
