----------------------------- MODULE EventQueue ------------------------------
(***************************************************************************)
(* The queue of src/event_msgqueue.c that carries requests from any thread *)
(* to the thread of an event loop (timer.c, tcp.c).  A producer appends    *)
(* its message to an arrayLockFreeQueue and, when the length it then reads *)
(* is 1, writes a byte to a socket pair; the loop sleeps in aeApiPoll      *)
(* until that socket is readable, reads the bytes and pops until the queue *)
(* is empty.                                                               *)
(*                                                                         *)
(* The array queue is the FIFO queue that LockFreeQueue implements, with   *)
(* its length counter apart: count is raised after a message is published *)
(* and lowered after one was claimed.  count is an uint32_t that can pass  *)
(* below zero; the code only compares it with 1, so the integer is exact.  *)
(***************************************************************************)
EXTENDS Integers, Sequences, FiniteSets

CONSTANTS
    Producers,  \* the threads that call emPush
    Messages,   \* what they push
    NoMessage,  \* "no message in hand"
    Capacity,   \* entries the array queue holds
    RecvMax     \* sizeof(buf) in popMsgqueue

ASSUME EventQueueAssumption ==
    /\ IsFiniteSet(Producers)
    /\ Capacity \in Nat \ {0} /\ RecvMax \in Nat \ {0}
    /\ NoMessage \notin Messages

VARIABLES
    queue,      \* the published messages, oldest first
    count,      \* arrayLockFreeQueue's count
    bytes,      \* bytes in the socket pair
    pc,         \* where each producer is in emPush
    msg,        \* the argument of its call
    loop,       \* where the event loop's thread is
    cur,        \* the message whose callback it runs
    raced       \* history: a producer counted between the count of another
                \* one and its reading of the length

emVars == <<queue, count, bytes, pc, msg, loop, cur, raced>>

Popping == {"pop", "popCount", "callback"}  \* inside popMsgqueue

EmTypeOK ==
    /\ queue \in Seq(Messages)
    /\ count \in Int /\ bytes \in Nat
    /\ pc \in [Producers ->
                {"idle", "push", "count", "size", "send", "accepted", "refused"}]
    /\ msg \in [Producers -> Messages \cup {NoMessage}]
    /\ \A p \in Producers : pc[p] = "push" => msg[p] # NoMessage
    /\ loop \in Popping \cup {"poll", "timers", "ended"}
    /\ cur \in Messages \cup {NoMessage}
    /\ loop \in {"popCount", "callback"} => cur # NoMessage
    /\ raced \in BOOLEAN

EmInit ==
    /\ queue = <<>> /\ count = 0 /\ bytes = 0
    /\ pc = [p \in Producers |-> "idle"]
    /\ msg = [p \in Producers |-> NoMessage]
    /\ loop = "poll" /\ cur = NoMessage
    /\ raced = FALSE

-----------------------------------------------------------------------------
(* emPush *)

Goto(p, from, to) == pc[p] = from /\ pc' = [pc EXCEPT ![p] = to]

emPush(p, m) ==
    /\ Goto(p, "idle", "push")
    /\ msg' = [msg EXCEPT ![p] = m]
    /\ UNCHANGED <<queue, count, bytes, loop, cur, raced>>

Publish(p) ==
    /\ Goto(p, "push", "count")
    /\ Len(queue) < Capacity
    /\ queue' = Append(queue, msg[p])
    /\ UNCHANGED <<count, bytes, msg, loop, cur, raced>>

(* A push is refused by a full queue, and by one that another push made    *)
(* look full (the run queue_full).                                         *)
Refuse(p) ==
    /\ Goto(p, "push", "refused")
    /\ Len(queue) = Capacity \/ \E q \in Producers \ {p} : pc[q] # "idle"
    /\ UNCHANGED <<queue, count, bytes, msg, loop, cur, raced>>

PushCount(p) ==
    /\ Goto(p, "count", "size")
    /\ count' = count + 1
    /\ raced' = (raced \/ \E q \in Producers : pc[q] = "size")
    /\ UNCHANGED <<queue, bytes, msg, loop, cur>>

\* Deviation: the length is tested for being above 1.
ReadSizeMore(p) ==
    /\ Goto(p, "size", IF count > 1 THEN "send" ELSE "accepted")
    /\ UNCHANGED <<queue, count, bytes, msg, loop, cur, raced>>

ReadSize(p) ==
    /\ Goto(p, "size", IF count = 1 THEN "send" ELSE "accepted")
    /\ UNCHANGED <<queue, count, bytes, msg, loop, cur, raced>>

SendByte(p) ==
    /\ Goto(p, "send", "accepted")
    /\ bytes' = bytes + 1
    /\ UNCHANGED <<queue, count, msg, loop, cur, raced>>

(* emPush returns 0 or -1 to its caller, which is done with the call. *)
Return(p) ==
    /\ pc[p] \in {"accepted", "refused"}
    /\ pc' = [pc EXCEPT ![p] = "idle"]
    /\ msg' = [msg EXCEPT ![p] = NoMessage]
    /\ UNCHANGED <<queue, count, bytes, loop, cur, raced>>

-----------------------------------------------------------------------------
(* The event loop: aeApiPoll, popMsgqueue, processTimeEvents. *)

Advance(from, to) == loop = from /\ loop' = to

\* The socket is readable: popMsgqueue starts by reading it.
Poll ==
    /\ Advance("poll", "pop")
    /\ bytes > 0
    /\ bytes' = IF bytes > RecvMax THEN bytes - RecvMax ELSE 0
    /\ UNCHANGED <<queue, count, pc, msg, cur, raced>>

\* Deviation: one message for each wake-up.
PopEmptyAlways ==
    /\ Advance("pop", "timers")
    /\ UNCHANGED <<queue, count, bytes, pc, msg, cur, raced>>

PopEmpty ==
    /\ Advance("pop", "timers")
    /\ queue = <<>>
    /\ UNCHANGED <<queue, count, bytes, pc, msg, cur, raced>>

Pop ==
    /\ Advance("pop", "popCount")
    /\ queue # <<>>
    /\ cur' = Head(queue)
    /\ queue' = Tail(queue)
    /\ UNCHANGED <<count, bytes, pc, msg, raced>>

\* Deviation: the count is not lowered.
PopCountLost ==
    /\ Advance("popCount", "callback")
    /\ UNCHANGED <<queue, count, bytes, pc, msg, cur, raced>>

PopCount ==
    /\ Advance("popCount", "callback")
    /\ count' = count - 1
    /\ UNCHANGED <<queue, bytes, pc, msg, cur, raced>>

(* The callback handled the message.  Stopping the loop only takes effect  *)
(* when the round is over.                                                 *)
Callback ==
    /\ Advance("callback", "pop")
    /\ cur' = NoMessage
    /\ UNCHANGED <<queue, count, bytes, pc, msg, raced>>

\* aeApiPoll returned because a time event is due and no byte was there.
PollTimeout ==
    /\ Advance("poll", "timers")
    /\ bytes = 0
    /\ UNCHANGED <<queue, count, bytes, pc, msg, cur, raced>>

EndRound(stop) ==
    /\ Advance("timers", IF stop THEN "ended" ELSE "poll")
    /\ UNCHANGED <<queue, count, bytes, pc, msg, cur, raced>>

EmNext ==
    \/ \E p \in Producers :
        \/ \E m \in Messages : emPush(p, m)
        \/ Publish(p) \/ Refuse(p) \/ PushCount(p) \/ ReadSize(p)
        \/ SendByte(p) \/ Return(p)
    \/ Poll \/ Pop \/ PopEmpty \/ PopCount \/ Callback
    \/ PollTimeout \/ \E stop \in BOOLEAN : EndRound(stop)

EmSpec == EmInit /\ [][EmNext]_emVars

-----------------------------------------------------------------------------
(* Properties *)

Uncounted == {p \in Producers : pc[p] = "count"}

(* count is the length of the queue, less the messages whose producers did *)
(* not count them yet, plus the one the loop has claimed but not counted.  *)
CountExact ==
    count = Len(queue) - Cardinality(Uncounted)
                + (IF loop = "popCount" THEN 1 ELSE 0)

(* While no two producers were between their count and their reading of    *)
(* the length at once: outside popMsgqueue a positive count means that a   *)
(* byte is in the socket or that a producer is about to write one.         *)
WakeUpOwed ==
    raced \/ loop \in Popping \/ count < 1 \/ bytes > 0
      \/ \E p \in Producers :
            pc[p] = "send" \/ (pc[p] = "size" /\ count = 1)

EmInv == EmTypeOK /\ CountExact /\ WakeUpOwed

(* The loop never sleeps on a message: when popMsgqueue (emPush's other    *)
(* half) is not running and a message is queued, a byte is in the socket   *)
(* or some producer is still inside emPush - unless two producers read the *)
(* length after both of them counted, when neither may see 1.              *)
NoSleepOnMessage ==
    raced \/ loop \in Popping \/ queue = <<>> \/ bytes > 0
      \/ \E p \in Producers : pc[p] \in {"count", "size", "send"}
==============================================================================
