-------------------------------- MODULE Timer --------------------------------
(***************************************************************************)
(* src/timer.c: services start and cancel timers from any worker thread    *)
(* through the event queue; the timer thread keeps them as time events of  *)
(* its loop and sends a RESPONSE when one expires.  The clock is left out: *)
(* an armed timer may be due in any round of the loop, and whether it is a *)
(* single or a repeating one is chosen when it fires.                      *)
(***************************************************************************)
EXTENDS EventQueue

CONSTANTS
    MaxTimers,  \* bound: calls of timerTimeout
    SnMod,      \* serial numbers are reduced modulo SnMod (2^31)
    Main        \* the producer that waits in timerJoin and runs the signal
                \* handler; the others are the workers

ASSUME TimerAssumption ==
    MaxTimers \in Nat /\ SnMod \in Nat \ {0} /\ Main \in Producers

Timers == 1 .. MaxTimers
Sns == 0 .. SnMod - 1
NoSn == SnMod               \* told nothing yet
NoTimer == 0

\* t names the timer a cancel is meant for; the code sends only the number.
TimerMessages ==
    [type : {"add"}, t : Timers]
      \cup [type : {"cancel"}, sn : Sns, t : Timers]
      \cup {[type |-> "stop"]}

ASSUME MessagesAssumption == Messages = TimerMessages

VARIABLES
    sn,         \* T->sn
    timers,     \* the timerEvents: where each is, its number, what its
                \* caller was told the number is, whether it asked for a cancel
    timerDict,  \* T->timerDict: serial number to time event
    cancelled,  \* history: timers whose cancel was handled
    stop        \* "no", "posted" (accepted by the queue), "lost" (refused),
                \* "seen" (aeStop called)

timerVars == <<sn, timers, timerDict, cancelled, stop>>
vars == <<emVars, timerVars>>

States == {"unused", "posting", "direct", "armed", "freed"}

TypeOK ==
    /\ EmTypeOK
    /\ sn \in Sns
    /\ timers \in [Timers -> [st : States, sn : Sns \cup {NoSn},
                              told : Sns \cup {NoSn}, asked : BOOLEAN]]
    /\ timerDict \in [Sns -> Timers \cup {NoTimer}]
    /\ cancelled \subseteq Timers
    /\ stop \in {"no", "posting", "posted", "lost", "seen"}

Init ==
    /\ EmInit
    /\ sn = 0
    /\ timers = [k \in Timers |-> [st |-> "unused", sn |-> NoSn, told |-> NoSn,
                                   asked |-> FALSE]]
    /\ timerDict = [n \in Sns |-> NoTimer]
    /\ cancelled = {}
    /\ stop = "no"

-----------------------------------------------------------------------------
(* The calls of the services and of the signal handler. *)

\* Deviation: the number is not masked.
timerNewSnUnmasked == sn + 1

timerNewSn == (sn + 1) % SnMod

Fresh(k) == timers[k].st = "unused" /\ \A j \in 1 .. k - 1 : timers[j].st # "unused"

\* time # 0: a new event with a new number is pushed.
timerTimeout(p, k) ==
    /\ Fresh(k)
    /\ emPush(p, [type |-> "add", t |-> k])
    /\ sn' = timerNewSn
    /\ timers' = [timers EXCEPT ![k] = [@ EXCEPT !.st = "posting", !.sn = sn']]
    /\ UNCHANGED <<timerDict, cancelled, stop>>

\* time = 0: the RESPONSE is sent at once, and the caller is told number 0.
timerTimeoutNow(k) ==
    /\ Fresh(k)
    /\ timers' = [timers EXCEPT ![k] = [@ EXCEPT !.st = "direct", !.told = 0]]
    /\ UNCHANGED <<emVars, sn, timerDict, cancelled, stop>>

(* After the push timerTimeout reads the number from the event, which the  *)
(* timer thread may have freed: then the number is arbitrary.  A refused   *)
(* event is freed by the caller.                                           *)
TimeoutReturns(p) ==
    /\ msg[p] # NoMessage /\ msg[p].type = "add"
    /\ Return(p)
    /\ LET k == msg[p].t IN
        \/ /\ pc[p] = "accepted" /\ timers[k].st # "freed"
           /\ timers' = [timers EXCEPT ![k].told = timers[k].sn]
        \/ /\ pc[p] = "accepted" /\ timers[k].st = "freed"
           /\ \E n \in Sns : timers' = [timers EXCEPT ![k].told = n]
        \/ /\ pc[p] = "refused"
           /\ timers' = [timers EXCEPT ![k].st = "freed"]
    /\ UNCHANGED <<sn, timerDict, cancelled, stop>>

\* A service cancels a timer by the number it was told (once, in the model).
timerCancel(p, k) ==
    /\ timers[k].told # NoSn /\ ~timers[k].asked
    /\ emPush(p, [type |-> "cancel", sn |-> timers[k].told, t |-> k])
    /\ timers' = [timers EXCEPT ![k].asked = TRUE]
    /\ UNCHANGED <<sn, timerDict, cancelled, stop>>

timerStop ==
    /\ stop = "no"
    /\ emPush(Main, [type |-> "stop"])
    /\ stop' = "posting"
    /\ UNCHANGED <<sn, timers, timerDict, cancelled>>

\* timerCancel and timerStop end; a refused event is freed and forgotten.
RequestReturns(p) ==
    /\ msg[p] # NoMessage /\ msg[p].type # "add"
    /\ Return(p)
    /\ stop' = IF msg[p].type = "cancel" \/ stop # "posting" THEN stop
               ELSE IF pc[p] = "accepted" THEN "posted" ELSE "lost"
    /\ UNCHANGED <<sn, timers, timerDict, cancelled>>

Pushing(p) ==
    /\ Publish(p) \/ Refuse(p) \/ PushCount(p) \/ ReadSize(p) \/ SendByte(p)
    /\ UNCHANGED timerVars

-----------------------------------------------------------------------------
(* The timer thread: emCallback and timeProc. *)

aeDeleteTimeEvent(k) ==
    timers' = IF k # NoTimer /\ timers[k].st = "armed"
              THEN [timers EXCEPT ![k].st = "freed"] ELSE timers

\* dictAdd leaves an entry that is there as it is; entries are never removed.
dictAdd(n, k) ==
    timerDict' = IF timerDict[n] = NoTimer THEN [timerDict EXCEPT ![n] = k]
                 ELSE timerDict

\* Deviation: the entry is made under the latest number given out.
CallbackAddLate ==
    /\ cur.type = "add"
    /\ timers' = [timers EXCEPT ![cur.t].st = "armed"]
    /\ dictAdd(sn, cur.t)
    /\ UNCHANGED <<cancelled, stop>>

CallbackAdd ==
    /\ cur.type = "add"
    /\ timers' = [timers EXCEPT ![cur.t].st = "armed"]
    /\ dictAdd(timers[cur.t].sn, cur.t)
    /\ UNCHANGED <<cancelled, stop>>

\* Deviation: the serial number is taken for the id of the time event.
CallbackCancelById ==
    /\ cur.type = "cancel"
    /\ aeDeleteTimeEvent(IF cur.sn \in Timers THEN cur.sn ELSE NoTimer)
    /\ cancelled' = cancelled \cup {cur.t}
    /\ UNCHANGED <<timerDict, stop>>

CallbackCancel ==
    /\ cur.type = "cancel"
    /\ aeDeleteTimeEvent(timerDict[cur.sn])
    /\ cancelled' = cancelled \cup {cur.t}
    /\ UNCHANGED <<timerDict, stop>>

\* Deviation: the flag of the loop is not set.
CallbackStopIgnored ==
    /\ cur.type = "stop"
    /\ UNCHANGED <<timers, timerDict, cancelled, stop>>

CallbackStop ==
    /\ cur.type = "stop"
    /\ stop' = "seen"
    /\ UNCHANGED <<timers, timerDict, cancelled>>

emCallback ==
    /\ Callback
    /\ CallbackAdd \/ CallbackCancel \/ CallbackStop
    /\ UNCHANGED sn

(* A timer is due.  A repeating one whose message could be sent is armed   *)
(* again, any other is done.                                               *)
timeProc(k) ==
    /\ loop = "timers"
    /\ timers[k].st = "armed"
    /\ aeDeleteTimeEvent(k) \/ UNCHANGED timers
    /\ UNCHANGED <<emVars, sn, timerDict, cancelled, stop>>

Polling ==
    /\ Poll \/ Pop \/ PopEmpty \/ PopCount
    /\ UNCHANGED timerVars

WakeForTimer ==
    /\ \E k \in Timers : timers[k].st = "armed"
    /\ PollTimeout
    /\ UNCHANGED timerVars

\* aeMain tests its flag between two rounds.
aeMain == EndRound(stop = "seen") /\ UNCHANGED timerVars

Next ==
    \/ \E p \in Producers \ {Main}, k \in Timers :
        timerTimeout(p, k) \/ timerCancel(p, k)
    \/ \E p \in Producers :
        \/ TimeoutReturns(p) \/ RequestReturns(p) \/ Pushing(p)
    \/ \E k \in Timers : timerTimeoutNow(k)
    \/ timerStop
    \/ emCallback
    \/ \E k \in Timers : timeProc(k)
    \/ Polling \/ WakeForTimer \/ aeMain

(* Threads inside a call go on, and so does the loop: it takes a message   *)
(* that woke it, ends its rounds, and does not wait for a timer for ever.  *)
Fairness ==
    /\ \A p \in Producers :
        WF_vars(Pushing(p) \/ TimeoutReturns(p) \/ RequestReturns(p))
    /\ WF_vars(Polling \/ emCallback)
    /\ WF_vars(aeMain)

Spec == Init /\ [][Next]_vars /\ Fairness

-----------------------------------------------------------------------------
(* Properties *)

(* The number its caller was told is not the timer's (read after the event *)
(* was freed, or 0 for a timer that never was one), or it was issued to    *)
(* another timer too.                                                      *)
Misnamed(k) ==
    \/ timers[k].told # timers[k].sn
    \/ \E j \in Timers \ {k} : timers[j].sn = timers[k].sn

(* timerCancel stops what it names: once its cancel was handled a timer is *)
(* neither armed nor still to be armed, so it never fires again - unless   *)
(* its number was misread or came round.                                   *)
CancelStops == \A k \in cancelled : timers[k].st = "freed" \/ Misnamed(k)

(* A cancel, which carries nothing but a number, never ends a timer other  *)
(* than the one it was sent for, with the same two exceptions.             *)
CancelHitsOwn ==
    [][\A k \in Timers :
        loop = "callback" /\ timers[k].st = "armed" /\ timers'[k].st = "freed"
          => cur.t = k \/ Misnamed(cur.t)]_vars

(* After timerStop the timer thread leaves aeMain, so that timerJoin       *)
(* returns - unless the queue refused the request (which only prints a     *)
(* line) or two producers raced for the wake-up byte.                      *)
StopEnds == stop = "posted" ~> loop = "ended" \/ raced

(* Every timer that the queue accepted gets armed, with the same exception *)
(* for the race, and for a loop that ended before.                         *)
AddHandled ==
    \A k \in Timers :
        timers[k].st = "posting" ~>
            timers[k].st \in {"armed", "freed"} \/ raced \/ loop = "ended"
==============================================================================
