------------------------------ MODULE PtpThread ------------------------------
(***************************************************************************)
(* The main loop of the PTP thread (ptpd-2.0.0/src/ptpd.c) with the two    *)
(* threads that give it work: the TCP/IP thread, whose UDP callbacks queue *)
(* messages and alert (dep/net.c), and the timer thread, whose callback    *)
(* sets an expired flag and alerts (dep/timer.c).  Both queues are those   *)
(* of NetQueue, whose operations are atomic here; the mailbox of alerts    *)
(* counts, as every alert is the same NULL.                                *)
(*                                                                         *)
(* What the port does with a message or a timer is the business of         *)
(* PtpPort; here it is only when it looks for them, and that initClock may *)
(* empty the event queue on the way.                                       *)
(***************************************************************************)
EXTENDS Integers, FiniteSets

CONSTANTS
    EventMessages,     \* Sync, Delay_Req, Pdelay_Req, Pdelay_Resp: port 319
    GeneralMessages,   \* all others: port 320
    BadMessages,       \* those that are empty or longer than PACKET_SIZE
    QueueLimit,        \* PBUF_QUEUE_SIZE - 1
    MailboxSize        \* the alerts that ptp_alert_queue holds

Messages == EventMessages \cup GeneralMessages

ASSUME ThreadAssumption ==
    /\ EventMessages \cap GeneralMessages = {}
    /\ BadMessages \subseteq Messages
    /\ QueueLimit \in Nat \ {0} /\ MailboxSize \in Nat \ {0}

VARIABLES
    pc,         \* where the PTP thread is in its loop
    waiting,    \* the messages of both queues
    before,     \* which of them has arrived before which
    selected,   \* handle() receives because netSelect has found a message
    alerts,     \* the messages in ptp_alert_queue
    expired,    \* a timer that doState looks at has its expired flag set
    armed,      \* such a timer runs
    udp,        \* the TCP/IP thread: "idle" or about to "alert"
    timer       \* the timer thread: likewise

queued == <<waiting, before>>
threadVars == <<pc, queued, selected, alerts, expired, armed, udp, timer>>

eventQ   == waiting \cap EventMessages
generalQ == waiting \cap GeneralMessages

QueueOf(m) == IF m \in EventMessages THEN eventQ ELSE generalQ

\* m is the message of q that has waited longest.
IsHead(m, q) == m \in q /\ \A n \in q : <<n, m>> \notin before

Keep(rest) == waiting' = rest /\ before' = before \cap (rest \X rest)

\* An alert that finds the mailbox full is dropped.
ptpd_alert == alerts' = IF alerts < MailboxSize THEN alerts + 1 ELSE alerts

-----------------------------------------------------------------------------
(* The TCP/IP thread and the timer thread.                                 *)

\* netRecvEventCallback, netRecvGeneralCallback: the message is queued, then the
\* thread alerted.  One that finds its queue full is freed, without an alert.
netRecvCallback(m) ==
    /\ udp = "idle"
    /\ m \notin waiting
    /\ Cardinality(QueueOf(m)) < QueueLimit
    /\ waiting' = waiting \cup {m}
    /\ before' = before \cup (waiting \X {m})
    /\ udp' = "alert"
    /\ UNCHANGED <<pc, selected, alerts, expired, armed, timer>>

netAlert ==
    /\ udp = "alert"
    /\ ptpd_alert
    /\ udp' = "idle"
    /\ UNCHANGED <<pc, queued, selected, expired, armed, timer>>

timerCallback ==
    /\ timer = "idle"
    /\ armed
    /\ armed' = FALSE
    /\ expired' = TRUE
    /\ timer' = "alert"
    /\ UNCHANGED <<pc, queued, selected, alerts, udp>>

timerAlert ==
    /\ timer = "alert"
    /\ ptpd_alert
    /\ timer' = "idle"
    /\ UNCHANGED <<pc, queued, selected, expired, armed, udp>>

-----------------------------------------------------------------------------
(* The PTP thread.                                                         *)

\* netEmptyEventQ, when initClock is called on the way.
MayEmpty(q) == Keep(q) \/ Keep(q \ EventMessages)

\* doState calls handle().  Had it to change the port state before, toState has
\* set messageActivity, so handle() does not select but receives at once, and
\* may have called initClock.
CallHandle ==
    /\ selected' = FALSE
    /\ \/ pc' = "handle" /\ UNCHANGED queued
       \/ pc' = "event"  /\ MayEmpty(waiting)

\* doState finds its timer expired and restarts it or another.  A waiting port
\* is done then, a master goes on to handle().
ServeTimer ==
    /\ pc = "doState"
    /\ expired
    /\ expired' = FALSE
    /\ armed' = TRUE
    /\ \/ pc' = "select" /\ MayEmpty(waiting) /\ UNCHANGED selected
       \/ CallHandle
    /\ UNCHANGED <<alerts, udp, timer>>

NoTimer ==
    /\ pc = "doState"
    /\ ~expired
    /\ CallHandle
    /\ UNCHANGED <<alerts, expired, armed, udp, timer>>

\* netSelect of handle(): the event queue first, then the general queue.
\* Defects: it does not look; it serves the general queue first.
HandleAtOnce ==
    /\ pc = "handle"
    /\ pc' = "event"
    /\ selected' = TRUE
    /\ UNCHANGED <<queued, alerts, expired, armed, udp, timer>>

HandleGeneralFirst ==
    /\ pc = "handle"
    /\ pc' = IF generalQ # {} THEN "general" ELSE "event"
    /\ selected' = TRUE
    /\ UNCHANGED <<queued, alerts, expired, armed, udp, timer>>

HandleSelectEvent ==
    /\ pc = "handle"
    /\ pc' = IF eventQ # {} THEN "event" ELSE "handle2"
    /\ selected' = (eventQ # {})
    /\ UNCHANGED <<queued, alerts, expired, armed, udp, timer>>

HandleSelectGeneral ==
    /\ pc = "handle2"
    /\ pc' = IF generalQ # {} THEN "event" ELSE "select"
    /\ selected' = (generalQ # {})
    /\ UNCHANGED <<queued, alerts, expired, armed, udp, timer>>

\* The handlers of a message may start a timer or cause initClock.
Handled(m) ==
    /\ MayEmpty(waiting \ {m})
    /\ armed' \in {armed, TRUE}
    /\ pc' = "select"
    /\ UNCHANGED <<selected, alerts, expired, udp, timer>>

ReceiveEvent ==
    /\ pc = "event"
    /\ \E m \in eventQ \ BadMessages : IsHead(m, eventQ) /\ Handled(m)

\* netRecv frees a bad message and returns 0, as if the queue were empty.
DiscardEvent ==
    /\ pc = "event"
    /\ \E m \in eventQ \cap BadMessages : IsHead(m, eventQ) /\ Keep(waiting \ {m})
    /\ selected' = FALSE
    /\ pc' = "general"
    /\ UNCHANGED <<alerts, expired, armed, udp, timer>>

NoEvent ==
    /\ pc = "event"
    /\ eventQ = {}
    /\ pc' = "general"
    /\ UNCHANGED <<queued, selected, alerts, expired, armed, udp, timer>>

ReceiveGeneral ==
    /\ pc = "general"
    /\ \E m \in generalQ \ BadMessages : IsHead(m, generalQ) /\ Handled(m)

DiscardGeneral ==
    /\ pc = "general"
    /\ \E m \in generalQ \cap BadMessages : IsHead(m, generalQ) /\ Keep(waiting \ {m})
    /\ pc' = "select"
    /\ UNCHANGED <<selected, alerts, expired, armed, udp, timer>>

NoGeneral ==
    /\ pc = "general"
    /\ generalQ = {}
    /\ pc' = "select"
    /\ UNCHANGED <<queued, selected, alerts, expired, armed, udp, timer>>

\* netSelect of the loop.
LoopSelectEvent ==
    /\ pc = "select"
    /\ pc' = IF eventQ # {} THEN "doState" ELSE "select2"
    /\ UNCHANGED <<queued, selected, alerts, expired, armed, udp, timer>>

\* Defect: the loop does not look at the general queue.
LoopSelectNothing ==
    /\ pc = "select2"
    /\ pc' = "fetch"
    /\ UNCHANGED <<queued, selected, alerts, expired, armed, udp, timer>>

LoopSelectGeneral ==
    /\ pc = "select2"
    /\ pc' = IF generalQ # {} THEN "doState" ELSE "fetch"
    /\ UNCHANGED <<queued, selected, alerts, expired, armed, udp, timer>>

\* The thread sleeps until there is an alert, at most for 100 ms.
FetchAlert ==
    /\ pc = "fetch"
    /\ alerts > 0
    /\ alerts' = alerts - 1
    /\ pc' = "doState"
    /\ UNCHANGED <<queued, selected, expired, armed, udp, timer>>

FetchTimeout ==
    /\ pc = "fetch"
    /\ alerts = 0
    /\ pc' = "doState"
    /\ UNCHANGED <<queued, selected, alerts, expired, armed, udp, timer>>

-----------------------------------------------------------------------------

\* The port has just been initialized: netInit has bound the callbacks and
\* toState(PTP_LISTENING) has started a timer.
ThreadInit ==
    /\ pc = "select"
    /\ waiting = {} /\ before = {}
    /\ selected = FALSE
    /\ alerts = 0
    /\ expired = FALSE
    /\ armed = TRUE
    /\ udp = "idle"
    /\ timer = "idle"

DoState == ServeTimer \/ NoTimer

Handle == \/ HandleSelectEvent \/ HandleSelectGeneral
          \/ ReceiveEvent \/ DiscardEvent \/ NoEvent
          \/ ReceiveGeneral \/ DiscardGeneral \/ NoGeneral

Loop == LoopSelectEvent \/ LoopSelectGeneral \/ FetchAlert

ThreadNext ==
    \/ \E m \in Messages : netRecvCallback(m)
    \/ netAlert \/ timerCallback \/ timerAlert
    \/ DoState \/ Handle \/ Loop \/ FetchTimeout

ThreadSpec == ThreadInit /\ [][ThreadNext]_threadVars

\* Callbacks return and the PTP thread runs.  Nothing is assumed of the 100 ms.
ThreadFairness ==
    /\ WF_threadVars(netAlert) /\ WF_threadVars(timerAlert)
    /\ WF_threadVars(DoState \/ Handle \/ Loop)

ThreadFairSpec == ThreadSpec /\ ThreadFairness

-----------------------------------------------------------------------------
(* Properties.                                                             *)

\* Every variable has its type.
ThreadTypeOK ==
    /\ pc \in {"doState", "handle", "handle2", "event", "general",
               "select", "select2", "fetch"}
    /\ waiting \subseteq Messages /\ before \subseteq waiting \X waiting
    /\ Cardinality(eventQ) <= QueueLimit /\ Cardinality(generalQ) <= QueueLimit
    /\ alerts \in 0..MailboxSize
    /\ selected \in BOOLEAN /\ expired \in BOOLEAN /\ armed \in BOOLEAN
    /\ udp \in {"idle", "alert"} /\ timer \in {"idle", "alert"}

\* The thread never sleeps over work: when it waits for an alert while a
\* message is queued or a timer has expired, the alert is there or on its way,
\* even when alerts were dropped for want of room (ptpd.c:58-83).
NoLostWakeup ==
    pc = "fetch" /\ (waiting # {} \/ expired) =>
        alerts > 0 \/ udp = "alert" \/ timer = "alert"

\* When handle() has selected, it takes a general message only when it is the
\* one that has waited longest: a Follow_Up does not overtake the Sync that was
\* received before it, although the two queues are looked at one after the
\* other.  It may when a call that has just changed the port state does not
\* select, or has thrown away a bad event message (protocol.c:458-492).
EventsFirst ==
    pc = "general" /\ selected =>
        /\ generalQ # {}
        /\ \A m \in generalQ : IsHead(m, generalQ) => IsHead(m, waiting)

\* The timers take seconds: as long as the loop goes round, not every single
\* call of doState finds one expired and is done with that.
TimersAreSlow ==
    []<>(pc = "doState") => []<>(pc \in {"handle", "event"})

\* An event message is handled, whatever else arrives, even if the 100 ms were
\* endless: the alerts alone keep the loop going (net.c:132-165, ptpd.c:74).
EventsHandled ==
    TimersAreSlow => \A m \in EventMessages : m \in waiting ~> m \notin waiting
=============================================================================
