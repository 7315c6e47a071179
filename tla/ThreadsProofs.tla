---------------------------- MODULE ThreadsProofs ----------------------------
(***************************************************************************)
(* Proofs about MCThreads: about the main loop of the PTP thread, for all  *)
(* sets of messages, limits of the queues and sizes of the mailbox of      *)
(* alerts; about the Ethernet interface, the sending of frames and then    *)
(* their reception, for any number of threads, of descriptors and of slots *)
(* of the mailbox; and that the parts, side by side, keep what each of     *)
(* them promises.                                                          *)
(***************************************************************************)
EXTENDS MCThreads, NetQueueProofs

-----------------------------------------------------------------------------
(* The main loop: the inductive invariant.                                 *)

\* The alert that ends the next sleep is there or on its way.
Alerted == alerts > 0 \/ udp = "alert" \/ timer = "alert"

\* The type invariant in parts: places, sets, flags.
ThreadPlaces ==
    /\ pc \in {"doState", "handle", "handle2", "event", "general",
               "select", "select2", "fetch"}
    /\ alerts \in 0..MailboxSize
    /\ udp \in {"idle", "alert"} /\ timer \in {"idle", "alert"}

ThreadQueues ==
    /\ IsFiniteSet(waiting)
    /\ waiting \subseteq Messages
    /\ before \subseteq waiting \X waiting

ThreadLimits ==
    Cardinality(eventQ) <= QueueLimit /\ Cardinality(generalQ) <= QueueLimit

ThreadFlags == selected \in BOOLEAN /\ expired \in BOOLEAN /\ armed \in BOOLEAN

\* A message that came after its queue was looked at, and a timer that expired
\* after doState, have left an alert.
LateWorkAlerts ==
    /\ pc \in {"select2", "fetch"} /\ eventQ # {} => Alerted
    /\ pc = "fetch" /\ generalQ # {} => Alerted
    /\ pc # "doState" /\ expired => Alerted

\* The message that netSelect has found is still there when netRecv looks.
SelectedWaits == pc = "event" /\ selected => waiting # {}

ThreadInv ==
    /\ ThreadPlaces /\ ThreadQueues /\ ThreadLimits /\ ThreadFlags
    /\ LateWorkAlerts
    /\ SelectedWaits
    /\ EventsFirst

-----------------------------------------------------------------------------
(* The type invariant.                                                     *)

LEMMA ThreadTypesInit ==
    ThreadInit => ThreadPlaces /\ ThreadQueues /\ ThreadLimits /\ ThreadFlags
<1> SUFFICES ASSUME ThreadInit
             PROVE  ThreadPlaces /\ ThreadQueues /\ ThreadLimits /\ ThreadFlags
  OBVIOUS
<1>1. ThreadPlaces
  BY ThreadAssumption DEF ThreadInit, ThreadPlaces
<1>2. ThreadQueues
  BY FS_EmptySet DEF ThreadInit, ThreadQueues
<1>3. eventQ = {} /\ generalQ = {}
  BY DEF ThreadInit, eventQ, generalQ
<1>4. Cardinality({}) = 0
  BY FS_EmptySet
<1>5. ThreadLimits
  BY <1>3, <1>4, ThreadAssumption DEF ThreadLimits
<1>6. ThreadFlags
  BY Zenon DEF ThreadInit, ThreadFlags
<1> QED
  BY <1>1, <1>2, <1>5, <1>6

LEMMA ThreadPlacesKept ==
    ThreadPlaces /\ [ThreadNext]_threadVars => ThreadPlaces'
<1> SUFFICES ASSUME ThreadPlaces, [ThreadNext]_threadVars
             PROVE  ThreadPlaces'
  OBVIOUS
<1> USE ThreadAssumption DEF ThreadPlaces, ptpd_alert
<1>1. CASE (\E m \in Messages : netRecvCallback(m)) \/ netAlert
  BY <1>1 DEF netRecvCallback, netAlert
<1>2. CASE timerCallback \/ timerAlert
  BY <1>2 DEF timerCallback, timerAlert
<1>3. CASE DoState
  BY <1>3 DEF DoState, ServeTimer, NoTimer, CallHandle
<1>4. CASE HandleSelectEvent \/ HandleSelectGeneral
  BY <1>4 DEF HandleSelectEvent, HandleSelectGeneral
<1>5. CASE ReceiveEvent \/ DiscardEvent \/ NoEvent
  BY <1>5 DEF ReceiveEvent, DiscardEvent, NoEvent, Handled
<1>6. CASE ReceiveGeneral \/ DiscardGeneral \/ NoGeneral
  BY <1>6 DEF ReceiveGeneral, DiscardGeneral, NoGeneral, Handled
<1>7. CASE Loop
  BY <1>7 DEF Loop, LoopSelectEvent, LoopSelectGeneral, FetchAlert
<1>8. CASE FetchTimeout
  BY <1>8 DEF FetchTimeout
<1>9. CASE UNCHANGED threadVars
  BY <1>9 DEF threadVars
<1> QED
  BY <1>1, <1>2, <1>3, <1>4, <1>5, <1>6, <1>7, <1>8, <1>9 DEF ThreadNext, Handle

LEMMA ThreadFlagsKept ==
    ThreadFlags /\ [ThreadNext]_threadVars => ThreadFlags'
<1> SUFFICES ASSUME ThreadFlags, [ThreadNext]_threadVars
             PROVE  ThreadFlags'
  OBVIOUS
<1> USE DEF ThreadFlags
<1>1. CASE (\E m \in Messages : netRecvCallback(m)) \/ netAlert
  BY <1>1, Zenon DEF netRecvCallback, netAlert
<1>2. CASE timerCallback \/ timerAlert
  BY <1>2, Zenon DEF timerCallback, timerAlert
<1>3. CASE DoState
  BY <1>3, Zenon DEF DoState, ServeTimer, NoTimer, CallHandle
<1>4. CASE HandleSelectEvent \/ HandleSelectGeneral
  BY <1>4, Zenon DEF HandleSelectEvent, HandleSelectGeneral
<1>5. CASE ReceiveEvent \/ DiscardEvent \/ NoEvent
  BY <1>5 DEF ReceiveEvent, DiscardEvent, NoEvent, Handled
<1>6. CASE ReceiveGeneral \/ DiscardGeneral \/ NoGeneral
  BY <1>6 DEF ReceiveGeneral, DiscardGeneral, NoGeneral, Handled
<1>7. CASE Loop
  BY <1>7, Zenon DEF Loop, LoopSelectEvent, LoopSelectGeneral, FetchAlert
<1>8. CASE FetchTimeout
  BY <1>8, Zenon DEF FetchTimeout
<1>9. CASE UNCHANGED threadVars
  BY <1>9, Zenon DEF threadVars
<1> QED
  BY <1>1, <1>2, <1>3, <1>4, <1>5, <1>6, <1>7, <1>8, <1>9 DEF ThreadNext, Handle

\* Every step of the PTP thread keeps what waits, or a part of it.
LEMMA ThreadOnlyTakes ==
    DoState \/ Handle \/ Loop \/ FetchTimeout =>
        \/ UNCHANGED queued
        \/ \E rest \in SUBSET waiting : Keep(rest)
<1>1. ASSUME NEW q \in SUBSET waiting, MayEmpty(q)
      PROVE  \E rest \in SUBSET waiting : Keep(rest)
  BY <1>1 DEF MayEmpty
<1>2. ASSUME NEW m, Keep(waiting \ {m})
      PROVE  \E rest \in SUBSET waiting : Keep(rest)
  BY <1>2
<1>3. CASE DoState
  <2>1. UNCHANGED queued \/ MayEmpty(waiting)
    BY <1>3 DEF DoState, ServeTimer, NoTimer, CallHandle
  <2> QED
    BY <2>1, <1>1
<1>4. CASE ReceiveEvent \/ ReceiveGeneral
  <2>1. PICK m : MayEmpty(waiting \ {m})
    BY <1>4 DEF ReceiveEvent, ReceiveGeneral, Handled
  <2> QED
    BY <2>1, <1>1
<1>5. CASE DiscardEvent \/ DiscardGeneral
  BY <1>5, <1>2 DEF DiscardEvent, DiscardGeneral
<1>6. CASE HandleSelectEvent \/ HandleSelectGeneral \/ NoEvent \/ NoGeneral
  BY <1>6, Zenon DEF HandleSelectEvent, HandleSelectGeneral, NoEvent, NoGeneral
<1>7. CASE Loop \/ FetchTimeout
  BY <1>7, Zenon DEF Loop, LoopSelectEvent, LoopSelectGeneral, FetchAlert, FetchTimeout
<1> QED
  BY <1>3, <1>4, <1>5, <1>6, <1>7 DEF Handle

LEMMA ThreadQueuesKept ==
    ThreadQueues /\ ThreadLimits /\ [ThreadNext]_threadVars =>
        ThreadQueues' /\ ThreadLimits'
<1> SUFFICES ASSUME ThreadQueues, ThreadLimits, [ThreadNext]_threadVars
             PROVE  ThreadQueues' /\ ThreadLimits'
  OBVIOUS
<1>0. /\ IsFiniteSet(eventQ) /\ IsFiniteSet(generalQ)
      /\ eventQ \subseteq waiting /\ generalQ \subseteq waiting
  BY FS_Subset DEF ThreadQueues, eventQ, generalQ
<1>1. ASSUME NEW m \in Messages, netRecvCallback(m)
      PROVE  ThreadQueues' /\ ThreadLimits'
  <2>1. /\ waiting' = waiting \cup {m}
        /\ before' = before \cup (waiting \X {m})
        /\ Cardinality(QueueOf(m)) < QueueLimit
        /\ m \notin waiting
    BY <1>1 DEF netRecvCallback
  <2>2. IsFiniteSet(waiting')
    BY <2>1, FS_AddElement DEF ThreadQueues
  <2>3. ThreadQueues'
    BY <2>1, <2>2 DEF ThreadQueues
  <2>4. ASSUME NEW q, IsFiniteSet(q), m \notin q, Cardinality(q) < QueueLimit
        PROVE  Cardinality(q \cup {m}) <= QueueLimit
    <3>1. Cardinality(q \cup {m}) = Cardinality(q) + 1
      BY <2>4, FS_AddElement
    <3>2. Cardinality(q) \in Nat
      BY <2>4, FS_CardinalityType
    <3> QED
      BY <3>1, <3>2, <2>4, ThreadAssumption
  <2>5. CASE m \in EventMessages
    <3>1. m \notin GeneralMessages
      BY <2>5, ThreadAssumption
    <3>2. eventQ' = eventQ \cup {m} /\ generalQ' = generalQ /\ QueueOf(m) = eventQ
      BY <2>1, <2>5, <3>1 DEF eventQ, generalQ, QueueOf
    <3>3. Cardinality(eventQ \cup {m}) <= QueueLimit
      BY <2>1, <2>4, <1>0, <3>2
    <3> QED
      BY <2>3, <3>2, <3>3 DEF ThreadLimits
  <2>6. CASE m \notin EventMessages
    <3>1. m \in GeneralMessages
      BY <2>6 DEF Messages
    <3>2. generalQ' = generalQ \cup {m} /\ eventQ' = eventQ /\ QueueOf(m) = generalQ
      BY <2>1, <2>6, <3>1 DEF eventQ, generalQ, QueueOf
    <3>3. Cardinality(generalQ \cup {m}) <= QueueLimit
      BY <2>1, <2>4, <1>0, <3>2
    <3> QED
      BY <2>3, <3>2, <3>3 DEF ThreadLimits
  <2> QED
    BY <2>5, <2>6
<1>2. ASSUME NEW rest \in SUBSET waiting, Keep(rest)
      PROVE  ThreadQueues' /\ ThreadLimits'
  <2>1. IsFiniteSet(rest)
    BY FS_Subset DEF ThreadQueues
  <2>2. ThreadQueues'
    BY <1>2, <2>1 DEF Keep, ThreadQueues
  <2>3. eventQ' \in SUBSET eventQ /\ generalQ' \in SUBSET generalQ
    BY <1>2 DEF Keep, eventQ, generalQ
  <2>4. ASSUME NEW q, NEW r \in SUBSET q, IsFiniteSet(q), Cardinality(q) <= QueueLimit
        PROVE  Cardinality(r) <= QueueLimit
    <3>1. IsFiniteSet(r) /\ Cardinality(r) <= Cardinality(q)
      BY <2>4, FS_Subset
    <3>2. Cardinality(r) \in Nat /\ Cardinality(q) \in Nat
      BY <2>4, <3>1, FS_CardinalityType
    <3> QED
      BY <2>4, <3>1, <3>2, ThreadAssumption
  <2>5. Cardinality(eventQ') <= QueueLimit
    BY <2>3, <2>4, <1>0 DEF ThreadLimits
  <2>6. Cardinality(generalQ') <= QueueLimit
    BY <2>3, <2>4, <1>0 DEF ThreadLimits
  <2> QED
    BY <2>2, <2>5, <2>6 DEF ThreadLimits
<1>3. CASE UNCHANGED queued
  BY <1>3 DEF queued, ThreadQueues, ThreadLimits, eventQ, generalQ
<1>4. CASE netAlert \/ timerCallback \/ timerAlert \/ UNCHANGED threadVars
  BY <1>4, <1>3, Zenon DEF netAlert, timerCallback, timerAlert, threadVars
<1>5. CASE DoState \/ Handle \/ Loop \/ FetchTimeout
  BY <1>5, <1>2, <1>3, ThreadOnlyTakes
<1> QED
  BY <1>1, <1>4, <1>5 DEF ThreadNext

-----------------------------------------------------------------------------
(* No work without an alert.                                               *)

\* An alert is not lost before the thread wakes, not even for want of room.
LEMMA AlertsRemain ==
    ThreadPlaces /\ Alerted /\ [ThreadNext]_threadVars => Alerted' \/ pc' = "doState"
<1> SUFFICES ASSUME ThreadPlaces, Alerted, [ThreadNext]_threadVars
             PROVE  Alerted' \/ pc' = "doState"
  OBVIOUS
<1> USE ThreadAssumption DEF ThreadPlaces, Alerted
<1>1. CASE netAlert \/ timerAlert
  BY <1>1 DEF netAlert, timerAlert, ptpd_alert
<1>2. CASE (\E m \in Messages : netRecvCallback(m)) \/ timerCallback
  BY <1>2 DEF netRecvCallback, timerCallback
<1>3. CASE UNCHANGED <<alerts, udp, timer>>
  BY <1>3
<1>4. CASE DoState \/ UNCHANGED threadVars
  BY <1>4, <1>3, Zenon DEF DoState, ServeTimer, NoTimer, threadVars
<1>5. CASE Handle
  BY <1>5, <1>3 DEF Handle, HandleSelectEvent, HandleSelectGeneral, ReceiveEvent,
     DiscardEvent, NoEvent, ReceiveGeneral, DiscardGeneral, NoGeneral, Handled
<1>6. CASE LoopSelectEvent \/ LoopSelectGeneral
  BY <1>6, <1>3, Zenon DEF LoopSelectEvent, LoopSelectGeneral
<1>7. CASE FetchAlert \/ FetchTimeout
  BY <1>7 DEF FetchAlert, FetchTimeout
<1> QED
  BY <1>1, <1>2, <1>4, <1>5, <1>6, <1>7 DEF ThreadNext, Loop

\* What comes after the loop has looked for it leaves an alert.
LEMMA LateWorkAlertsKept ==
    ThreadPlaces /\ LateWorkAlerts /\ [ThreadNext]_threadVars => LateWorkAlerts'
<1> SUFFICES ASSUME ThreadPlaces, LateWorkAlerts, [ThreadNext]_threadVars
             PROVE  LateWorkAlerts'
  OBVIOUS
<1>1. CASE Alerted
  BY <1>1, AlertsRemain DEF LateWorkAlerts
<1>2. CASE (\E m \in Messages : netRecvCallback(m)) \/ timerCallback
  <2> Alerted'
    BY <1>2 DEF netRecvCallback, timerCallback, Alerted
  <2> QED
    BY DEF LateWorkAlerts
<1>3. CASE ~Alerted /\ (netAlert \/ timerAlert)
  BY <1>3 DEF Alerted, netAlert, timerAlert
<1>4. ASSUME ~expired', pc' \notin {"select2", "fetch"}
      PROVE  LateWorkAlerts'
  BY <1>4 DEF LateWorkAlerts
<1>5. CASE ~Alerted /\ DoState
  <2>1. ~expired'
    BY <1>5, Zenon DEF DoState, ServeTimer, NoTimer
  <2>2. pc' \in {"select", "handle", "event"}
    BY <1>5 DEF DoState, ServeTimer, NoTimer, CallHandle
  <2> QED
    BY <2>1, <2>2, <1>4
<1>6. ASSUME ~Alerted, Handle
      PROVE  LateWorkAlerts'
  <2>1. /\ pc # "doState" /\ UNCHANGED expired
        /\ pc' \in {"select", "handle2", "event", "general"}
    BY <1>6 DEF Handle, HandleSelectEvent, HandleSelectGeneral, ReceiveEvent,
       DiscardEvent, NoEvent, ReceiveGeneral, DiscardGeneral, NoGeneral, Handled
  <2>2. ~expired'
    BY <2>1, <1>6, Zenon DEF LateWorkAlerts
  <2> QED
    BY <2>1, <2>2, <1>4
<1>7. CASE ~Alerted /\ (LoopSelectEvent \/ LoopSelectGeneral)
  BY <1>7 DEF LateWorkAlerts, LoopSelectEvent, LoopSelectGeneral, queued, eventQ, generalQ
<1>8. CASE FetchAlert \/ FetchTimeout
  BY <1>8 DEF LateWorkAlerts, FetchAlert, FetchTimeout
<1>9. CASE UNCHANGED threadVars
  BY <1>9 DEF LateWorkAlerts, Alerted, threadVars, queued, eventQ, generalQ
<1> QED
  BY <1>1, <1>2, <1>3, <1>5, <1>6, <1>7, <1>8, <1>9 DEF ThreadNext, Loop

-----------------------------------------------------------------------------
(* The order of the messages of both queues.                               *)

\* A message that arrives takes the place of no head.
LEMMA HeadsRemain ==
    ASSUME ThreadQueues, EventsFirst, NEW m \in Messages, netRecvCallback(m)
    PROVE  EventsFirst'
<1>1. /\ waiting' = waiting \cup {m}
      /\ before' = before \cup (waiting \X {m})
      /\ m \notin waiting
      /\ UNCHANGED <<pc, selected>>
  BY DEF netRecvCallback
<1> SUFFICES ASSUME pc = "general", selected
             PROVE  /\ generalQ' # {}
                    /\ \A g \in generalQ' : IsHead(g, generalQ)' => IsHead(g, waiting)'
  BY <1>1 DEF EventsFirst
<1>2. /\ generalQ # {}
      /\ \A g \in generalQ : IsHead(g, generalQ) => IsHead(g, waiting)
  BY DEF EventsFirst
<1>3. generalQ \subseteq generalQ' /\ generalQ' \subseteq generalQ \cup {m}
  BY <1>1 DEF generalQ
<1>4. ASSUME NEW g \in generalQ', IsHead(g, generalQ)'
      PROVE  IsHead(g, waiting)'
  <2>1. \A n \in generalQ' : <<n, g>> \notin before'
    BY <1>4 DEF IsHead
  <2>2. g # m
    <3>1. PICK n \in generalQ : TRUE
      BY <1>2
    <3>2. n \in waiting
      BY <3>1 DEF generalQ
    <3>3. <<n, m>> \in before'
      BY <1>1, <3>2
    <3> QED
      BY <2>1, <1>3, <3>1, <3>3
  <2>3. g \in generalQ
    BY <1>3, <2>2
  <2>4. IsHead(g, generalQ)
    BY <1>1, <1>3, <2>1, <2>3 DEF IsHead
  <2>5. IsHead(g, waiting)
    BY <1>2, <2>3, <2>4
  <2>6. \A n \in waiting' : <<n, g>> \notin before'
    BY <1>1, <2>2, <2>5 DEF IsHead, ThreadQueues
  <2> QED
    BY <1>1, <2>5, <2>6 DEF IsHead
<1> QED
  BY <1>2, <1>3, <1>4

\* What netSelect has found stays, and no general message overtakes an earlier
\* event message but in the cases excepted.
LEMMA ThreadOrderKept ==
    /\ ThreadPlaces /\ ThreadQueues /\ SelectedWaits /\ EventsFirst
    /\ [ThreadNext]_threadVars
    => SelectedWaits' /\ EventsFirst'
<1> SUFFICES ASSUME ThreadPlaces, ThreadQueues, SelectedWaits, EventsFirst,
                    [ThreadNext]_threadVars
             PROVE  SelectedWaits' /\ EventsFirst'
  OBVIOUS
<1>1. ASSUME NEW m \in Messages, netRecvCallback(m)
      PROVE  SelectedWaits' /\ EventsFirst'
  <2>1. SelectedWaits'
    BY <1>1 DEF netRecvCallback, SelectedWaits
  <2> QED
    BY <1>1, <2>1, HeadsRemain
<1>2. CASE UNCHANGED <<pc, queued, selected>>
  BY <1>2 DEF SelectedWaits, EventsFirst, IsHead, queued, generalQ
<1>3. CASE netAlert \/ timerCallback \/ timerAlert \/ UNCHANGED threadVars
  BY <1>3, <1>2, Zenon DEF netAlert, timerCallback, timerAlert, threadVars
<1>4. CASE pc' \notin {"event", "general"} \/ ~selected'
  BY <1>4 DEF SelectedWaits, EventsFirst
<1>5. CASE DoState
  BY <1>5, <1>4 DEF DoState, ServeTimer, NoTimer, CallHandle
<1>6. CASE HandleSelectEvent \/ HandleSelectGeneral
  BY <1>6 DEF HandleSelectEvent, HandleSelectGeneral, SelectedWaits, EventsFirst,
     queued, eventQ, generalQ
<1>7. CASE ReceiveEvent \/ DiscardEvent
  BY <1>7, <1>4 DEF ReceiveEvent, DiscardEvent, Handled
<1>8. CASE NoEvent
  <2>1. /\ pc = "event" /\ pc' = "general" /\ eventQ = {}
        /\ UNCHANGED <<waiting, before, selected>>
    BY <1>8 DEF NoEvent, queued
  <2>2. waiting = generalQ
    BY <2>1 DEF ThreadQueues, Messages, eventQ, generalQ
  <2>3. generalQ' = generalQ
    BY <2>1 DEF generalQ
  <2> QED
    BY <2>1, <2>2, <2>3 DEF SelectedWaits, EventsFirst, IsHead
<1>9. CASE ReceiveGeneral \/ DiscardGeneral \/ NoGeneral
  BY <1>9, <1>4 DEF ReceiveGeneral, DiscardGeneral, NoGeneral, Handled
<1>10. CASE Loop \/ FetchTimeout
  BY <1>10, <1>4 DEF Loop, LoopSelectEvent, LoopSelectGeneral, FetchAlert, FetchTimeout
<1> QED
  BY <1>1, <1>3, <1>5, <1>6, <1>7, <1>8, <1>9, <1>10 DEF ThreadNext, Handle

-----------------------------------------------------------------------------
(* The theorems.                                                           *)

\* The invariant of the main loop (ptpd.c:58-75) holds in every reachable state.
THEOREM ThreadInvariance == ThreadSpec => []ThreadInv
<1>1. ThreadInit => ThreadInv
  <2>1. ThreadInit => LateWorkAlerts /\ SelectedWaits /\ EventsFirst
    BY DEF ThreadInit, LateWorkAlerts, SelectedWaits, EventsFirst
  <2> QED
    BY <2>1, ThreadTypesInit DEF ThreadInv
<1>2. ThreadInv /\ [ThreadNext]_threadVars => ThreadInv'
  BY ThreadPlacesKept, ThreadQueuesKept, ThreadFlagsKept, LateWorkAlertsKept,
     ThreadOrderKept DEF ThreadInv
<1> QED
  BY <1>1, <1>2, PTL DEF ThreadSpec

\* Every variable keeps its type: no queue grows beyond its limit, nor the
\* mailbox of alerts.
THEOREM ThreadTypeCorrect == ThreadSpec => []ThreadTypeOK
<1>1. ThreadInv => ThreadTypeOK
  BY Zenon DEF ThreadInv, ThreadTypeOK, ThreadPlaces, ThreadQueues, ThreadLimits, ThreadFlags
<1> QED
  BY <1>1, ThreadInvariance, PTL

\* The thread never sleeps over a message or a timer without an alert
\* (ptpd.c:58-83), however many alerts were dropped.
THEOREM WakeupIsKept == ThreadSpec => []NoLostWakeup
<1>1. ThreadInv => NoLostWakeup
  <2>1. ThreadQueues => waiting = eventQ \cup generalQ
    BY DEF ThreadQueues, Messages, eventQ, generalQ
  <2> QED
    BY <2>1, Zenon DEF ThreadInv, LateWorkAlerts, Alerted, NoLostWakeup
<1> QED
  BY <1>1, ThreadInvariance, PTL

\* A general message is not taken before an event message that has waited
\* longer (protocol.c:458-492).
THEOREM EventsComeFirst == ThreadSpec => []EventsFirst
<1>1. ThreadInv => EventsFirst
  BY DEF ThreadInv
<1> QED
  BY <1>1, ThreadInvariance, PTL

-----------------------------------------------------------------------------
(* Sending frames: the inductive invariant.                                *)

\* The semaphore is a lock until a wait for it times out.
TxLock ==
    ~timedOut =>
        /\ txTokens \in {0, 1}
        /\ \A t \in TxThreads : Holds(t) => txTokens = 0
        /\ TxExclusive

Unused(d) == ~own[d] /\ ttss[d] = NoFrame

\* The places at which a frame is with the DMA or has just come back from it.
Handed == {"resume", "stamp"}
Back   == {"clear", "advance"}

\* No frame is on its way: the DMA waits for the descriptor that is next.
Quiet ==
    /\ \A d \in Descriptors : Unused(d)
    /\ dmaAt = toSet

OthersFree == \A d \in Descriptors : d # toSet => Unused(d)

\* The DMA has yet to send the frame of t ...
Waits(t) ==
    /\ OthersFree
    /\ own[toSet] /\ ttss[toSet] = NoFrame /\ body[toSet] = t
    /\ dmaAt = toSet

\* ... or has sent it.
Sent(t) ==
    /\ OthersFree
    /\ ~own[toSet] /\ ttss[toSet] = t
    /\ dmaAt = Following(toSet)

\* The ring of descriptors holds one frame at a time.
RingOf(t) ==
    /\ txPc[t] = "copy" => txBuffer[t] = toSet
    /\ txPc[t] \in {"test", "handover"} => body[toSet] = t
    /\ txPc[t] \in Handed => Waits(t) \/ Sent(t)
    /\ txPc[t] \in Back => Sent(t)
    /\ txPc[t] = "advance" => ~txStatus[t]
    /\ txStamp[t] \in {NoFrame, t}

InFlight == Handed \cup Back

OneFrame ==
    /\ (\A t \in TxThreads : txPc[t] \notin InFlight) => Quiet
    /\ \A t \in TxThreads : RingOf(t)

TxOneFrame == ~timedOut /\ ~gaveUp => OneFrame

TxInv == EthTxTypeOK /\ TxLock /\ TxOneFrame

-----------------------------------------------------------------------------
(* Types.                                                                  *)

LEMMA FollowingIn == \A d \in Descriptors : Following(d) \in Descriptors
BY TxAssumption DEF Following, Descriptors

LEMMA TxTypesInit == EthTxInit => EthTxTypeOK
<1> SUFFICES ASSUME EthTxInit PROVE EthTxTypeOK
  OBVIOUS
<1>1. 0 \in Descriptors
  BY TxAssumption DEF Descriptors
<1>2. tbus \in BOOLEAN /\ timedOut \in BOOLEAN /\ gaveUp \in BOOLEAN
  BY Zenon DEF EthTxInit
<1>3. txStatus \in [TxThreads -> BOOLEAN] /\ own \in [Descriptors -> BOOLEAN]
  BY Zenon DEF EthTxInit
<1>4. /\ txPc \in [TxThreads -> Inside \cup {"idle", "wait"}] /\ txTokens \in Nat
      /\ txBuffer \in [TxThreads -> Descriptors] /\ txStamp \in [TxThreads -> Frames]
  BY <1>1 DEF EthTxInit, Frames
<1>5. /\ toSet \in Descriptors /\ dmaAt \in Descriptors
      /\ body \in [Descriptors -> Frames] /\ ttss \in [Descriptors -> Frames]
  BY <1>1 DEF EthTxInit, Frames
<1> QED
  BY <1>2, <1>3, <1>4, <1>5 DEF EthTxTypeOK

\* Whatever a sender returns with has its type.
LEMMA TxReturnTypes ==
    ASSUME EthTxTypeOK, NEW t \in TxThreads, TxReturn(t)
    PROVE  /\ body' \in [Descriptors -> Frames] /\ ttss' \in [Descriptors -> Frames]
           /\ txStamp' \in [TxThreads -> Frames]
           /\ txBuffer' \in [TxThreads -> Descriptors]
           /\ txStatus' \in [TxThreads -> BOOLEAN]
<1>1. 0 \in Descriptors
  BY TxAssumption DEF Descriptors
<1>2. txBuffer' \in [TxThreads -> Descriptors]
  BY <1>1 DEF TxReturn, EthTxTypeOK
<1>3. txStatus' \in [TxThreads -> BOOLEAN]
  BY DEF TxReturn, EthTxTypeOK
<1> QED
  BY <1>2, <1>3 DEF TxReturn, Aged, EthTxTypeOK, Frames

LEMMA TxTypes == EthTxTypeOK /\ [EthTxNext]_txVars => EthTxTypeOK'
<1> SUFFICES ASSUME EthTxTypeOK, [EthTxNext]_txVars PROVE EthTxTypeOK'
  OBVIOUS
<1> USE FollowingIn DEF EthTxTypeOK, TxAt, TxGo, Inside, txCpu, txRing, txDma, txHistory
<1>1. ASSUME NEW t \in TxThreads, TxCall(t) PROVE EthTxTypeOK'
  BY <1>1 DEF TxCall
<1>2. ASSUME NEW t \in TxThreads, TxTimeout(t) PROVE EthTxTypeOK'
  BY <1>2 DEF TxTimeout
<1>3. ASSUME NEW t \in TxThreads, TxPoint(t) \/ TxCopy(t) PROVE EthTxTypeOK'
  BY <1>3 DEF TxPoint, TxCopy, Frames
<1>4. ASSUME NEW t \in TxThreads,
             TxNoDescriptor(t) \/ TxDescriptor(t) \/ TxHandover(t) \/ TxResume(t)
      PROVE  EthTxTypeOK'
  <2>1. CASE TxNoDescriptor(t) \/ TxDescriptor(t)
    BY <2>1 DEF TxNoDescriptor, TxDescriptor
  <2>2. CASE TxHandover(t) \/ TxResume(t)
    BY <2>2 DEF TxHandover, TxResume
  <2> QED
    BY <1>4, <2>1, <2>2
<1>5. ASSUME NEW t \in TxThreads,
             TxStamped(t) \/ TxGiveUp(t) \/ TxReadStatus(t) \/ TxAdvance(t)
      PROVE  EthTxTypeOK'
  <2>1. CASE TxStamped(t)
    BY <2>1 DEF TxStamped, Frames
  <2>2. CASE TxGiveUp(t)
    BY <2>2 DEF TxGiveUp
  <2>3. CASE TxReadStatus(t)
    BY <2>3 DEF TxReadStatus
  <2>4. CASE TxAdvance(t)
    <3>1. /\ txPc' \in [TxThreads -> Inside \cup {"idle", "wait"}]
          /\ toSet' \in Descriptors
      BY <2>4 DEF TxAdvance
    <3>2. txStatus[t] \in BOOLEAN
      OBVIOUS
    <3>3. own' \in [Descriptors -> BOOLEAN]
      BY <2>4, <3>2, Zenon DEF TxAdvance
    <3>4. ttss' \in [Descriptors -> Frames]
      BY <2>4 DEF TxAdvance, Frames
    <3>5. UNCHANGED <<txTokens, txBuffer, txStatus, txStamp, body, dmaAt, tbus,
                      timedOut, gaveUp>>
      BY <2>4 DEF TxAdvance
    <3> QED
      BY <3>1, <3>3, <3>4, <3>5
  <2> QED
    BY <1>5, <2>1, <2>2, <2>3, <2>4
<1>6. ASSUME NEW t \in TxThreads, TxSignal(t) PROVE EthTxTypeOK'
  BY <1>6, TxReturnTypes DEF TxSignal
<1>7. CASE DmaStep
  BY <1>7 DEF DmaStep, DmaSend, DmaSuspend, Frames
<1>8. CASE UNCHANGED txVars
  BY <1>8 DEF txVars
<1> QED
  BY <1>1, <1>2, <1>3, <1>4, <1>5, <1>6, <1>7, <1>8 DEF EthTxNext, TxStep

-----------------------------------------------------------------------------
(* The lock.                                                               *)

LEMMA TxLockInit == EthTxInit => TxLock
BY DEF EthTxInit, TxLock, TxExclusive, Holds, Inside

\* A step within low_level_output neither takes nor gives a token.
LEMMA TxLockWithin ==
    ASSUME EthTxTypeOK, TxLock, NEW t \in TxThreads, NEW place \in Inside,
           Holds(t), TxGo(t, place), UNCHANGED <<txTokens, timedOut>>
    PROVE  TxLock'
BY DEF EthTxTypeOK, TxLock, TxExclusive, Holds, TxGo

LEMMA TxLockKept == EthTxTypeOK /\ TxLock /\ [EthTxNext]_txVars => TxLock'
<1> SUFFICES ASSUME EthTxTypeOK, TxLock, [EthTxNext]_txVars PROVE TxLock'
  OBVIOUS
<1> USE DEF txCpu, txRing, txDma, txHistory
<1>1. ASSUME NEW t \in TxThreads, TxCall(t) PROVE TxLock'
  BY <1>1 DEF TxCall, TxLock, TxExclusive, Holds, Inside, TxGo, TxAt, EthTxTypeOK
<1>2. ASSUME NEW t \in TxThreads, TxTimeout(t) PROVE TxLock'
  BY <1>2 DEF TxTimeout, TxLock
<1>3. ASSUME NEW t \in TxThreads,
             TxStep(t), ~TxTimeout(t), ~TxSignal(t)
      PROVE  TxLock'
  <2>1. Holds(t) /\ UNCHANGED <<txTokens, timedOut>> /\ \E place \in Inside : TxGo(t, place)
    BY <1>3 DEF TxStep, TxPoint, TxCopy, TxNoDescriptor, TxDescriptor, TxHandover, TxResume,
       TxStamped, TxGiveUp, TxReadStatus, TxAdvance, TxAt, Holds, Inside
  <2> QED
    BY <2>1, TxLockWithin
<1>4. ASSUME NEW t \in TxThreads, TxSignal(t) PROVE TxLock'
  <2>1. CASE TxGo(t, "idle") /\ txTokens' = txTokens + 1
    BY <1>4, <2>1 DEF TxSignal, TxLock, TxExclusive, Holds, Inside, TxGo, TxAt, EthTxTypeOK
  <2>2. CASE ~(TxGo(t, "idle") /\ txTokens' = txTokens + 1)
    <3>1. PICK w \in TxThreads :
              TxAt(w, "wait") /\ txPc' = [txPc EXCEPT ![t] = "idle", ![w] = "point"]
      BY <1>4, <2>2 DEF TxSignal
    <3>2. UNCHANGED <<txTokens, timedOut>> /\ TxAt(t, "signal")
      BY <1>4, <2>2 DEF TxSignal
    <3> QED
      BY <3>1, <3>2 DEF TxLock, TxExclusive, Holds, Inside, TxAt, EthTxTypeOK
  <2> QED
    BY <2>1, <2>2
<1>5. CASE DmaStep \/ UNCHANGED txVars
  BY <1>5 DEF DmaStep, DmaSend, DmaSuspend, txVars, TxLock, TxExclusive, Holds
<1> QED
  BY <1>1, <1>2, <1>3, <1>4, <1>5 DEF EthTxNext, TxStep

-----------------------------------------------------------------------------
(* The ring.                                                               *)

LEMMA TxOneFrameInit == EthTxInit => TxOneFrame
<1> SUFFICES ASSUME EthTxInit PROVE OneFrame
  BY DEF TxOneFrame
<1>1. Quiet
  BY DEF EthTxInit, Quiet, Unused
<1>2. ASSUME NEW t \in TxThreads PROVE RingOf(t)
  BY DEF EthTxInit, RingOf, Handed, Back
<1> QED
  BY <1>1, <1>2 DEF OneFrame

\* While one thread is in low_level_output, no other has a frame in the ring.
LEMMA TxAlone ==
    ASSUME TxLock, ~timedOut, NEW t \in TxThreads, Holds(t),
           NEW u \in TxThreads, u # t
    PROVE  txPc[u] \in Inside => FALSE
BY DEF TxLock, TxExclusive, Holds

\* What a thread does before its frame is handed over leaves the ring quiet.
LEMMA TxBefore ==
    ASSUME EthTxTypeOK, TxLock, OneFrame, ~timedOut, NEW t \in TxThreads,
           TxPoint(t) \/ TxCopy(t) \/ TxNoDescriptor(t) \/ TxDescriptor(t)
    PROVE  OneFrame'
<1> USE DEF txCpu, txRing, txDma, txHistory
<1>1. Holds(t) /\ txPc[t] \notin InFlight
  BY DEF TxPoint, TxCopy, TxNoDescriptor, TxDescriptor, TxAt, Holds, Inside, InFlight, Handed, Back
<1>2. \A u \in TxThreads : u # t => txPc[u] \notin Inside
  BY <1>1, TxAlone
<1>3. Quiet
  BY <1>1, <1>2 DEF OneFrame, InFlight, Handed, Back, Inside
<1>4. Quiet'
  BY <1>3 DEF Quiet, Unused, TxPoint, TxCopy, TxNoDescriptor, TxDescriptor
<1>5. \A u \in TxThreads : u # t => txPc'[u] = txPc[u]
  BY DEF TxPoint, TxCopy, TxNoDescriptor, TxDescriptor, TxGo, EthTxTypeOK
<1>6. UNCHANGED txStamp
  BY DEF TxPoint, TxCopy, TxNoDescriptor, TxDescriptor
<1>7. ASSUME NEW u \in TxThreads, u # t PROVE RingOf(u)'
  BY <1>2, <1>5, <1>6, <1>7 DEF OneFrame, RingOf, Inside, Handed, Back
<1>8. RingOf(t)'
  BY <1>6 DEF OneFrame, RingOf, Handed, Back, TxPoint, TxCopy, TxNoDescriptor, TxDescriptor,
     TxGo, TxAt, EthTxTypeOK
<1> QED
  BY <1>4, <1>7, <1>8 DEF OneFrame

\* What it does while its frame is with the DMA, or has just come back.
LEMMA TxMeanwhile ==
    ASSUME EthTxTypeOK, TxLock, OneFrame, ~timedOut, ~gaveUp', NEW t \in TxThreads,
           \/ TxHandover(t) \/ TxResume(t) \/ TxStamped(t) \/ TxGiveUp(t)
           \/ TxReadStatus(t)
    PROVE  OneFrame'
<1> USE DEF txCpu, txRing, txDma, txHistory
<1>1. Holds(t)
  BY DEF TxHandover, TxResume, TxStamped, TxGiveUp, TxReadStatus, TxAt, Holds, Inside
<1>2. \A u \in TxThreads : u # t => txPc[u] \notin Inside
  BY <1>1, TxAlone
<1>3. ~TxGiveUp(t)
  BY Zenon DEF TxGiveUp
<1>4. txPc'[t] \in InFlight /\ \A u \in TxThreads : u # t => txPc'[u] = txPc[u]
  BY <1>3 DEF TxHandover, TxResume, TxStamped, TxReadStatus, TxGo, EthTxTypeOK, InFlight,
     Handed, Back
<1>5. ASSUME NEW u \in TxThreads, u # t PROVE RingOf(u)'
  <2>1. UNCHANGED txStamp \/ txStamp' = [txStamp EXCEPT ![t] = ttss[toSet]]
    BY <1>3 DEF TxHandover, TxResume, TxStamped, TxReadStatus
  <2>2. txStamp'[u] = txStamp[u]
    BY <2>1, <1>5 DEF EthTxTypeOK
  <2> QED
    BY <1>2, <1>4, <1>5, <2>2 DEF OneFrame, RingOf, Inside, Handed, Back
<1>6. RingOf(t)'
  <2>1. CASE TxHandover(t)
    <3>1. Quiet /\ body[toSet] = t
      BY <1>2, <2>1 DEF OneFrame, RingOf, InFlight, Handed, Back, Inside, TxHandover, TxAt
    <3>2. Waits(t)'
      BY <2>1, <3>1 DEF TxHandover, Quiet, Waits, OthersFree, Unused, EthTxTypeOK
    <3> QED
      BY <2>1, <3>2 DEF OneFrame, RingOf, TxHandover, TxGo, EthTxTypeOK, Handed, Back
  <2>2. CASE TxResume(t)
    <3>1. Waits(t)' \/ Sent(t)'
      BY <2>2 DEF TxResume, TxAt, OneFrame, RingOf, Waits, Sent, OthersFree, Unused, Handed
    <3> QED
      BY <2>2, <3>1 DEF OneFrame, RingOf, TxResume, TxGo, EthTxTypeOK, Handed, Back
  <2>3. CASE TxStamped(t)
    <3>1. Sent(t)
      BY <2>3 DEF TxStamped, TxAt, OneFrame, RingOf, Waits, Handed
    <3>2. Sent(t)' /\ txStamp'[t] = t
      BY <2>3, <3>1 DEF TxStamped, Sent, OthersFree, Unused, EthTxTypeOK
    <3> QED
      BY <2>3, <3>2 DEF RingOf, TxStamped, TxGo, EthTxTypeOK, Handed, Back
  <2>4. CASE TxReadStatus(t)
    <3>1. Sent(t)
      BY <2>4 DEF TxReadStatus, TxAt, OneFrame, RingOf, Back
    <3>2. Sent(t)' /\ ~txStatus'[t]
      BY <2>4, <3>1 DEF TxReadStatus, Sent, OthersFree, Unused, EthTxTypeOK
    <3> QED
      BY <2>4, <3>2 DEF OneFrame, RingOf, TxReadStatus, TxGo, EthTxTypeOK, Handed, Back
  <2> QED
    BY <1>3, <2>1, <2>2, <2>3, <2>4
<1> QED
  BY <1>4, <1>5, <1>6 DEF OneFrame

\* The descriptor is free again when the thread goes on to the next one, and
\* that is where the DMA is.
LEMMA TxAfter ==
    ASSUME EthTxTypeOK, TxLock, OneFrame, ~timedOut, NEW t \in TxThreads, TxAdvance(t)
    PROVE  OneFrame'
<1>1. Holds(t)
  BY DEF TxAdvance, TxAt, Holds, Inside
<1>2. \A u \in TxThreads : u # t => txPc[u] \notin Inside
  BY <1>1, TxAlone
<1>3. Sent(t) /\ ~txStatus[t]
  BY DEF TxAdvance, TxAt, OneFrame, RingOf, Back
<1>4. Quiet'
  BY <1>3 DEF TxAdvance, Sent, OthersFree, Unused, Quiet, EthTxTypeOK, txDma
<1>5. txPc'[t] = "signal" /\ \A u \in TxThreads : u # t => txPc'[u] = txPc[u]
  BY DEF TxAdvance, TxGo, EthTxTypeOK
<1>6. ASSUME NEW u \in TxThreads PROVE RingOf(u)'
  BY <1>2, <1>5 DEF TxAdvance, OneFrame, RingOf, Inside, Handed, Back
<1> QED
  BY <1>4, <1>6 DEF OneFrame

\* A sender that gives the semaphore back leaves one frame in the ring at most.
LEMMA TxOver ==
    ASSUME EthTxTypeOK, TxLock, OneFrame, ~timedOut, NEW t \in TxThreads, TxSignal(t)
    PROVE  OneFrame'
<1>1. Holds(t) /\ txPc[t] = "signal"
  BY DEF TxSignal, TxAt, Holds, Inside
<1>2. \A u \in TxThreads : u # t => txPc[u] \notin Inside
  BY <1>1, TxAlone
<1>3. Quiet
  BY <1>1, <1>2 DEF OneFrame, InFlight, Handed, Back, Inside
<1>4. Quiet'
  BY <1>3, TxAssumption DEF TxSignal, TxReturn, Aged, Quiet, Unused, EthTxTypeOK, txDma
<1>5. \A u \in TxThreads : txPc'[u] \in {"idle", "wait", "point"}
  <2>1. \A u \in TxThreads : u # t => txPc[u] \in {"idle", "wait"}
    BY <1>2 DEF EthTxTypeOK
  <2>2. CASE TxGo(t, "idle")
    BY <2>1, <2>2 DEF TxGo, EthTxTypeOK
  <2>3. CASE \E w \in TxThreads : txPc' = [txPc EXCEPT ![t] = "idle", ![w] = "point"]
    BY <2>1, <2>3 DEF EthTxTypeOK
  <2> QED
    BY <2>2, <2>3 DEF TxSignal
<1>6. ASSUME NEW u \in TxThreads PROVE RingOf(u)'
  <2>1. txStamp'[u] \in {NoFrame, u}
    BY DEF TxSignal, TxReturn, OneFrame, RingOf, EthTxTypeOK
  <2> QED
    BY <1>5, <2>1 DEF RingOf, Handed, Back
<1> QED
  BY <1>4, <1>6 DEF OneFrame

\* A call starts while another thread may have its frame in the ring.
LEMMA TxCalled ==
    ASSUME EthTxTypeOK, OneFrame, NEW t \in TxThreads, TxCall(t)
    PROVE  OneFrame'
<1>1. txPc[t] = "idle" /\ txPc'[t] \in {"point", "wait"}
  BY DEF TxCall, TxAt, TxGo, EthTxTypeOK
<1>2. \A u \in TxThreads : u # t => txPc'[u] = txPc[u]
  BY DEF TxCall, TxGo, EthTxTypeOK
<1>3. UNCHANGED <<txBuffer, txStatus, txStamp, toSet, own, body, ttss, dmaAt>>
  BY DEF TxCall, txRing, txDma
<1>4. ASSUME \A u \in TxThreads : txPc'[u] \notin InFlight PROVE Quiet'
  <2>1. \A u \in TxThreads : txPc[u] \notin InFlight
    BY <1>1, <1>2, <1>4 DEF InFlight, Handed, Back
  <2> QED
    BY <1>3, <2>1 DEF OneFrame, Quiet, Unused
<1>5. ASSUME NEW u \in TxThreads PROVE RingOf(u)'
  <2>1. CASE u = t
    BY <1>1, <1>3, <2>1 DEF OneFrame, RingOf, Handed, Back
  <2>2. CASE u # t
    BY <1>2, <1>3, <2>2 DEF OneFrame, RingOf, Waits, Sent, OthersFree, Unused
  <2> QED
    BY <2>1, <2>2
<1> QED
  BY <1>4, <1>5 DEF OneFrame

\* The DMA only ever finds the frame of the thread that waits for it.
LEMMA TxDmaStep ==
    ASSUME EthTxTypeOK, TxLock, OneFrame, ~timedOut, DmaStep
    PROVE  OneFrame'
<1>1. CASE DmaSuspend
  <2>1. UNCHANGED <<txPc, txBuffer, txStatus, txStamp, toSet, own, body, ttss, dmaAt>>
    BY <1>1 DEF DmaSuspend, txCpu, txRing
  <2>2. ASSUME NEW u \in TxThreads PROVE RingOf(u)'
    BY <2>1 DEF OneFrame, RingOf, Waits, Sent, OthersFree, Unused
  <2>3. ASSUME \A u \in TxThreads : txPc'[u] \notin InFlight PROVE Quiet'
    BY <2>1, <2>3 DEF OneFrame, Quiet, Unused
  <2> QED
    BY <2>2, <2>3 DEF OneFrame
<1>2. CASE DmaSend
  <2> USE <1>2 DEF DmaSend, txCpu
  <2>1. ~Quiet
    BY DEF Quiet, Unused, EthTxTypeOK
  <2>2. PICK t \in TxThreads : txPc[t] \in InFlight
    BY <2>1 DEF OneFrame
  <2>3. ~Sent(t)
    BY FollowingIn DEF Sent, OthersFree, Unused, EthTxTypeOK
  <2>4. txPc[t] \in Handed /\ Waits(t)
    BY <2>2, <2>3 DEF OneFrame, RingOf, InFlight
  <2>5. Sent(t)'
    BY <2>4 DEF Waits, Sent, OthersFree, Unused, EthTxTypeOK
  <2>6. ASSUME NEW u \in TxThreads, u # t PROVE txPc[u] \notin Inside
    BY <2>4, <2>6, TxAlone DEF Holds, Handed, Inside
  <2>7. RingOf(t)'
    BY <2>4, <2>5 DEF OneFrame, RingOf, Handed, Back
  <2>8. ASSUME NEW u \in TxThreads, u # t PROVE RingOf(u)'
    BY <2>6, <2>8 DEF OneFrame, RingOf, Handed, Back, Inside
  <2>9. txPc'[t] \in InFlight
    BY <2>2
  <2> QED
    BY <2>7, <2>8, <2>9 DEF OneFrame
<1> QED
  BY <1>1, <1>2 DEF DmaStep

LEMMA TxOneFrameKept == TxInv /\ [EthTxNext]_txVars => TxOneFrame'
<1> SUFFICES ASSUME TxInv, [EthTxNext]_txVars, ~timedOut', ~gaveUp' PROVE OneFrame'
  BY DEF TxOneFrame
<1>1. ASSUME NEW t \in TxThreads, TxTimeout(t) \/ TxGiveUp(t) PROVE FALSE
  BY <1>1, Zenon DEF TxTimeout, TxGiveUp
<1>2. timedOut' = timedOut /\ gaveUp' = gaveUp
  BY <1>1 DEF EthTxNext, TxStep, DmaStep, TxCall, TxPoint, TxCopy,
     TxNoDescriptor, TxDescriptor, TxHandover, TxResume, TxStamped, TxReadStatus,
     TxAdvance, TxSignal, DmaSend, DmaSuspend, txVars, txHistory
<1>3. ~timedOut /\ ~gaveUp
  BY <1>2, Zenon
<1>4. EthTxTypeOK /\ TxLock /\ OneFrame
  BY <1>3 DEF TxInv, TxOneFrame
<1>5. ASSUME NEW t \in TxThreads, TxStep(t) PROVE OneFrame'
  BY <1>3, <1>4, <1>1, <1>5, TxBefore, TxMeanwhile, TxAfter, TxOver DEF TxStep
<1>6. CASE UNCHANGED txVars
  <2>1. UNCHANGED <<txPc, txBuffer, txStatus, txStamp, toSet, own, body, ttss, dmaAt>>
    BY <1>6 DEF txVars, txCpu, txRing, txDma
  <2>2. ASSUME NEW u \in TxThreads PROVE RingOf(u)'
    BY <1>4, <2>1 DEF OneFrame, RingOf, Waits, Sent, OthersFree, Unused
  <2>3. ASSUME \A u \in TxThreads : txPc'[u] \notin InFlight PROVE Quiet'
    BY <1>4, <2>1, <2>3 DEF OneFrame, Quiet, Unused
  <2> QED
    BY <2>2, <2>3 DEF OneFrame
<1> QED
  BY <1>3, <1>4, <1>5, <1>6, TxCalled, TxDmaStep DEF EthTxNext

-----------------------------------------------------------------------------
(* The theorems.                                                           *)

\* The inductive invariant holds in every behaviour (ethernetif.c:230-263).
THEOREM TxInvariance == EthTxSpec => []TxInv
<1>1. EthTxInit => TxInv
  BY TxTypesInit, TxLockInit, TxOneFrameInit DEF TxInv
<1>2. TxInv /\ [EthTxNext]_txVars => TxInv'
  BY TxTypes, TxLockKept, TxOneFrameKept DEF TxInv
<1> QED
  BY <1>1, <1>2, PTL DEF EthTxSpec

\* Whatever the number of threads, no two of them work on the descriptors
\* before a wait for the semaphore has timed out.
THEOREM ExclusiveUntilTimeout == EthTxSpec => []TxExclusiveUntilTimeout
<1>1. TxInv => TxExclusiveUntilTimeout
  BY DEF TxInv, TxLock, TxExclusiveUntilTimeout
<1> QED
  BY <1>1, TxInvariance, PTL

\* A frame that waits for the DMA is not overwritten by the next one while
\* every frame gets its time stamp in time, whatever the length of the ring.
THEOREM WaitingFrameIsKept == EthTxSpec => []WaitingFrameKept
<1>1. ASSUME TxInv, ~timedOut, ~gaveUp, NEW t \in TxThreads, TxAt(t, "copy")
      PROVE  ~own[txBuffer[t]]
  <2>1. OneFrame /\ TxLock
    BY <1>1 DEF TxInv, TxOneFrame
  <2>2. \A u \in TxThreads : u # t => txPc[u] \notin Inside
    BY <1>1, <2>1, TxAlone DEF Holds, TxAt, Inside
  <2>3. Quiet
    BY <1>1, <2>1, <2>2 DEF OneFrame, InFlight, Handed, Back, Inside, TxAt
  <2>4. txBuffer[t] \in Descriptors
    BY <1>1 DEF TxInv, EthTxTypeOK
  <2> QED
    BY <2>3, <2>4 DEF Quiet, Unused
<1>2. TxInv => WaitingFrameKept
  BY <1>1 DEF WaitingFrameKept
<1> QED
  BY <1>2, TxInvariance, PTL

\* The time stamp that a sender gets is the one of its own frame, under the
\* same condition.
THEOREM StampIsOfOwnFrame == EthTxSpec => []StampOfOwnFrame
<1>1. TxInv => StampOfOwnFrame
  BY DEF TxInv, TxOneFrame, OneFrame, RingOf, StampOfOwnFrame
<1> QED
  BY <1>1, TxInvariance, PTL

\* A signal is due: the interrupt is about to signal or is yet to be served.
Due == IF isr = "signal" \/ (isr = "idle" /\ rs) THEN 1 ELSE 0

Draining == IF rx # "wait" THEN 1 ELSE 0
Passing  == IF rx = "pass" THEN 1 ELSE 0

\* Tokens, signals that are due and the drain that has taken a token are paid
\* for by frames in the ring, the frame on its way and pbufs in the mailbox,
\* but for one: a signal that is due for a frame that was taken before it.
TokensPaid == rxTokens + Due + Draining <= rxFrames + Passing + mailbox + 1

\* The token of the last signal is there until the interrupt is over.
SignalGiven == isr = "clear" => rxTokens > 0

\* A ring that has filled up since the thread took a frame gets the next drain.
FullAwaitsDrain ==
    rx = "pass" /\ (rbus \/ rxFrames = RxDescriptors) =>
        rs \/ rxTokens > 0 \/ isr = "signal"

\* The type invariant, in a part for each of the provers.
RxRanges ==
    /\ rxFrames \in 0..RxDescriptors
    /\ isr \in {"idle", "signal", "clear", "stuck"}
    /\ rxTokens \in 0..SemaphoreLimit
    /\ rx \in {"wait", "input", "pass"}
    /\ mailbox \in 0..MailboxSlots

RxFlags == rs \in BOOLEAN /\ rbus \in BOOLEAN /\ refused \in BOOLEAN

RxInv ==
    /\ EthRxTypeOK
    /\ TokensPaid
    /\ SignalGiven
    /\ FullAwaitsDrain
    /\ IsrReturns
    /\ FullRingIsDrained
    /\ FrameIsAwaited

LEMMA RxInit == EthRxInit => RxInv
<1> SUFFICES ASSUME EthRxInit PROVE RxInv
  OBVIOUS
<1>1. RxRanges
  BY RxAssumption DEF EthRxInit, RxRanges
<1>2. RxFlags
  BY Zenon DEF EthRxInit, RxFlags
<1>3. EthRxTypeOK
  BY <1>1, <1>2, Zenon DEF EthRxTypeOK, RxRanges, RxFlags
<1>4. TokensPaid /\ SignalGiven /\ FullAwaitsDrain /\ IsrReturns
  BY DEF EthRxInit, TokensPaid, SignalGiven, FullAwaitsDrain, IsrReturns, Due, Draining, Passing
<1>5. FullRingIsDrained /\ FrameIsAwaited
  BY RxAssumption DEF EthRxInit, FullRingIsDrained, FrameIsAwaited
<1> QED
  BY <1>3, <1>4, <1>5 DEF RxInv

LEMMA RxTypes == RxInv /\ EthRxNext => EthRxTypeOK'
<1> SUFFICES ASSUME RxInv, EthRxNext PROVE EthRxTypeOK'
  OBVIOUS
<1>1. RxRanges /\ RxFlags
  BY Zenon DEF RxInv, EthRxTypeOK, RxRanges, RxFlags
<1>2. RxRanges'
  <2> USE RxAssumption, <1>1 DEF RxRanges
  <2>1. CASE DmaReceive
    BY <2>1 DEF DmaReceive, RxArrive, RxUnavailable
  <2>2. CASE IsrStep
    BY <2>2 DEF IsrStep, IsrEnter, IsrSignal, IsrClear
  <2>3. CASE RxStep
    BY <2>3 DEF RxStep, RxWait, RxInput, RxDrop, RxNoFrame, RxPass, RxRefused, TakeFrame
  <2>4. CASE TcpipFetch
    BY <2>4 DEF TcpipFetch
  <2> QED
    BY <2>1, <2>2, <2>3, <2>4 DEF EthRxNext
<1>3. RxFlags'
  BY <1>1, Zenon DEF RxFlags, EthRxNext, DmaReceive, RxArrive, RxUnavailable,
     IsrStep, IsrEnter, IsrSignal, IsrClear, RxStep, RxWait, RxInput, RxDrop, RxNoFrame,
     RxPass, RxRefused, TakeFrame, TcpipFetch
<1> QED
  BY <1>2, <1>3, Zenon DEF EthRxTypeOK, RxRanges, RxFlags

\* Each step keeps the balance: only the TCP/IP thread takes something away
\* without a token being used, and it runs when there are none.
LEMMA RxBalance == RxInv /\ EthRxNext => TokensPaid'
<1> SUFFICES ASSUME RxInv, EthRxNext PROVE TokensPaid'
  OBVIOUS
<1> USE RxAssumption DEF RxInv, EthRxTypeOK, TokensPaid, Due, Draining, Passing
<1>1. CASE DmaReceive
  BY <1>1 DEF DmaReceive, RxArrive, RxUnavailable
<1>2. CASE IsrStep
  BY <1>2 DEF IsrStep, IsrEnter, IsrSignal, IsrClear
<1>3. CASE RxStep
  BY <1>3 DEF RxStep, RxWait, RxInput, RxDrop, RxNoFrame, RxPass, RxRefused, TakeFrame
<1>4. CASE TcpipFetch
  BY <1>4 DEF TcpipFetch
<1> QED
  BY <1>1, <1>2, <1>3, <1>4 DEF EthRxNext

\* A frame in the ring has a signal, a token or the drain that is going to take it.
LEMMA RxAwaited ==
    RxInv /\ EthRxNext => (SignalGiven /\ FullAwaitsDrain /\ FullRingIsDrained /\ FrameIsAwaited)'
<1> SUFFICES ASSUME RxInv, EthRxNext
             PROVE  (SignalGiven /\ FullAwaitsDrain /\ FullRingIsDrained /\ FrameIsAwaited)'
  OBVIOUS
<1> USE RxAssumption DEF RxInv, EthRxTypeOK, SignalGiven, FullAwaitsDrain,
        FullRingIsDrained, FrameIsAwaited, DrainAwaited
<1>1. CASE DmaReceive
  BY <1>1 DEF DmaReceive, RxArrive, RxUnavailable
<1>2. CASE IsrStep
  BY <1>2 DEF IsrStep, IsrEnter, IsrSignal, IsrClear, IsrReturns
<1>3. CASE RxStep
  BY <1>3 DEF RxStep, RxWait, RxInput, RxDrop, RxNoFrame, RxPass, RxRefused, TakeFrame
<1>4. CASE TcpipFetch
  BY <1>4 DEF TcpipFetch
<1> QED
  BY <1>1, <1>2, <1>3, <1>4 DEF EthRxNext

\* The semaphore has room: what pays for its tokens fits the ring and the
\* mailbox.
LEMMA RxSignalReturns == RxInv /\ EthRxNext => IsrReturns'
<1> SUFFICES ASSUME RxInv, EthRxNext PROVE IsrReturns'
  OBVIOUS
<1>1. CASE IsrSignal
  <2>1. rxTokens <= rxFrames + mailbox
    BY <1>1 DEF IsrSignal, RxInv, EthRxTypeOK, TokensPaid, Due, Draining, Passing
  <2>2. rxTokens < SemaphoreLimit
    BY <2>1, RxAssumption DEF RxInv, EthRxTypeOK
  <2> QED
    BY <1>1, <2>2 DEF IsrSignal, IsrReturns
<1>2. CASE ~IsrSignal
  BY <1>2 DEF EthRxNext, DmaReceive, RxArrive, RxUnavailable, IsrStep, IsrEnter, IsrClear,
     RxStep, RxWait, RxInput, RxDrop, RxNoFrame, RxPass, RxRefused, TakeFrame, TcpipFetch,
     RxInv, IsrReturns
<1> QED
  BY <1>1, <1>2

\* The inductive invariant holds in every behaviour (ethernetif.c, stm32f4xx_it.c).
THEOREM RxInvariance == EthRxSpec => []RxInv
<1>1. RxInv /\ [EthRxNext]_rxVars => RxInv'
  <2>1. RxInv /\ UNCHANGED rxVars => RxInv'
    BY DEF rxVars, RxInv, EthRxTypeOK, TokensPaid, SignalGiven, FullAwaitsDrain, IsrReturns,
       FullRingIsDrained, FrameIsAwaited, Due, Draining, Passing, DrainAwaited
  <2>2. RxInv /\ EthRxNext => RxInv'
    BY RxTypes, RxBalance, RxAwaited, RxSignalReturns DEF RxInv
  <2> QED
    BY <2>1, <2>2
<1> QED
  BY RxInit, <1>1, PTL DEF EthRxSpec

\* The interrupt never ends in the endless loop of sys_sem_signal, whatever the
\* rate of frames, provided the semaphore has room for a full ring and a full
\* mailbox and one more.
THEOREM InterruptReturns == EthRxSpec => []IsrReturns
<1>1. RxInv => IsrReturns
  BY DEF RxInv
<1> QED
  BY <1>1, RxInvariance, PTL

\* The receive DMA is never suspended for ever, nor the ring full, without a
\* drain on the way.
THEOREM DrainComes == EthRxSpec => []FullRingIsDrained
<1>1. RxInv => FullRingIsDrained
  BY DEF RxInv
<1> QED
  BY <1>1, RxInvariance, PTL

\* A frame is left in the ring only by a drain that ended with a dropped frame.
THEOREM FramesAwaited == EthRxSpec => []FrameIsAwaited
<1>1. RxInv => FrameIsAwaited
  BY DEF RxInv
<1> QED
  BY <1>1, RxInvariance, PTL

-----------------------------------------------------------------------------
(* The parts side by side.                                                 *)

LEMMA ThreadsStart == ThreadsInit => QueueInit /\ ThreadInit /\ EthTxInit /\ EthRxInit
BY DEF ThreadsInit

\* A step of one part is none of the others.
LEMMA ThreadsSteps ==
    [ThreadsNext]_threadsVars =>
        /\ [QueueNext]_queueVars /\ [ThreadNext]_threadVars
        /\ [EthTxNext]_txVars /\ [EthRxNext]_rxVars
<1>1. OnlyQueue /\ QueueNext =>
          QueueNext /\ UNCHANGED threadVars /\ UNCHANGED txVars /\ UNCHANGED rxVars
  BY DEF OnlyQueue
<1>2. OnlyThread /\ ThreadNext =>
          ThreadNext /\ UNCHANGED queueVars /\ UNCHANGED txVars /\ UNCHANGED rxVars
  BY DEF OnlyThread
<1>3. OnlyTx /\ EthTxNext =>
          EthTxNext /\ UNCHANGED queueVars /\ UNCHANGED threadVars /\ UNCHANGED rxVars
  BY DEF OnlyTx
<1>4. OnlyRx /\ EthRxNext =>
          EthRxNext /\ UNCHANGED queueVars /\ UNCHANGED threadVars /\ UNCHANGED txVars
  BY DEF OnlyRx
<1>5. UNCHANGED threadsVars => /\ UNCHANGED queueVars /\ UNCHANGED threadVars
                              /\ UNCHANGED txVars /\ UNCHANGED rxVars
  BY DEF threadsVars
<1> QED
  BY <1>1, <1>2, <1>3, <1>4, <1>5 DEF ThreadsNext

\* Every behaviour of the four parts side by side is one of each part.
THEOREM ThreadsImplementParts ==
    ThreadsSpec => QueueSpec /\ ThreadSpec /\ EthTxSpec /\ EthRxSpec
BY ThreadsStart, ThreadsSteps, PTL DEF ThreadsSpec, QueueSpec, ThreadSpec, EthTxSpec, EthRxSpec

\* The types are those that each module states, whatever the constants.
THEOREM ThreadsTypeCorrect == ThreadsSpec => []ThreadsTypeOK
<1>1. QueueInv => QueueTypeOK
  BY DEF QueueInv, QueueShape
<1>2. TxInv => EthTxTypeOK
  BY DEF TxInv
<1>3. RxInv => EthRxTypeOK
  BY DEF RxInv
<1>4. QueueTypeOK /\ ThreadTypeOK /\ EthTxTypeOK /\ EthRxTypeOK => ThreadsTypeOK
  BY DEF ThreadsTypeOK
<1> QED
  BY <1>1, <1>2, <1>3, <1>4, ThreadsImplementParts, QueueInvariance, ThreadTypeCorrect,
     TxInvariance, RxInvariance, PTL

\* What the parts promise holds of them side by side: of the queue
\* (net.c:14-71), the main loop (ptpd.c:58-83, protocol.c:458-492), the
\* transmit ring (ethernetif.c:230-263, stm32f4x7_eth.c:1272-1290) and the
\* receive interrupt (stm32f4xx_it.c).
THEOREM ThreadsSafe ==
    ThreadsSpec => /\ RingIsFifo
                   /\ [](/\ EveryPbufHasOneOwner /\ NoLostWakeup /\ EventsFirst
                         /\ TxExclusiveUntilTimeout /\ WaitingFrameKept /\ StampOfOwnFrame
                         /\ IsrReturns /\ FullRingIsDrained /\ FrameIsAwaited)
BY ThreadsImplementParts, RingImplementsFifo, PbufsHaveOneOwner, WakeupIsKept, EventsComeFirst,
   ExclusiveUntilTimeout, WaitingFrameIsKept, StampIsOfOwnFrame, InterruptReturns, DrainComes,
   FramesAwaited, PTL
=============================================================================
