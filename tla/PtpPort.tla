------------------------------ MODULE PtpPort ------------------------------
(***************************************************************************)
(* One PTP port: the state machine of ptpd-2.0.0/src/protocol.c, with the  *)
(* timers it starts and stops, the event flags, the foreign masters and    *)
(* the parent.                                                             *)
(*                                                                         *)
(* The PTP thread calls doState over and over (ptpd.c wakes it at the      *)
(* latest after 100 ms).  One call is a walk of pc:                        *)
(*                                                                         *)
(*   decide -> recommend -> act -> receive -> delayreq -> decide           *)
(*                                                                         *)
(* decide     a pending STATE_DECISION_EVENT runs bmc()                    *)
(* recommend  the port follows recommendedState                            *)
(* act        the work of the port state: initialization, expired timers   *)
(* receive    handle(): at most one received message                       *)
(* delayreq   issueDelayReqTimerExpired()                                  *)
(*                                                                         *)
(* The timer thread may interrupt the PTP thread between any two steps.    *)
(* Time stamps are abstracted to the size class of the offset they yield,  *)
(* and every send succeeds, as netSend reports whatever happens.           *)
(***************************************************************************)
EXTENDS Bmc, FiniteSets

CONSTANTS
    SlaveOnly,        \* defaultDS.slaveOnly
    DelayMechanism,   \* portDS.delayMechanism
    SequenceIds,      \* the sequence ids that Sync messages carry
    ZeroIntervals     \* whether getRand may draw an interval of 0 ms

ClockClass == OwnQuality[2]

\* A port that must not become master.
ListenOnly == SlaveOnly \/ ClockClass = 255

ASSUME PortAssumption ==
    /\ SlaveOnly \in BOOLEAN
    /\ ListenOnly \in BOOLEAN
    /\ DelayMechanism \in {"E2E", "P2P"}
    /\ ZeroIntervals \in BOOLEAN

ASSUME SequenceAssumption == 0 \in SequenceIds

VARIABLES
    pc,                 \* where the PTP thread is in doState
    portState,          \* portDS.portState
    recommendedState,
    events,             \* the flags set in ptpClock->events
    armed,              \* the timers that are running
    expired,            \* the timers whose ptpdTimersExpired flag is set
    fm,                 \* foreignMasterDS
    parent,             \* parentDS.parentPortIdentity
    waitingForFollowUp,
    recvSync,           \* sender of timestamp_syncRecieve, recvSyncSequenceId
    offsetFrom,         \* senders of the Sync and of the origin time stamp
                        \* that currentDS.offsetFromMaster was computed from
    sent                \* kinds of messages issued by the last step

syncVars  == <<waitingForFollowUp, recvSync, offsetFrom>>
timerVars == <<armed, expired>>
bmcVars   == <<fm, parent>>
vars == <<pc, portState, recommendedState, events, timerVars, bmcVars,
          syncVars, sent>>

\* PTP_DISABLED and PTP_PRE_MASTER are never entered: nothing calls
\* toState(PTP_DISABLED), and toState(PTP_PRE_MASTER) falls through to MASTER.
States == {"INITIALIZING", "FAULTY", "LISTENING", "MASTER", "PASSIVE",
           "UNCALIBRATED", "SLAVE"}

\* The states that watch for Announce messages, and those that run the BMC.
Waiting == {"LISTENING", "PASSIVE", "UNCALIBRATED", "SLAVE"}
Running == Waiting \cup {"MASTER"}
Following == {"UNCALIBRATED", "SLAVE"}

Timers == {"ANNOUNCE_RECEIPT", "ANNOUNCE_INTERVAL", "SYNC_INTERVAL",
           "DELAYREQ_INTERVAL", "PDELAYREQ_INTERVAL"}

Events == {"STATE_DECISION_EVENT", "MASTER_CLOCK_SELECTED",
           "MASTER_CLOCK_CHANGED", "SYNCHRONIZATION_FAULT"}

Masters == {d.src : d \in Announces}

\* The offset from the master: below DEFAULT_CALIBRATED_OFFSET_NS, between,
\* above DEFAULT_UNCALIBRATED_OFFSET_NS or a second and more.
Offsets == {"calibrated", "between", "uncalibrated"}

-----------------------------------------------------------------------------
(* Timers.  timerStart clears the expired flag and then restarts the       *)
(* timer: one that still runs may expire in between, and the flag of its   *)
(* last period survives (late).  timerStop has no such window.             *)

DelayTimer == IF DelayMechanism = "E2E" THEN "DELAYREQ_INTERVAL"
                                        ELSE "PDELAYREQ_INTERVAL"
PeerDelayTimer == IF DelayMechanism = "P2P" THEN {"PDELAYREQ_INTERVAL"} ELSE {}

\* The interval of a delay request timer is drawn, and may be 0: osTimerStart
\* then refuses to start the timer, which remains as it was (rt_CMSIS.c:1009).
Refusable == IF ZeroIntervals THEN {DelayTimer} ELSE {}

\* Defect: the flag is cleared after the start, so a timer that has expired at
\* once (lost) neither runs nor shows.
SetTimersFlagLast(stop, start) ==
    \E lost \in SUBSET start :
        /\ armed' = ((armed \ stop) \cup start) \ lost
        /\ expired' = expired \ (stop \cup start)

SetTimers(stop, start) ==
    \E refused \in SUBSET (start \cap Refusable) :
        /\ armed' = (armed \ stop) \cup (start \ refused)
        /\ \E late \in SUBSET ((armed \cap start) \ (stop \cup refused)) :
              expired' = (expired \ (stop \cup start)) \cup late

Expire(t) ==
    /\ t \in armed
    /\ armed' = armed \ {t}
    /\ expired' = expired \cup {t}
    /\ UNCHANGED <<pc, portState, recommendedState, events, bmcVars, syncVars, sent>>

\* Defect: an announce receipt timer or a delay request timer that has been
\* served is stopped rather than restarted.
StopAnnounceReceipt == SetTimers({"ANNOUNCE_RECEIPT"}, {})
StopDelayTimer      == SetTimers({DelayTimer}, {})

RestartAnnounceReceipt == SetTimers({}, {"ANNOUNCE_RECEIPT"})
RestartDelayTimer      == SetTimers({}, {DelayTimer})

-----------------------------------------------------------------------------
(* toState(s): the tasks of leaving portState and of entering s.           *)

StaysFollowing(s) == portState \in Following /\ s \in Following

\* Defect: a passive port keeps its peer delay request timer.
TimersOfLeavingButPassive(s) ==
    CASE portState = "MASTER"    -> {"SYNC_INTERVAL", "ANNOUNCE_INTERVAL",
                                     "PDELAYREQ_INTERVAL"}
      [] portState \in Following -> IF StaysFollowing(s) THEN {}
                                    ELSE {"ANNOUNCE_RECEIPT", DelayTimer}
      [] portState \in {"PASSIVE", "LISTENING"} -> {"ANNOUNCE_RECEIPT"}
      [] OTHER                   -> {}

TimersOfLeaving(s) ==
    CASE portState = "MASTER"    -> {"SYNC_INTERVAL", "ANNOUNCE_INTERVAL",
                                     "PDELAYREQ_INTERVAL"}
      [] portState \in Following -> IF StaysFollowing(s) THEN {}
                                    ELSE {"ANNOUNCE_RECEIPT", DelayTimer}
      [] portState = "PASSIVE"   -> {"PDELAYREQ_INTERVAL", "ANNOUNCE_RECEIPT"}
      [] portState = "LISTENING" -> {"ANNOUNCE_RECEIPT"}
      [] OTHER                   -> {}

TimersOfEntering(s) ==
    CASE s = "LISTENING"    -> {"ANNOUNCE_RECEIPT"}
      [] s = "MASTER"       -> {"SYNC_INTERVAL", "ANNOUNCE_INTERVAL"}
                                   \cup PeerDelayTimer
      [] s = "PASSIVE"      -> {"ANNOUNCE_RECEIPT"} \cup PeerDelayTimer
      [] s = "UNCALIBRATED" -> {"ANNOUNCE_RECEIPT", DelayTimer}
      [] OTHER              -> {}

\* initClock on leaving a running state, except between the following states.
InitClockOnLeaving(s) ==
    /\ waitingForFollowUp' =
          (waitingForFollowUp /\ (portState \notin Running \/ StaysFollowing(s)))
    /\ UNCHANGED <<recvSync, offsetFrom>>

ToState(s) ==
    /\ portState' = s
    /\ SetTimers(TimersOfLeaving(s), TimersOfEntering(s))
    /\ InitClockOnLeaving(s)

\* Defects: toState leaves the recommendation alone; a fault resets it.
RecommendedUnchanged(s, r) == r
RecommendedByFault(s, r)   == IF s \in {"INITIALIZING", "LISTENING"} THEN s
                              ELSE IF s = "FAULTY" THEN "INITIALIZING" ELSE r

\* The recommendation after toState(s), when it was r.
Recommended(s, r) == IF s \in {"INITIALIZING", "LISTENING"} THEN s ELSE r

-----------------------------------------------------------------------------
(* decide: a pending state decision event runs bmc().                      *)

\* Defect: the clock class is not looked at.
StateDecisionOfAnyClass(rec) ==
    IF fm.count = 0 /\ portState = "LISTENING" THEN "LISTENING"
    ELSE IF bmcDataSetComparison(D0, rec) = A_better_then_B THEN "MASTER"
    ELSE "SLAVE"

\* bmcStateDecision for the selected record.
StateDecision(rec) ==
    IF fm.count = 0 /\ portState = "LISTENING" THEN "LISTENING"
    ELSE IF bmcDataSetComparison(D0, rec) = A_better_then_B THEN "MASTER"
    ELSE IF ClockClass < 128 THEN "PASSIVE" ELSE "SLAVE"

\* What doState makes of the decision when the port must not be master.
\* Defect: nothing.
AnyDecision(s) == s
Permitted(s) == IF s \in {"MASTER", "PASSIVE"} /\ ListenOnly THEN "LISTENING" ELSE s

\* The parent after a decision s: m1, s1 or p1.
\* Defects: s1 keeps the old parent; m1 does.
ParentUnlessSlave(s, rec)  == IF s = "MASTER" THEN Self ELSE parent
ParentUnlessMaster(s, rec) == IF s = "SLAVE" THEN rec.src ELSE parent
ParentAfter(s, rec) == CASE s = "MASTER" -> Self
                         [] s = "SLAVE"  -> rec.src
                         [] OTHER        -> parent

\* s1 reports a change of master when the parent changes.
\* Defect: it never does.
NoReport(s, rec) == {}
s1Events(s, rec) ==
    IF s = "SLAVE" /\ rec.src # parent THEN {"MASTER_CLOCK_CHANGED"} ELSE {}

\* The decision is no longer pending.
\* Defect: its flag stays set.
DecisionStillPending == events
DecisionTaken == events \ {"STATE_DECISION_EVENT"}

DecisionPending == portState \in Running /\ "STATE_DECISION_EVENT" \in events

DecideState ==
    /\ pc = "decide"
    /\ DecisionPending
    /\ \E b \in Candidates(fm) :
          LET rec == fm.records[b]
              s   == StateDecision(rec)
          IN  /\ Selects(fm, b)
              /\ recommendedState' = Permitted(s)
              /\ parent' = ParentAfter(s, rec)
              /\ events' = DecisionTaken \cup s1Events(s, rec)
              /\ fm' = [fm EXCEPT !.best = b]
    /\ pc' = "recommend"
    /\ sent' = {}
    /\ UNCHANGED <<portState, timerVars, syncVars>>

NoDecision ==
    /\ pc = "decide"
    /\ ~DecisionPending
    /\ pc' = "recommend"
    /\ sent' = {}
    /\ UNCHANGED <<portState, recommendedState, events, timerVars, bmcVars, syncVars>>

-----------------------------------------------------------------------------
(* recommend: the port follows recommendedState, whatever its state.       *)

Follow(s, cleared) ==
    /\ pc = "recommend"
    /\ ToState(s)
    /\ recommendedState' = Recommended(s, recommendedState)
    /\ events' = events \ cleared
    /\ pc' = "act"
    /\ sent' = {}
    /\ UNCHANGED bmcVars

BecomeMaster ==
    recommendedState = "MASTER" /\ portState # "MASTER" /\ Follow("MASTER", {})

BecomePassive ==
    recommendedState = "PASSIVE" /\ portState # "PASSIVE" /\ Follow("PASSIVE", {})

BecomeListening ==
    recommendedState = "LISTENING" /\ portState # "LISTENING" /\ Follow("LISTENING", {})

BecomeUncalibrated ==
    recommendedState = "SLAVE" /\ portState \notin Following /\ Follow("UNCALIBRATED", {})

BecomeSlave ==
    /\ recommendedState = "SLAVE"
    /\ portState = "UNCALIBRATED"
    /\ "MASTER_CLOCK_SELECTED" \in events
    /\ Follow("SLAVE", {"MASTER_CLOCK_SELECTED", "MASTER_CLOCK_CHANGED"})

\* Defect: the flag of the fault stays set.
LoseSynchronizationOnly ==
    /\ recommendedState = "SLAVE"
    /\ portState = "SLAVE"
    /\ events \cap {"SYNCHRONIZATION_FAULT", "MASTER_CLOCK_CHANGED"} # {}
    /\ Follow("UNCALIBRATED", {"MASTER_CLOCK_CHANGED"})

LoseSynchronization ==
    /\ recommendedState = "SLAVE"
    /\ portState = "SLAVE"
    /\ events \cap {"SYNCHRONIZATION_FAULT", "MASTER_CLOCK_CHANGED"} # {}
    /\ Follow("UNCALIBRATED", {"SYNCHRONIZATION_FAULT", "MASTER_CLOCK_CHANGED"})

KeepState ==
    /\ pc = "recommend"
    /\ \/ /\ recommendedState \in {"MASTER", "PASSIVE", "LISTENING"}
          /\ portState = recommendedState
          /\ UNCHANGED events
       \/ /\ recommendedState = "INITIALIZING"
          /\ UNCHANGED events
       \/ /\ recommendedState = "SLAVE"
          /\ portState = "UNCALIBRATED"
          /\ "MASTER_CLOCK_SELECTED" \notin events
          /\ events' = events \ {"MASTER_CLOCK_CHANGED"}
       \/ /\ recommendedState = "SLAVE"
          /\ portState = "SLAVE"
          /\ events \cap {"SYNCHRONIZATION_FAULT", "MASTER_CLOCK_CHANGED"} = {}
          /\ UNCHANGED events
    /\ pc' = "act"
    /\ sent' = {}
    /\ UNCHANGED <<portState, recommendedState, timerVars, bmcVars, syncVars>>

-----------------------------------------------------------------------------
(* act: what each state does before it handles a message.                  *)

\* doInit succeeds: data sets, timers, clock and parent start afresh, but
\* not the slot i of the next foreign master nor best.
InitializePort ==
    /\ pc = "act"
    /\ portState = "INITIALIZING"
    /\ fm' = [fm EXCEPT !.count = 0]
    /\ parent' = Self
    /\ portState' = "LISTENING"
    /\ recommendedState' = "LISTENING"
    /\ armed' = {"ANNOUNCE_RECEIPT"}
    /\ expired' = {}
    /\ waitingForFollowUp' = FALSE
    /\ pc' = "decide"
    /\ sent' = {}
    /\ UNCHANGED <<events, recvSync, offsetFrom>>

\* doInit fails because netInit does: no address yet, no UDP block free.
FailInitialization ==
    /\ pc = "act"
    /\ portState = "INITIALIZING"
    /\ ToState("FAULTY")
    /\ recommendedState' = Recommended("FAULTY", recommendedState)
    /\ pc' = "decide"
    /\ sent' = {}
    /\ UNCHANGED <<events, bmcVars>>

ClearFault ==
    /\ pc = "act"
    /\ portState = "FAULTY"
    /\ ToState("INITIALIZING")
    /\ recommendedState' = Recommended("INITIALIZING", recommendedState)
    /\ pc' = "decide"
    /\ sent' = {}
    /\ UNCHANGED <<events, bmcVars>>

\* The announce receipt timer expired: the masters are forgotten and the port
\* becomes master, or listens when it must not.
AnnounceReceiptTimeout ==
    /\ pc = "act"
    /\ portState \in Waiting
    /\ "ANNOUNCE_RECEIPT" \in expired
    /\ fm' = forgetForeign(fm)
    /\ \/ /\ ~ListenOnly
          /\ parent' = Self
          /\ recommendedState' = "MASTER"
          /\ ToState("MASTER")
       \/ /\ ListenOnly
          /\ portState # "LISTENING"
          /\ recommendedState' = Recommended("LISTENING", recommendedState)
          /\ ToState("LISTENING")
          /\ UNCHANGED parent
       \/ /\ ListenOnly
          /\ portState = "LISTENING"
          /\ expired' = expired \ {"ANNOUNCE_RECEIPT"}
          /\ UNCHANGED <<portState, recommendedState, armed, parent, syncVars>>
    /\ pc' = "decide"
    /\ sent' = {}
    /\ UNCHANGED events

GoOnWaiting ==
    /\ pc = "act"
    /\ portState \in Waiting
    /\ "ANNOUNCE_RECEIPT" \notin expired
    /\ pc' = "receive"
    /\ sent' = {}
    /\ UNCHANGED <<portState, recommendedState, events, timerVars, bmcVars, syncVars>>

\* A master issues what its expired interval timers ask for; it does not
\* restart them.  The Follow_Up needs a valid time stamp of the Sync.
IssueSyncAndAnnounce ==
    /\ pc = "act"
    /\ portState = "MASTER"
    /\ \E stamped \in BOOLEAN :
          sent' = (IF "SYNC_INTERVAL" \in expired
                   THEN {"SYNC"} \cup (IF stamped THEN {"FOLLOW_UP"} ELSE {})
                   ELSE {})
                  \cup (IF "ANNOUNCE_INTERVAL" \in expired THEN {"ANNOUNCE"} ELSE {})
    /\ expired' = expired \ {"SYNC_INTERVAL", "ANNOUNCE_INTERVAL"}
    /\ pc' = "receive"
    /\ UNCHANGED <<portState, recommendedState, events, armed, bmcVars, syncVars>>

-----------------------------------------------------------------------------
(* receive: handle() takes one message, from the event queue if it has one.*)

\* Where doState goes after handle(); only a master has more to do.
AfterHandle == IF portState = "MASTER" THEN "delayreq" ELSE "decide"

\* No message, or one whose handling changes nothing here: another version or
\* domain, from the port itself, of no interest to this state.
HandleNothing ==
    /\ pc = "receive"
    /\ pc' = AfterHandle
    /\ sent' = {}
    /\ UNCHANGED <<portState, recommendedState, events, timerVars, bmcVars, syncVars>>

\* A message shorter than its type demands is a fault.
HandleShortMessage ==
    /\ pc = "receive"
    /\ ToState("FAULTY")
    /\ recommendedState' = Recommended("FAULTY", recommendedState)
    /\ pc' = AfterHandle
    /\ sent' = {}
    /\ UNCHANGED <<events, bmcVars>>

\* An Announce of the parent refreshes the parent, any other the foreign
\* masters; every one asks for a state decision.
HandleAnnounce(d) ==
    /\ pc = "receive"
    /\ events' = events \cup {"STATE_DECISION_EVENT"}
    /\ \/ /\ portState \in Following
          /\ d.src = parent
          /\ RestartAnnounceReceipt
          /\ UNCHANGED fm
       \/ /\ portState \in Following
          /\ d.src # parent
          /\ fm' = addForeign(fm, d)
          /\ UNCHANGED timerVars
       \/ /\ portState = "PASSIVE"
          /\ fm' = addForeign(fm, d)
          /\ RestartAnnounceReceipt
       \/ /\ portState \in {"MASTER", "LISTENING"}
          /\ fm' = addForeign(fm, d)
          /\ UNCHANGED timerVars
    /\ pc' = AfterHandle
    /\ sent' = {}
    /\ UNCHANGED <<portState, recommendedState, parent, syncVars>>

\* updateOffset and updateClock on a Sync received from rx whose origin time
\* stamp comes from tx.
UpdateOffset(rx, tx, offset) ==
    /\ offsetFrom' = [rx |-> rx, tx |-> tx]
    /\ events' = events \cup
          (CASE offset = "calibrated"   /\ portState = "UNCALIBRATED"
                    -> {"MASTER_CLOCK_SELECTED"}
             [] offset = "uncalibrated" /\ portState = "SLAVE"
                    -> {"SYNCHRONIZATION_FAULT"}
             [] OTHER -> {})

HandleTwoStepSync(m, seq) ==
    /\ pc = "receive"
    /\ portState \in Following
    /\ m = parent
    /\ waitingForFollowUp' = TRUE
    /\ recvSync' = [from |-> m, seq |-> seq]
    /\ pc' = "decide"
    /\ sent' = {}
    /\ UNCHANGED <<portState, recommendedState, events, timerVars, bmcVars, offsetFrom>>

HandleOneStepSync(m, offset) ==
    /\ pc = "receive"
    /\ portState \in Following
    /\ m = parent
    /\ waitingForFollowUp' = FALSE
    /\ recvSync' = [recvSync EXCEPT !.from = m]
    /\ UpdateOffset(m, m, offset)
    /\ pc' = "delayreq"
    /\ sent' = {}
    /\ UNCHANGED <<portState, recommendedState, timerVars, bmcVars>>

HandleFollowUp(m, seq, offset) ==
    /\ pc = "receive"
    /\ portState \in Following
    /\ waitingForFollowUp
    /\ m = parent
    /\ seq = recvSync.seq
    /\ waitingForFollowUp' = FALSE
    /\ UpdateOffset(recvSync.from, m, offset)
    /\ pc' = "delayreq"
    /\ sent' = {}
    /\ UNCHANGED <<portState, recommendedState, timerVars, bmcVars, recvSync>>

\* A passive port only uses a Sync or Follow_Up as the moment to look at its
\* delay request timer.
HandlePassiveSync ==
    /\ pc = "receive"
    /\ portState = "PASSIVE"
    /\ pc' = "delayreq"
    /\ sent' = {}
    /\ UNCHANGED <<portState, recommendedState, events, timerVars, bmcVars, syncVars>>

-----------------------------------------------------------------------------
(* delayreq: an expired delay request timer is restarted and a request is  *)
(* issued.  End to end, only a slave asks.                                 *)

DelayRequestDue ==
    /\ DelayTimer \in expired
    /\ DelayMechanism = "E2E" => portState = "SLAVE"

IssueDelayReq ==
    /\ pc = "delayreq"
    /\ DelayRequestDue
    /\ RestartDelayTimer
    /\ sent' = {IF DelayMechanism = "E2E" THEN "DELAY_REQ" ELSE "PDELAY_REQ"}
    /\ pc' = "decide"
    /\ UNCHANGED <<portState, recommendedState, events, bmcVars, syncVars>>

NoDelayReq ==
    /\ pc = "delayreq"
    /\ ~DelayRequestDue
    /\ pc' = "decide"
    /\ sent' = {}
    /\ UNCHANGED <<portState, recommendedState, events, timerVars, bmcVars, syncVars>>

-----------------------------------------------------------------------------

Init ==
    /\ pc = "decide"
    /\ portState = "INITIALIZING"
    /\ recommendedState = "INITIALIZING"
    /\ events = {}
    /\ armed = {}
    /\ expired = {}
    /\ fm = NoForeignMasters
    /\ parent = Self
    /\ waitingForFollowUp = FALSE
    /\ recvSync = [from |-> Self, seq |-> 0]
    /\ offsetFrom = [rx |-> Self, tx |-> Self]
    /\ sent = {}

Decide    == DecideState \/ NoDecision

Recommend == \/ BecomeMaster \/ BecomePassive \/ BecomeListening
             \/ BecomeUncalibrated \/ BecomeSlave \/ LoseSynchronization
             \/ KeepState

Act       == \/ InitializePort \/ FailInitialization \/ ClearFault
             \/ AnnounceReceiptTimeout \/ GoOnWaiting \/ IssueSyncAndAnnounce

Receive   == \/ HandleNothing
             \/ HandleShortMessage
             \/ \E d \in Announces : HandleAnnounce(d)
             \/ \E m \in Masters, seq \in SequenceIds : HandleTwoStepSync(m, seq)
             \/ \E m \in Masters, o \in Offsets : HandleOneStepSync(m, o)
             \/ \E m \in Masters, seq \in SequenceIds, o \in Offsets :
                   HandleFollowUp(m, seq, o)
             \/ HandlePassiveSync

DelayReq  == IssueDelayReq \/ NoDelayReq

DoState == Decide \/ Recommend \/ Act \/ Receive \/ DelayReq

Next == DoState \/ \E t \in Timers : Expire(t)

Spec == Init /\ [][Next]_vars

\* The thread is woken at the latest after 100 ms, and a running timer ends.
Fairness == WF_vars(DoState) /\ \A t \in Timers : WF_vars(Expire(t))

FairSpec == Spec /\ Fairness
-----------------------------------------------------------------------------
(* Invariants.                                                             *)

\* Every variable has its type.
TypeOK ==
    /\ pc \in {"decide", "recommend", "act", "receive", "delayreq"}
    /\ portState \in States
    /\ recommendedState \in States
    /\ events \subseteq Events
    /\ armed \subseteq Timers
    /\ expired \subseteq Timers
    /\ fm \in ForeignMasterDS
    /\ parent \in Masters \cup {Self}
    /\ waitingForFollowUp \in BOOLEAN
    /\ recvSync \in [from : Masters \cup {Self}, seq : SequenceIds]
    /\ offsetFrom \in [rx : Masters \cup {Self}, tx : Masters \cup {Self}]
    /\ sent \subseteq {"SYNC", "FOLLOW_UP", "ANNOUNCE", "DELAY_REQ", "PDELAY_REQ"}

\* The timers that have a use: running, or expired and not yet looked at.
Alive == armed \cup expired

\* A port that has been initialized once never is again, not even by way of a
\* fault: doInit would drop the messages queued in eventQ and generalQ without
\* freeing them (net.c:176-178) and zero the control blocks of running timers
\* (timer.c:35).
NeverReinitialized ==
    [][ /\ portState' = "INITIALIZING" => recommendedState' = "INITIALIZING"
        /\ recommendedState' = "INITIALIZING" => recommendedState = "INITIALIZING" ]_vars

\* A port that is slave only or of clock class 255 is never master or passive,
\* although bmc() does recommend it (protocol.c:266-272) and the announce
\* receipt timeout makes every other port a master.
ListenOnlyNeverMaster == ListenOnly => portState \notin {"MASTER", "PASSIVE"}

\* A port of clock class below 128 is never slave (bmc.c:377-388).
GrandmasterNeverSlave == ClockClass < 128 => portState \notin Following

\* A port that follows or defers to a master watches for that master's
\* silence: its announce receipt timer runs or its expiry waits to be handled.
\* (A listening port that must not become master may have used it up.)
WatchesMaster ==
    portState \in Waiting \ (IF ListenOnly THEN {"LISTENING"} ELSE {})
        => "ANNOUNCE_RECEIPT" \in Alive

\* No timer outlives the states it belongs to: what toState starts on entering
\* it stops on leaving, along every path between states.
NoStrayTimer ==
    /\ "ANNOUNCE_RECEIPT" \in Alive => portState \in Waiting
    /\ Alive \cap {"SYNC_INTERVAL", "ANNOUNCE_INTERVAL"} # {} => portState = "MASTER"
    /\ "DELAYREQ_INTERVAL" \in Alive
          => DelayMechanism = "E2E" /\ portState \in Following
    /\ "PDELAYREQ_INTERVAL" \in Alive
          => DelayMechanism = "P2P" /\ portState \in Running \ {"LISTENING"}

\* The delay request timer never gets lost but by an interval of 0: a following
\* port (peer to peer: any but a listening one) has it running or expired.
DelayTimerKept ==
    ( /\ ~ZeroIntervals
      /\ portState \in (IF DelayMechanism = "E2E" THEN Following
                                               ELSE Running \ {"LISTENING"}) )
        => DelayTimer \in Alive

\* bmc() only runs when the table has a record, and so never reads a record
\* that was not received (bmc.c:424 reads slot 0 of an empty table).
DecisionHasRecord == "STATE_DECISION_EVENT" \in events => fm.count > 0

\* Two records never describe the same port: the search of addForeign, which
\* starts at best and goes round modulo count, misses no record.
DistinctMasters ==
    \A j, k \in 0..(fm.count - 1) :
        fm.records[j].src = fm.records[k].src => j = k

\* Once the pending decisions are taken, a port that follows a master has as
\* parent the port of the record that the BMC selected, even when the ring of
\* records has overwritten one.
ParentIsSelected ==
    portState \in Following /\ pc \in {"act", "receive"} =>
        /\ fm.best < fm.count
        /\ parent = fm.records[fm.best].src

\* The calibration flags are consumed in the state, and for the master, in
\* which they were raised: none survives into a later state.
EventsAreFresh ==
    /\ "MASTER_CLOCK_SELECTED" \in events =>
          portState = "UNCALIBRATED" /\ offsetFrom.tx = parent
    /\ "SYNCHRONIZATION_FAULT" \in events => portState = "SLAVE"

\* A slave handles messages only while it is calibrated to its parent: the
\* last offset was computed from the origin time stamp of that parent.
SlaveCalibrated ==
    portState = "SLAVE" /\ pc \in {"act", "receive"} => offsetFrom.tx = parent

\* A master that acts has itself as parent, so the grandmaster it announces
\* from its parent data set is itself, however it came to be master.
MasterIsOwnParent == portState = "MASTER" /\ pc # "recommend" => parent = Self

-----------------------------------------------------------------------------
(* The inductive invariant: the parts that the invariants above need.      *)

\* A state decision is pending only until the next decide step, and then the
\* port still is in a state that takes it.
DecisionSoonTaken ==
    "STATE_DECISION_EVENT" \in events =>
        pc \in {"delayreq", "decide"} /\ portState \in Running /\ fm.count > 0

\* Calibration flags are pending only from the message that raised them to the
\* next recommend step, with no state decision in between.
CalibrationSoonTaken ==
    events \cap {"MASTER_CLOCK_SELECTED", "SYNCHRONIZATION_FAULT"} # {} =>
        /\ pc \in {"delayreq", "decide", "recommend"}
        /\ recommendedState = "SLAVE"
        /\ "STATE_DECISION_EVENT" \notin events

\* Whatever is recommended, the port is there when it acts.
FollowsRecommendation ==
    /\ recommendedState \in {"INITIALIZING", "MASTER", "PASSIVE", "LISTENING", "SLAVE"}
    /\ recommendedState = "INITIALIZING" => portState \in {"INITIALIZING", "FAULTY"}
    /\ portState = "INITIALIZING" => recommendedState = "INITIALIZING"
    /\ pc \in {"act", "receive"} =>
          CASE recommendedState = "SLAVE"        -> portState \in Following
            [] recommendedState = "INITIALIZING" -> TRUE
            [] OTHER                             -> portState = recommendedState

\* The table of foreign masters: slots are filled in order, records below count
\* were received, and best lies among them unless a decision is pending.
TableInOrder ==
    /\ recommendedState = "INITIALIZING" => fm.count = 0 /\ fm.i = 0
    /\ fm.count < Capacity => fm.i = fm.count
    /\ \A j \in 0..(fm.count - 1) : fm.records[j] \in Announces
    /\ fm.count > 0 /\ "STATE_DECISION_EVENT" \notin events => fm.best < fm.count

\* What a recommendation says about the parent.
RecommendedParent ==
    /\ recommendedState = "SLAVE" /\ "STATE_DECISION_EVENT" \notin events =>
          fm.best < fm.count /\ parent = fm.records[fm.best].src
    /\ recommendedState = "MASTER" => parent = Self

\* What the clock class and slaveOnly exclude is not even recommended.
NotRecommended ==
    /\ ListenOnly => recommendedState \notin {"MASTER", "PASSIVE"}
    /\ ClockClass < 128 => recommendedState # "SLAVE"

\* A slave is calibrated to its parent unless it is about to leave.
CalibratedUntilLeaving ==
    portState = "SLAVE" /\ (pc # "recommend" \/ ( /\ recommendedState = "SLAVE"
                                                 /\ "MASTER_CLOCK_CHANGED" \notin events))
        => offsetFrom.tx = parent

IInv ==
    /\ TypeOK
    /\ DecisionSoonTaken
    /\ CalibrationSoonTaken
    /\ FollowsRecommendation
    /\ TableInOrder
    /\ DistinctMasters
    /\ RecommendedParent
    /\ NotRecommended
    /\ ListenOnlyNeverMaster
    /\ GrandmasterNeverSlave
    /\ MasterIsOwnParent
    /\ EventsAreFresh
    /\ CalibratedUntilLeaving
    /\ WatchesMaster
    /\ NoStrayTimer
    /\ DelayTimerKept

-----------------------------------------------------------------------------
(* Liveness.                                                               *)

\* A slave to which Sync messages keep coming keeps asking for the delay
\* (protocol.c:1237-1270).  With ZeroIntervals it does not: one interval of 0
\* and the timer that only its own expiry restarts is gone.
SlaveKeepsAsking ==
    <>[](portState = "SLAVE") /\ []<>(pc = "delayreq")
        => []<>(sent \cap {"DELAY_REQ", "PDELAY_REQ"} # {})

-----------------------------------------------------------------------------
(* What the documentation says and the code does not do.                   *)

\* A port that stays master sends Sync messages again and again: the timer of
\* constants.h:152 handles the interval between two of them.
MasterKeepsSending ==
    <>[](portState = "MASTER") => []<>("SYNC" \in sent)

\* An offset is the difference of time stamps of one and the same master's
\* Sync (servo.c:133-137).
OffsetOfOneMaster == offsetFrom.rx = offsetFrom.tx
=============================================================================
