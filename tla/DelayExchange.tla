---------------------------- MODULE DelayExchange ----------------------------
(***************************************************************************)
(* The measurement of the path delay: the requests of a port, the answers  *)
(* of others, and what updateDelay and updatePeerDelay of dep/servo.c make *)
(* of them (protocol.c, handleDelayReq to issuePDelayRespFollowUp).        *)
(*                                                                         *)
(* A time is the request it belongs to, which is named by its age: 0 for   *)
(* the last request, Oldest for any but the last LifeTime ones.  Messages  *)
(* may be lost, delivered twice or out of order, but do not outlive        *)
(* LifeTime requests.  The answers are those of other ports that run this  *)
(* code, and of one-step clocks.  The state machine of the port is any.    *)
(***************************************************************************)
EXTENDS Integers, FiniteSets

CONSTANTS
    Peers,      \* the ports that answer: masters, or peers on the link
    SeqMod,     \* the number of sequence ids, 2^16
    LifeTime,
    MaxMessages,    \* bound: answers are lost if more messages are on the way
    Cleared     \* a time that is 0

Oldest == LifeTime

ASSUME DelayAssumption ==
    /\ LifeTime \in Nat \ {0}
    /\ SeqMod \in Nat /\ SeqMod > LifeTime
    /\ MaxMessages \in Nat
    /\ Cleared \notin Peers
    /\ Cleared \notin 0..LifeTime /\ Cleared \notin [from : Peers, age : 0..LifeTime]

VARIABLES
    mechanism,      \* portDS.delayMechanism
    delayState,     \* portDS.portState
    master,         \* the parent
    sentSequenceId, \* sentDelayReqSequenceId or sentPDelayReqSequenceId
    sendTime,       \* timestamp_delayReqSend or pdelay_t1
    clockSet,       \* history: the clock has been set since that time
    stamped,        \* history: the last request had a valid time stamp
    tms,            \* whose Syncs Tms is from, Cleared if ofm_filt.n is 0
    waitingForPDelayRespFollowUp,
    answer,         \* pdelay_t2 and pdelay_t4
    wire,           \* the messages on the way
    sample          \* the times of the delay that the last step has computed

delayPort == <<mechanism, delayState, master, sentSequenceId>>
requestVars == <<sendTime, clockSet, stamped>>
answerVars == <<tms, waitingForPDelayRespFollowUp, answer>>
delayVars == <<delayPort, requestVars, answerVars, wire, sample>>

Ages == 0..Oldest

\* Defect: ages are not bounded.
OlderUnbounded(age) == age + 1

Older(age) == IF age = Oldest THEN Oldest ELSE age + 1
OlderTime(t) == IF t = Cleared THEN Cleared ELSE Older(t)
OlderAnswer(a) == IF a = Cleared THEN Cleared ELSE [a EXCEPT !.age = Older(@)]

\* "FAULTED" is SLAVE with a synchronization fault that is pending.
DelayRunning   == {"LISTENING", "PASSIVE", "MASTER", "UNCALIBRATED", "SLAVE", "FAULTED"}
DelayFollowing == {"UNCALIBRATED", "SLAVE", "FAULTED"}

-----------------------------------------------------------------------------
(* The clock and the state of the port.                                    *)

\* Defect: initClock goes on waiting for a follow-up.
InitClockWaiting ==
    /\ tms' = Cleared
    /\ answer' = Cleared
    /\ sendTime' = IF mechanism = "P2P" THEN Cleared ELSE sendTime
    /\ UNCHANGED waitingForPDelayRespFollowUp

\* initClock forgets the peer delay exchange that is under way, but not when
\* the last DelayReq was sent.
InitClock ==
    /\ tms' = Cleared
    /\ waitingForPDelayRespFollowUp' = FALSE
    /\ answer' = Cleared
    /\ sendTime' = IF mechanism = "P2P" THEN Cleared ELSE sendTime

\* The port follows m: it did not follow anyone, it followed another one, or
\* it is no longer synchronized.  Only the first calls initClock.
FollowMaster(m) ==
    /\ delayState \notin {"UNCALIBRATED", "SLAVE"} \/ m # master
    /\ delayState' = "UNCALIBRATED"
    /\ master' = m
    /\ IF delayState \in DelayFollowing THEN UNCHANGED <<answerVars, sendTime>>
                                        ELSE InitClock
    /\ sample' = Cleared
    /\ UNCHANGED <<mechanism, sentSequenceId, clockSet, stamped, wire>>

\* MASTER_CLOCK_SELECTED was raised by a Sync of this master.
Calibrated ==
    /\ delayState = "UNCALIBRATED"
    /\ tms = master
    /\ delayState' = "SLAVE"
    /\ sample' = Cleared
    /\ UNCHANGED <<mechanism, master, sentSequenceId, requestVars, answerVars, wire>>

LeaveFor(s) ==
    /\ s # delayState
    /\ delayState' = s
    /\ InitClock
    /\ sample' = Cleared
    /\ UNCHANGED <<mechanism, master, sentSequenceId, clockSet, stamped, wire>>

\* A Sync of the parent from which the offset could be computed.
SyncHandled ==
    /\ delayState \in {"UNCALIBRATED", "SLAVE"}
    /\ tms' = master
    /\ sample' = Cleared
    /\ UNCHANGED <<delayPort, requestVars, waitingForPDelayRespFollowUp, answer, wire>>

\* The offset is too large, so updateClock sets the clock, and a slave has a
\* synchronization fault, to be served before the next message is taken.
SetClock ==
    /\ delayState \in {"UNCALIBRATED", "SLAVE"}
    /\ delayState' = IF delayState = "SLAVE" THEN "FAULTED" ELSE delayState
    /\ InitClock
    /\ clockSet' = TRUE
    /\ sample' = Cleared
    /\ UNCHANGED <<mechanism, master, sentSequenceId, stamped, wire>>

-----------------------------------------------------------------------------
(* Requests.                                                               *)

Requesting == IF mechanism = "E2E" THEN delayState \in {"SLAVE", "FAULTED"}
              ELSE delayState \in DelayRunning \ {"LISTENING"}

\* What the next request does to all that is told by its age.
NextRequest ==
    /\ sentSequenceId' = (sentSequenceId + 1) % SeqMod
    /\ answer' = OlderAnswer(answer)
    /\ sample' = Cleared
    /\ UNCHANGED <<mechanism, delayState, master, tms, waitingForPDelayRespFollowUp>>

OlderWire == {[m EXCEPT !.age = @ + 1] : m \in {w \in wire : w.age + 1 < LifeTime}}

Request == [kind |-> "req", from |-> Cleared, age |-> 0, twoStep |-> TRUE]

\* issueDelayReq, issuePDelayReq.
IssueRequest ==
    /\ Requesting
    /\ NextRequest
    /\ sendTime' = 0 /\ clockSet' = FALSE /\ stamped' = TRUE
    /\ wire' = OlderWire \cup {Request}

\* The time stamp did not come in time: the old one remains.
IssueRequestUnstamped ==
    /\ Requesting
    /\ NextRequest
    /\ sendTime' = OlderTime(sendTime) /\ stamped' = FALSE
    /\ wire' = OlderWire \cup {Request}
    /\ UNCHANGED clockSet

\* netSend could not send, and says it did: the time it was called remains.
IssueRequestFails ==
    /\ Requesting
    /\ NextRequest
    /\ sendTime' = 0 /\ clockSet' = FALSE /\ stamped' = TRUE
    /\ wire' = OlderWire

-----------------------------------------------------------------------------
(* The ports that answer.                                                  *)

Answer(p, r, kind, twoStep) ==
    [kind |-> kind, from |-> p, age |-> r.age, twoStep |-> twoStep]

Put(messages) ==
    /\ wire' = wire \cup messages
    /\ Cardinality(wire') <= MaxMessages
    /\ sample' = Cleared
    /\ UNCHANGED <<delayPort, requestVars, answerVars>>

\* handleDelayReq of a master.
handleDelayReq(p, r) ==
    /\ mechanism = "E2E"
    /\ Put({Answer(p, r, "resp", FALSE)})

\* handlePDelayReq: the follow-up needs the time stamp of the answer.
handlePDelayReq(p, r) ==
    /\ mechanism = "P2P"
    /\ \/ Put({Answer(p, r, "resp", TRUE), Answer(p, r, "followup", TRUE)})
       \/ Put({Answer(p, r, "resp", TRUE)})

\* The answer could not be sent, but the time for its time stamp, the receipt
\* time of the request, is valid.
handlePDelayReqUnsent(p, r) ==
    /\ mechanism = "P2P"
    /\ Put({Answer(p, r, "followup", TRUE)})

\* A one-step clock, which this code is not.
OneStepAnswer(p, r) ==
    /\ mechanism = "P2P"
    /\ Put({Answer(p, r, "resp", FALSE)})

-----------------------------------------------------------------------------
(* Answers.                                                                *)

\* The sequence id that a message of this age carries.
SequenceId(m) == (sentSequenceId - 1 - m.age) % SeqMod

\* Defect: no look at the sequence id.
AnyRequest(m) == TRUE

\* The counter is 16 bits wide, but the difference an int: after the counter
\* has wrapped to 0 no answer matches.
IsCurrentRequest(m) == SequenceId(m) = sentSequenceId - 1

From(m) == [from |-> m.from, age |-> m.age]

Computed(t2, t3) == [t1 |-> sendTime, tms |-> tms, t2 |-> t2, t3 |-> t3]

TmsValid == tms # Cleared

handleDelayResp(m) ==
    /\ m.kind = "resp" /\ mechanism = "E2E"
    /\ delayState \in {"UNCALIBRATED", "SLAVE"}
    /\ m.from = master
    /\ IsCurrentRequest(m)
    /\ TmsValid
    /\ sample' = Computed(From(m), Cleared)
    /\ UNCHANGED <<delayPort, requestVars, answerVars, wire>>

handlePDelayRespOneStep(m) ==
    /\ m.kind = "resp" /\ mechanism = "P2P"
    /\ delayState \in {"MASTER", "SLAVE"}
    /\ IsCurrentRequest(m)
    /\ ~m.twoStep
    /\ waitingForPDelayRespFollowUp' = FALSE
    /\ answer' = From(m)
    /\ sample' = Computed(From(m), Cleared)
    /\ UNCHANGED <<delayPort, requestVars, tms, wire>>

handlePDelayResp(m) ==
    /\ m.kind = "resp" /\ mechanism = "P2P"
    /\ delayState \in {"MASTER", "SLAVE"}
    /\ IsCurrentRequest(m)
    /\ m.twoStep
    /\ waitingForPDelayRespFollowUp' = TRUE
    /\ answer' = From(m)
    /\ sample' = Cleared
    /\ UNCHANGED <<delayPort, requestVars, tms, wire>>

handlePDelayRespFollowUp(m) ==
    /\ m.kind = "followup" /\ mechanism = "P2P"
    /\ delayState \in {"MASTER", "SLAVE"}
    /\ waitingForPDelayRespFollowUp
    /\ IsCurrentRequest(m)
    /\ sample' = Computed(answer, From(m))
    /\ waitingForPDelayRespFollowUp' = FALSE
    /\ UNCHANGED <<delayPort, requestVars, tms, answer, wire>>

-----------------------------------------------------------------------------

\* The data sets of a port start zeroed, the counters at 0.
DelayInit ==
    /\ mechanism \in {"E2E", "P2P"}
    /\ delayState = "LISTENING"
    /\ master \in Peers
    /\ sentSequenceId = 0
    /\ sendTime = Cleared /\ clockSet = FALSE /\ stamped = FALSE
    /\ tms = Cleared
    /\ waitingForPDelayRespFollowUp = FALSE
    /\ answer = Cleared
    /\ wire = {}
    /\ sample = Cleared

Lose(m) ==
    /\ wire' = wire \ {m}
    /\ sample' = Cleared
    /\ UNCHANGED <<delayPort, requestVars, answerVars>>

HandleMessage(m) ==
    \/ handleDelayResp(m)
    \/ handlePDelayRespOneStep(m)
    \/ handlePDelayResp(m)
    \/ handlePDelayRespFollowUp(m)

AnswerOf(p, r) ==
    /\ r.kind = "req"
    /\ \/ handleDelayReq(p, r)
       \/ handlePDelayReq(p, r)
       \/ handlePDelayReqUnsent(p, r)
       \/ OneStepAnswer(p, r)

DelayNext ==
    \/ \E p \in Peers : FollowMaster(p)
    \/ \E s \in {"LISTENING", "MASTER", "PASSIVE"} : LeaveFor(s)
    \/ Calibrated \/ SyncHandled \/ SetClock
    \/ IssueRequest \/ IssueRequestUnstamped \/ IssueRequestFails
    \/ \E m \in wire : HandleMessage(m) \/ Lose(m) \/ \E p \in Peers : AnswerOf(p, m)

DelaySpec == DelayInit /\ [][DelayNext]_delayVars

-----------------------------------------------------------------------------
(* Properties.                                                             *)

DelayMessages ==
    [kind : {"req"}, from : {Cleared}, age : 0..(LifeTime - 1), twoStep : {TRUE}]
    \cup [kind : {"resp", "followup"}, from : Peers, age : 0..(LifeTime - 1),
          twoStep : BOOLEAN]
DelayAnswers  == [from : Peers, age : Ages]
Samples  == [t1 : Ages \cup {Cleared}, tms : Peers \cup {Cleared},
             t2 : DelayAnswers \cup {Cleared}, t3 : DelayAnswers \cup {Cleared}]

\* Every variable has its type.
DelayTypeOK ==
    /\ mechanism \in {"E2E", "P2P"}
    /\ delayState \in DelayRunning
    /\ master \in Peers
    /\ sentSequenceId \in 0..(SeqMod - 1)
    /\ sendTime \in Ages \cup {Cleared}
    /\ clockSet \in BOOLEAN /\ stamped \in BOOLEAN /\ waitingForPDelayRespFollowUp \in BOOLEAN
    /\ tms \in Peers \cup {Cleared}
    /\ answer \in DelayAnswers \cup {Cleared}
    /\ wire \subseteq DelayMessages
    /\ sample \in Samples \cup {Cleared}

\* The send time that a delay is computed from is a valid time stamp of the
\* request that was answered, on the present time scale.
SendTimeValid ==
    sample # Cleared => stamped /\ ~clockSet /\ sample.t1 = 0

\* An end-to-end delay is computed from the answer of the present master to the
\* last request, whatever else is on the way, from the send time of that
\* request unless it has none, and from Syncs of the same master unless the
\* port has yet to be calibrated (protocol.c:935-967, servo.c:189-207).
EndToEndSample ==
    mechanism = "E2E" /\ sample # Cleared =>
        /\ sample.t2 = [from |-> master, age |-> 0]
        /\ stamped => sample.t1 = 0
        /\ delayState = "SLAVE" => sample.tms = master

\* A peer delay is computed from answers that were received and a follow-up to
\* the last request.  Its send time is that of the last request, unless that
\* has none or the clock was initialized since.  The answer, though, can be of
\* an earlier request whose follow-up never came (protocol.c:1116-1211).
PeerSample ==
    mechanism = "P2P" /\ sample # Cleared =>
        /\ sample.t2 # Cleared
        /\ (IF sample.t3 = Cleared THEN sample.t2 ELSE sample.t3).age = 0
        /\ stamped => sample.t1 \in {0, Cleared}
=============================================================================
