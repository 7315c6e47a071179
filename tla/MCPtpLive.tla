----------------------------- MODULE MCPtpLive -----------------------------
(***************************************************************************)
(* The port in a network that changes once and for all: at some point      *)
(* every master falls silent, or all stop announcing, or one master alone  *)
(* goes on (steady), and from then on nothing fails.  Before that point    *)
(* anything may happen.                                                    *)
(***************************************************************************)
EXTENDS MCPtpPort

ASSUME SteadyAssumption == Primary \in Announces

VARIABLE ending    \* "none" yet, or how the network has changed

liveVars == <<vars, ending>>

Endings == {"silent", "unannounced", "steady"}

ReceiveSync ==
    \/ \E m \in Masters, seq \in SequenceIds : HandleTwoStepSync(m, seq)
    \/ \E m \in Masters, o \in Offsets : HandleOneStepSync(m, o)
    \/ \E m \in Masters, seq \in SequenceIds, o \in Offsets : HandleFollowUp(m, seq, o)

\* What may be received after the end: nothing, no Announce, or what the one
\* steady master sends.
ReceiveAtEnd ==
    \/ HandleNothing
    \/ HandlePassiveSync
    \/ ending = "unannounced" /\ ReceiveSync
    \/ ending = "steady" /\ HandleAnnounce(Primary)
    \/ ending = "steady" /\ HandleOneStepSync(Primary.src, "calibrated")

\* A steady master is heard before its announce receipt timer runs out.
InTime ==
    ending = "steady" /\ portState \in Following /\ parent = Primary.src
        => ~("ANNOUNCE_RECEIPT" \in expired' \ expired)

DoStateAtEnd ==
    /\ Decide \/ Recommend \/ DelayReq \/ ReceiveAtEnd \/ (Act /\ ~FailInitialization)
    /\ InTime
    /\ ending # "none" /\ UNCHANGED ending

ExpireAtEnd(t) == Expire(t) /\ InTime /\ ending # "none" /\ UNCHANGED ending

LiveInit == Init /\ ending = "none"

LiveNext ==
    \/ ending = "none" /\ Next /\ UNCHANGED ending
    \/ ending = "none" /\ ending' \in Endings /\ UNCHANGED vars
    \/ DoStateAtEnd
    \/ \E t \in Timers : ExpireAtEnd(t)

\* The thread runs, timers end, and what a steady master sends is handled.
LiveSpec ==
    /\ LiveInit /\ [][LiveNext]_liveVars
    /\ WF_liveVars(DoStateAtEnd)
    /\ \A t \in Timers : WF_liveVars(ExpireAtEnd(t))
    /\ SF_liveVars(ending = "steady" /\ HandleAnnounce(Primary) /\ UNCHANGED ending)
    /\ SF_liveVars(ending = "steady" /\ HandleOneStepSync(Primary.src, "calibrated")
                   /\ UNCHANGED ending)

GivenUp == portState = (IF ListenOnly THEN "LISTENING" ELSE "MASTER")

\* A port whose masters have all fallen silent, or have only stopped announcing
\* themselves while their Sync messages go on, gives them up: it becomes and
\* stays master, or listens when it must not be one (protocol.c:399-418).  Of
\* the masters that still send Sync it is assumed that they do not raise one
\* synchronization fault after the other: each time the way from SLAVE back to
\* UNCALIBRATED starts the announce receipt timer anew (protocol.c:187), and a
\* port that wavers like this never gives up.
MissingMasterGivenUp ==
    /\ ending = "silent" ~> []GivenUp
    /\ <>[]("SYNCHRONIZATION_FAULT" \notin events) => (ending = "unannounced" ~> []GivenUp)

\* A record of a master that is worse than the local clock.
WorseKnown == \E k \in 0..(fm.count - 1) : fm.records[k].src = Lesser.src

\* A steady master that is better than the local clock is followed in the end:
\* the port becomes and stays its slave, whatever stale records it holds of
\* other masters that are gone (protocol.c:402, bmc.c:407-425).  Without the
\* premise it may not: of the records the scan keeps the worst, and while that
\* is worse than the local clock a port that listens has no timer that runs and
\* would make it forget the record (protocol.c:399-418).
SteadyMasterFollowed ==
    ending = "steady" /\ ~WorseKnown ~> [](portState = "SLAVE" /\ parent = Primary.src)

\* A slave goes on asking for its delay (PtpPort, SlaveKeepsAsking) in a network
\* that never settles, as long as no interval of 0 is drawn.
SlaveGoesOnAsking ==
    ~ZeroIntervals /\ [](ending = "none") /\ Fairness => SlaveKeepsAsking
=============================================================================
