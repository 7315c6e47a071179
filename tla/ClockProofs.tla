----------------------------- MODULE ClockProofs -----------------------------
(***************************************************************************)
(* Proofs about MCClock: about the measurement of the path delay, for any  *)
(* number of peers, of sequence ids, and of requests that a message can    *)
(* survive; about the configuration of the address, for every number of    *)
(* tries after which the task gives up; and that the parts, side by side,  *)
(* keep what each of them promises.                                        *)
(***************************************************************************)
EXTENDS MCClock, ServoProofs, TelnetProofs

-----------------------------------------------------------------------------
(* The path delay: sequence ids.                                           *)

LEMMA ModBelow == \A x \in Int : x % SeqMod \in 0..(SeqMod - 1)
BY DelayAssumption

LEMMA ModSmall == \A x \in 0..(SeqMod - 1) : x % SeqMod = x
BY DelayAssumption

LEMMA ModNegative == \A x \in 1..(SeqMod - 1) : (-x) % SeqMod = SeqMod - x
BY DelayAssumption

\* A sequence id that is one less, modulo the range, belongs to the last request.
LEMMA ModSame ==
    ASSUME NEW s \in 0..(SeqMod - 1), NEW a \in 0..(LifeTime - 1),
           NEW x \in Int, x = s - 1 - a, x % SeqMod = s - 1
    PROVE  a = 0
<1>1. s > 0
  BY ModBelow, DelayAssumption
<1>2. CASE x >= 0
  <2>1. x \in 0..(SeqMod - 1)
    BY <1>2, DelayAssumption
  <2> QED
    BY <2>1, ModSmall, DelayAssumption
<1>3. CASE x < 0
  <2>1. PICK y \in 1..(SeqMod - 1) : x = -y
    <3>1. -x \in 1..(SeqMod - 1) /\ x = -(-x)
      BY <1>1, <1>3, DelayAssumption
    <3> QED
      BY <3>1
  <2>2. x % SeqMod = SeqMod - y
    BY <2>1, ModNegative
  <2> QED
    BY <2>1, <2>2, DelayAssumption
<1> QED
  BY <1>2, <1>3

\* Only an answer to the last request has the sequence id that is looked for,
\* as no message outlives as many requests as there are sequence ids.
LEMMA CurrentIsLast ==
    ASSUME sentSequenceId \in 0..(SeqMod - 1), NEW m, m.age \in 0..(LifeTime - 1),
           IsCurrentRequest(m)
    PROVE  m.age = 0
<1>1. sentSequenceId - 1 - m.age \in Int
  BY DelayAssumption
<1>2. (sentSequenceId - 1 - m.age) % SeqMod = sentSequenceId - 1
  BY DEF IsCurrentRequest, SequenceId
<1> QED
  BY <1>1, <1>2, ModSame

-----------------------------------------------------------------------------
(* The inductive invariant.                                                *)

\* The send time is that of the last request, if that had a time stamp.
SendTimeKnown ==
    stamped => \/ sendTime = 0
               \/ mechanism = "P2P" /\ sendTime = Cleared

\* A slave has the times of a Sync of its master.
SlaveCalibrated == delayState = "SLAVE" => tms = master

\* A follow-up is awaited only after an answer.
AnswerThere == waitingForPDelayRespFollowUp => answer # Cleared

\* The type invariant, in parts.
DelayPortTypes ==
    /\ mechanism \in {"E2E", "P2P"}
    /\ delayState \in DelayRunning
    /\ master \in Peers
    /\ sentSequenceId \in 0..(SeqMod - 1)
    /\ sendTime \in Ages \cup {Cleared}
    /\ tms \in Peers \cup {Cleared}
    /\ answer \in DelayAnswers \cup {Cleared}

DelayFlags ==
    clockSet \in BOOLEAN /\ stamped \in BOOLEAN /\ waitingForPDelayRespFollowUp \in BOOLEAN

DelayInv ==
    /\ DelayTypeOK
    /\ SendTimeKnown
    /\ SlaveCalibrated
    /\ AnswerThere
    /\ EndToEndSample
    /\ PeerSample

LEMMA DelayTypesSplit ==
    DelayTypeOK <=> DelayPortTypes /\ DelayFlags /\ wire \subseteq DelayMessages
                    /\ sample \in Samples \cup {Cleared}
BY Zenon DEF DelayTypeOK, DelayPortTypes, DelayFlags

\* The steps that neither look at a message nor put one on the way.
PortStep ==
    \/ \E p \in Peers : FollowMaster(p)
    \/ \E s \in {"LISTENING", "MASTER", "PASSIVE"} : LeaveFor(s)
    \/ Calibrated \/ SyncHandled \/ SetClock

RequestStep == IssueRequest \/ IssueRequestUnstamped \/ IssueRequestFails

WireStep == \E m \in wire : Lose(m) \/ \E p \in Peers : AnswerOf(p, m)

HandleStep == \E m \in wire : HandleMessage(m)

LEMMA DelaySteps == DelayNext => PortStep \/ RequestStep \/ WireStep \/ HandleStep
BY DEF DelayNext, PortStep, RequestStep, WireStep, HandleStep

LEMMA DelayInitial == DelayInit => DelayInv
<1> SUFFICES ASSUME DelayInit PROVE DelayInv
  OBVIOUS
<1>1. DelayPortTypes
  BY DelayAssumption DEF DelayInit, DelayPortTypes, DelayRunning
<1>2. DelayFlags /\ SendTimeKnown /\ AnswerThere
  BY Zenon DEF DelayInit, DelayFlags, SendTimeKnown, AnswerThere
<1>3. wire \subseteq DelayMessages /\ sample = Cleared
  BY DEF DelayInit
<1>4. SlaveCalibrated /\ EndToEndSample /\ PeerSample
  BY <1>3 DEF DelayInit, SlaveCalibrated, EndToEndSample, PeerSample
<1> QED
  BY <1>1, <1>2, <1>3, <1>4, DelayTypesSplit DEF DelayInv

-----------------------------------------------------------------------------
(* Types.                                                                  *)

\* What a handler may assume of the message that it takes.
LEMMA FromTypes ==
    ASSUME wire \subseteq DelayMessages, NEW m \in wire
    PROVE  /\ m.age \in 0..(LifeTime - 1)
           /\ m.kind # "req" => From(m) \in DelayAnswers
<1>1. m.age \in 0..(LifeTime - 1) /\ (m.kind # "req" => m.from \in Peers)
  BY DEF DelayMessages
<1>2. m.age \in Ages
  BY <1>1, DelayAssumption DEF Ages, Oldest
<1> QED
  BY <1>1, <1>2 DEF From, DelayAnswers

LEMMA DelayPortTypesKept == DelayTypeOK /\ DelayNext => DelayPortTypes'
<1> SUFFICES ASSUME DelayTypeOK, DelayNext PROVE DelayPortTypes'
  OBVIOUS
<1>1. DelayPortTypes /\ wire \subseteq DelayMessages
  BY DelayTypesSplit
<1> USE <1>1, DelayAssumption DEF DelayPortTypes, delayPort, requestVars, answerVars,
        DelayRunning, Ages, Oldest
<1>2. CASE PortStep
  BY <1>2 DEF PortStep, FollowMaster, LeaveFor, Calibrated, SyncHandled, SetClock, InitClock
<1>3. CASE RequestStep
  <2>1. NextRequest /\ (sendTime' = 0 \/ sendTime' = OlderTime(sendTime))
    BY <1>3 DEF RequestStep, IssueRequest, IssueRequestUnstamped, IssueRequestFails
  <2>2. sentSequenceId' \in 0..(SeqMod - 1)
    BY <2>1, ModBelow DEF NextRequest
  <2>3. sendTime' \in Ages \cup {Cleared}
    BY <2>1 DEF OlderTime, Older
  <2>4. answer' \in DelayAnswers \cup {Cleared}
    BY <2>1 DEF NextRequest, OlderAnswer, Older, DelayAnswers
  <2> QED
    BY <2>1, <2>2, <2>3, <2>4 DEF NextRequest
<1>4. CASE WireStep
  BY <1>4 DEF WireStep, Lose, AnswerOf, handleDelayReq, handlePDelayReq, handlePDelayReqUnsent,
     OneStepAnswer, Put
<1>5. ASSUME NEW m \in wire, HandleMessage(m) PROVE DelayPortTypes'
  <2>1. m.kind # "req" => From(m) \in DelayAnswers
    BY FromTypes
  <2> QED
    BY <1>5, <2>1 DEF HandleMessage, handleDelayResp, handlePDelayRespOneStep,
       handlePDelayResp, handlePDelayRespFollowUp
<1> QED
  BY <1>2, <1>3, <1>4, <1>5, DelaySteps DEF HandleStep

LEMMA WireTypesKept == DelayTypeOK /\ DelayNext => wire' \subseteq DelayMessages
<1> SUFFICES ASSUME DelayTypeOK, DelayNext PROVE wire' \subseteq DelayMessages
  OBVIOUS
<1>1. wire \subseteq DelayMessages
  BY DelayTypesSplit
<1>2. CASE PortStep
  BY <1>1, <1>2 DEF PortStep, FollowMaster, LeaveFor, Calibrated, SyncHandled, SetClock
<1>3. CASE RequestStep
  <2>1. OlderWire \subseteq DelayMessages
    <3>1. ASSUME NEW w \in wire, w.age + 1 < LifeTime
          PROVE  [w EXCEPT !.age = @ + 1] \in DelayMessages
      <4>1. w.age \in 0..(LifeTime - 1)
        BY <1>1 DEF DelayMessages
      <4>2. w.age + 1 \in 0..(LifeTime - 1)
        BY <3>1, <4>1, DelayAssumption
      <4> QED
        BY <1>1, <4>2 DEF DelayMessages
    <3> QED
      BY <3>1 DEF OlderWire
  <2>2. Request \in DelayMessages
    BY DelayAssumption DEF Request, DelayMessages
  <2> QED
    BY <1>3, <2>1, <2>2 DEF RequestStep, IssueRequest, IssueRequestUnstamped, IssueRequestFails
<1>4. ASSUME NEW m \in wire, Lose(m) PROVE wire' \subseteq DelayMessages
  BY <1>1, <1>4 DEF Lose
<1>5. ASSUME NEW m \in wire, NEW p \in Peers, AnswerOf(p, m)
      PROVE  wire' \subseteq DelayMessages
  <2>1. /\ Answer(p, m, "resp", FALSE) \in DelayMessages
        /\ Answer(p, m, "resp", TRUE) \in DelayMessages
        /\ Answer(p, m, "followup", TRUE) \in DelayMessages
    BY <1>1 DEF Answer, DelayMessages
  <2> QED
    BY <1>1, <1>5, <2>1 DEF AnswerOf, handleDelayReq, handlePDelayReq, handlePDelayReqUnsent,
       OneStepAnswer, Put
<1>6. CASE HandleStep
  BY <1>1, <1>6 DEF HandleStep, HandleMessage, handleDelayResp, handlePDelayRespOneStep,
     handlePDelayResp, handlePDelayRespFollowUp
<1> QED
  BY <1>2, <1>3, <1>4, <1>5, <1>6, DelaySteps DEF WireStep

\* Only an answer leaves a sample.
LEMMA NoSample == PortStep \/ RequestStep \/ WireStep => sample' = Cleared
BY DEF PortStep, FollowMaster, LeaveFor, Calibrated, SyncHandled, SetClock, RequestStep,
   IssueRequest, IssueRequestUnstamped, IssueRequestFails, NextRequest, WireStep, Lose,
   AnswerOf, handleDelayReq, handlePDelayReq, handlePDelayReqUnsent, OneStepAnswer, Put

LEMMA SampleTypesKept == DelayTypeOK /\ DelayNext => sample' \in Samples \cup {Cleared}
<1> SUFFICES ASSUME DelayTypeOK, NEW m \in wire, HandleMessage(m)
             PROVE  sample' \in Samples \cup {Cleared}
  BY DelaySteps, NoSample DEF HandleStep
<1>1. DelayPortTypes /\ wire \subseteq DelayMessages
  BY DelayTypesSplit
<1>2. m.kind # "req" => From(m) \in DelayAnswers
  BY <1>1, FromTypes
<1>3. ASSUME NEW t2 \in DelayAnswers \cup {Cleared}, NEW t3 \in DelayAnswers \cup {Cleared}
      PROVE  Computed(t2, t3) \in Samples
  BY <1>1 DEF Computed, Samples, DelayPortTypes
<1> QED
  BY <1>1, <1>2, <1>3 DEF HandleMessage, handleDelayResp, handlePDelayRespOneStep,
     handlePDelayResp, handlePDelayRespFollowUp, DelayPortTypes

LEMMA DelayFlagsKept == DelayTypeOK /\ DelayNext => DelayFlags'
<1> SUFFICES ASSUME DelayTypeOK, DelayNext PROVE DelayFlags'
  OBVIOUS
<1>1. DelayFlags
  BY DelayTypesSplit
<1> USE DEF DelayFlags, delayPort, requestVars, answerVars
<1>2. CASE PortStep
  <2>1. clockSet' \in BOOLEAN
    BY <1>1, <1>2 DEF PortStep, FollowMaster, LeaveFor, Calibrated, SyncHandled, SetClock
  <2>2. stamped' \in BOOLEAN
    BY <1>1, <1>2 DEF PortStep, FollowMaster, LeaveFor, Calibrated, SyncHandled, SetClock
  <2>3. waitingForPDelayRespFollowUp' \in BOOLEAN
    BY <1>1, <1>2 DEF PortStep, FollowMaster, LeaveFor, Calibrated, SyncHandled, SetClock, InitClock
  <2> QED
    BY <2>1, <2>2, <2>3
<1>3. CASE RequestStep
  BY <1>1, <1>3 DEF RequestStep, IssueRequest, IssueRequestUnstamped, IssueRequestFails, NextRequest
<1>4. CASE WireStep
  BY <1>1, <1>4 DEF WireStep, Lose, AnswerOf, handleDelayReq, handlePDelayReq,
     handlePDelayReqUnsent, OneStepAnswer, Put
<1>5. CASE HandleStep
  BY <1>1, <1>5 DEF HandleStep, HandleMessage, handleDelayResp, handlePDelayRespOneStep,
     handlePDelayResp, handlePDelayRespFollowUp
<1> QED
  BY <1>2, <1>3, <1>4, <1>5, DelaySteps

LEMMA DelayTypesKept == DelayTypeOK /\ DelayNext => DelayTypeOK'
<1> SUFFICES ASSUME DelayTypeOK, DelayNext PROVE DelayTypeOK'
  OBVIOUS
<1>1. DelayPortTypes' /\ DelayFlags' /\ wire' \subseteq DelayMessages
      /\ sample' \in Samples \cup {Cleared}
  BY DelayPortTypesKept, DelayFlagsKept, WireTypesKept, SampleTypesKept
<1> QED
  BY <1>1, Zenon DEF DelayTypeOK, DelayPortTypes, DelayFlags, DelayMessages, Samples, DelayAnswers

-----------------------------------------------------------------------------
(* What the port remembers of the exchange.                                *)

LEMMA SendTimeKept == DelayInv /\ DelayNext => SendTimeKnown'
<1> SUFFICES ASSUME DelayInv, DelayNext PROVE SendTimeKnown'
  OBVIOUS
<1> USE DEF SendTimeKnown, delayPort, requestVars, answerVars
<1>1. SendTimeKnown
  BY DEF DelayInv
<1>2. CASE PortStep
  BY <1>1, <1>2 DEF PortStep, FollowMaster, LeaveFor, Calibrated, SyncHandled, SetClock, InitClock
<1>3. CASE IssueRequest \/ IssueRequestFails
  BY <1>3 DEF IssueRequest, IssueRequestFails
<1>4. CASE IssueRequestUnstamped
  <2>1. ~stamped'
    BY <1>4, Zenon DEF IssueRequestUnstamped
  <2> QED
    BY <2>1
<1>5. CASE WireStep
  BY <1>1, <1>5 DEF WireStep, Lose, AnswerOf, handleDelayReq, handlePDelayReq,
     handlePDelayReqUnsent, OneStepAnswer, Put
<1>6. CASE HandleStep
  BY <1>1, <1>6 DEF HandleStep, HandleMessage, handleDelayResp, handlePDelayRespOneStep,
     handlePDelayResp, handlePDelayRespFollowUp
<1> QED
  BY <1>2, <1>3, <1>4, <1>5, <1>6, DelaySteps DEF RequestStep

LEMMA SlaveKept == DelayInv /\ DelayNext => SlaveCalibrated'
<1> SUFFICES ASSUME DelayInv, DelayNext PROVE SlaveCalibrated'
  OBVIOUS
<1> USE DEF SlaveCalibrated, delayPort, answerVars
<1>1. SlaveCalibrated /\ delayState \in DelayRunning
  BY DEF DelayInv, DelayTypeOK
<1>2. CASE PortStep
  BY <1>1, <1>2 DEF PortStep, FollowMaster, LeaveFor, Calibrated, SyncHandled, SetClock
<1>3. CASE RequestStep
  BY <1>1, <1>3 DEF RequestStep, IssueRequest, IssueRequestUnstamped, IssueRequestFails, NextRequest
<1>4. CASE WireStep
  BY <1>1, <1>4 DEF WireStep, Lose, AnswerOf, handleDelayReq, handlePDelayReq,
     handlePDelayReqUnsent, OneStepAnswer, Put
<1>5. CASE HandleStep
  BY <1>1, <1>5 DEF HandleStep, HandleMessage, handleDelayResp, handlePDelayRespOneStep,
     handlePDelayResp, handlePDelayRespFollowUp
<1> QED
  BY <1>2, <1>3, <1>4, <1>5, DelaySteps

\* An answer is a record, and Cleared is none.
LEMMA AnswersAreNotCleared == Cleared \notin DelayAnswers
BY DelayAssumption DEF DelayAnswers, Ages, Oldest

LEMMA AnswerKept == DelayInv /\ DelayNext => AnswerThere'
<1> SUFFICES ASSUME DelayInv, DelayNext PROVE AnswerThere'
  OBVIOUS
<1>1. AnswerThere /\ DelayPortTypes /\ wire \subseteq DelayMessages
  BY DelayTypesSplit DEF DelayInv
<1> USE DEF AnswerThere, delayPort, answerVars
<1>2. CASE PortStep
  <2>1. \/ UNCHANGED <<waitingForPDelayRespFollowUp, answer>>
        \/ waitingForPDelayRespFollowUp' = FALSE
    BY <1>2 DEF PortStep, FollowMaster, LeaveFor, Calibrated, SyncHandled, SetClock, InitClock
  <2> QED
    BY <1>1, <2>1
<1>3. CASE RequestStep
  <2>1. NextRequest
    BY <1>3 DEF RequestStep, IssueRequest, IssueRequestUnstamped, IssueRequestFails
  <2>2. answer # Cleared => OlderAnswer(answer) \in DelayAnswers
    BY <1>1, DelayAssumption
       DEF DelayPortTypes, OlderAnswer, Older, DelayAnswers, Ages, Oldest
  <2> QED
    BY <1>1, <2>1, <2>2, AnswersAreNotCleared DEF NextRequest
<1>4. CASE WireStep
  BY <1>1, <1>4 DEF WireStep, Lose, AnswerOf, handleDelayReq, handlePDelayReq,
     handlePDelayReqUnsent, OneStepAnswer, Put
<1>5. ASSUME NEW m \in wire, HandleMessage(m) PROVE AnswerThere'
  <2>1. m.kind # "req" => From(m) # Cleared
    BY <1>1, FromTypes, AnswersAreNotCleared
  <2> QED
    BY <1>1, <1>5, <2>1 DEF HandleMessage, handleDelayResp, handlePDelayRespOneStep,
       handlePDelayResp, handlePDelayRespFollowUp
<1> QED
  BY <1>2, <1>3, <1>4, <1>5, DelaySteps DEF HandleStep

-----------------------------------------------------------------------------
(* The samples.                                                            *)

LEMMA EndToEndKept == DelayInv /\ DelayNext => EndToEndSample'
<1> SUFFICES ASSUME DelayInv, NEW m \in wire, HandleMessage(m), mechanism' = "E2E"
             PROVE  EndToEndSample'
  BY DelaySteps, NoSample DEF HandleStep, EndToEndSample
<1>1. handleDelayResp(m)
  BY DEF HandleMessage, handlePDelayRespOneStep, handlePDelayResp, handlePDelayRespFollowUp,
     delayPort
<1>2. m.age = 0
  <2>1. sentSequenceId \in 0..(SeqMod - 1) /\ m.age \in 0..(LifeTime - 1)
    BY FromTypes DEF DelayInv, DelayTypeOK
  <2> QED
    BY <1>1, <2>1, CurrentIsLast DEF handleDelayResp
<1>3. UNCHANGED <<mechanism, delayState, master, sendTime, stamped, tms>>
  BY <1>1 DEF handleDelayResp, delayPort, requestVars, answerVars
<1>4. sample' = [t1 |-> sendTime, tms |-> tms,
                 t2 |-> [from |-> master, age |-> 0], t3 |-> Cleared]
  BY <1>1, <1>2 DEF handleDelayResp, Computed, From
<1>5. stamped => sendTime = 0
  BY <1>3 DEF DelayInv, SendTimeKnown
<1> QED
  BY <1>3, <1>4, <1>5 DEF EndToEndSample, DelayInv, SlaveCalibrated

LEMMA PeerKept == DelayInv /\ DelayNext => PeerSample'
<1> SUFFICES ASSUME DelayInv, NEW m \in wire, HandleMessage(m), mechanism' = "P2P"
             PROVE  PeerSample'
  BY DelaySteps, NoSample DEF HandleStep, PeerSample
<1>1. sentSequenceId \in 0..(SeqMod - 1) /\ m.age \in 0..(LifeTime - 1)
  BY FromTypes DEF DelayInv, DelayTypeOK
<1>2. IsCurrentRequest(m) => m.age = 0
  BY <1>1, CurrentIsLast
<1>3. m.kind # "req" => From(m) # Cleared
  BY FromTypes, AnswersAreNotCleared DEF DelayInv, DelayTypeOK
<1>4. UNCHANGED <<sendTime, stamped, mechanism>>
  BY DEF HandleMessage, handleDelayResp, handlePDelayRespOneStep, handlePDelayResp,
     handlePDelayRespFollowUp, delayPort, requestVars
<1>5. stamped => sendTime \in {0, Cleared}
  BY DEF DelayInv, SendTimeKnown
<1>6. CASE handlePDelayRespOneStep(m)
  <2>1. sample' = [t1 |-> sendTime, tms |-> tms, t2 |-> From(m), t3 |-> Cleared]
    BY <1>6 DEF handlePDelayRespOneStep, Computed
  <2>2. From(m) # Cleared /\ From(m).age = 0
    BY <1>2, <1>3, <1>6 DEF handlePDelayRespOneStep, From
  <2> QED
    BY <1>4, <1>5, <2>1, <2>2 DEF PeerSample
<1>7. CASE handlePDelayRespFollowUp(m)
  <2>1. sample' = [t1 |-> sendTime, tms |-> tms, t2 |-> answer, t3 |-> From(m)]
    BY <1>7 DEF handlePDelayRespFollowUp, Computed
  <2>2. From(m) # Cleared /\ From(m).age = 0
    BY <1>2, <1>3, <1>7 DEF handlePDelayRespFollowUp, From
  <2>3. answer # Cleared
    BY <1>7 DEF handlePDelayRespFollowUp, DelayInv, AnswerThere
  <2> QED
    BY <1>4, <1>5, <2>1, <2>2, <2>3 DEF PeerSample
<1>8. CASE handlePDelayResp(m)
  BY <1>8 DEF handlePDelayResp, PeerSample
<1>9. ~handleDelayResp(m)
  BY DEF handleDelayResp, delayPort
<1> QED
  BY <1>6, <1>7, <1>8, <1>9 DEF HandleMessage

-----------------------------------------------------------------------------
(* The theorems about the path delay.                                      *)

\* The inductive invariant holds in every behaviour (protocol.c:897-1211).
THEOREM DelayInvariance == DelaySpec => []DelayInv
<1>1. DelayInv /\ [DelayNext]_delayVars => DelayInv'
  <2>1. DelayInv /\ DelayNext => DelayInv'
    BY DelayTypesKept, SendTimeKept, SlaveKept, AnswerKept, EndToEndKept, PeerKept DEF DelayInv
  <2>2. ASSUME DelayInv, UNCHANGED delayVars PROVE DelayInv'
    <3>1. /\ mechanism' = mechanism /\ delayState' = delayState /\ master' = master
          /\ sentSequenceId' = sentSequenceId /\ sendTime' = sendTime
          /\ clockSet' = clockSet /\ stamped' = stamped /\ tms' = tms
          /\ waitingForPDelayRespFollowUp' = waitingForPDelayRespFollowUp
          /\ answer' = answer /\ wire' = wire /\ sample' = sample
      BY <2>2 DEF delayVars, delayPort, requestVars, answerVars
    <3>2. DelayTypeOK'
      <4>1. /\ mechanism' \in {"E2E", "P2P"} /\ delayState' \in DelayRunning
            /\ master' \in Peers /\ sentSequenceId' \in 0..(SeqMod - 1)
            /\ sendTime' \in Ages \cup {Cleared} /\ tms' \in Peers \cup {Cleared}
        BY <2>2, <3>1, Zenon DEF DelayInv, DelayTypeOK
      <4>2. clockSet' \in BOOLEAN /\ stamped' \in BOOLEAN
            /\ waitingForPDelayRespFollowUp' \in BOOLEAN
        BY <2>2, <3>1, Zenon DEF DelayInv, DelayTypeOK
      <4>3. /\ answer' \in DelayAnswers \cup {Cleared} /\ wire' \subseteq DelayMessages
            /\ sample' \in Samples \cup {Cleared}
        BY <2>2, <3>1, Zenon DEF DelayInv, DelayTypeOK
      <4> QED
        BY <4>1, <4>2, <4>3, Zenon DEF DelayTypeOK
    <3>3. SendTimeKnown' /\ SlaveCalibrated' /\ AnswerThere'
      BY <2>2, <3>1, Zenon DEF DelayInv, SendTimeKnown, SlaveCalibrated, AnswerThere
    <3>4. EndToEndSample'
      BY <2>2, <3>1 DEF DelayInv, EndToEndSample
    <3>5. PeerSample'
      BY <2>2, <3>1 DEF DelayInv, PeerSample
    <3> QED
      BY <3>2, <3>3, <3>4, <3>5 DEF DelayInv
  <2> QED
    BY <2>1, <2>2
<1> QED
  BY DelayInitial, <1>1, PTL DEF DelaySpec

\* Whatever is lost, late or delivered twice, an end-to-end delay is computed
\* from the answer of the present master to the last request, as long as no
\* message outlives 2^16 requests.
THEOREM EndToEndMatched == DelaySpec => []EndToEndSample
<1>1. DelayInv => EndToEndSample
  BY DEF DelayInv
<1> QED
  BY <1>1, DelayInvariance, PTL

\* A peer delay ends with an answer to the last request, and is computed from
\* times that were received.
THEOREM PeerMatched == DelaySpec => []PeerSample
<1>1. DelayInv => PeerSample
  BY DEF DelayInv
<1> QED
  BY <1>1, DelayInvariance, PTL

-----------------------------------------------------------------------------
(* The address.                                                            *)

\* The task looks at the number of tries before it lets a message time out, and
\* a timer of the lease that has ended is not started again.
TriesCounted ==
    /\ request = "old" => tries <= MaxDhcpTries
    /\ dhcpState = "renewing" => "t1" \notin leaseTimers

\* The client has nothing to ask for while the interface has an address, other
\* than to keep it, and is off once the task has stopped it.
ClientIdle ==
    /\ address # "none" => dhcpState \in {"off", "bound", "renewing", "rebinding"}
    /\ task \in {"set", "done"} => dhcpState = "off"
    /\ task = "start" => dhcpState = "off" /\ address = "none" /\ "unstarted" \notin seen
    /\ "unstarted" \in seen => dhcpState = "off"

\* As long as no lease has been refused: there is an address with the timers and
\* states of a lease, and none once the task has decided to give up.  A lease
\* that comes after the task's last look stops it from giving up, and the second
\* request by ARP does not end before that look.
LeaseHeld ==
    /\ \A timer \in LeaseTimers : timer \in leaseTimers => address # "none"
    /\ dhcpState \in {"bound", "renewing", "rebinding"} => address = "leased"
    /\ dhcpState = "off" /\ address # "none" => task = "done"
    /\ ptpAddress # "none" => address # "none"
    /\ task = "tries" /\ address # "none" => tries <= 1 /\ request # "old"
    /\ task \in {"stop", "set"} => address = "none"
    /\ task = "stop" /\ dhcpState = "checking" /\ request = "old" => tries <= 1

\* Only a refusal sets the interface down, and a lease sets it up again.
UpUnlessRefused ==
    /\ address = "leased" => ifUp
    /\ "refused" \notin seen => ifUp

DhcpInv ==
    /\ DhcpTypeOK
    /\ TriesCounted
    /\ ClientIdle
    /\ "leaseRefused" \notin seen => LeaseHeld
    /\ UpUnlessRefused

\* The type invariant, in a part for each of the provers.
DhcpValues ==
    /\ dhcpState \in {"off", "selecting", "requesting", "checking", "backing_off",
                      "bound", "renewing", "rebinding"}
    /\ tries \in 0..(MaxDhcpTries + 1)
    /\ request \in {"off", "new", "old"}
    /\ address \in {"none", "leased", "static"}
    /\ ptpAddress \in {"none", "leased", "static"}
    /\ task \in {"start", "address", "tries", "assigned", "stop", "set", "done"}

DhcpSets == leaseTimers \subseteq LeaseTimers /\ seen \subseteq Events

LEMMA DhcpInitial == DhcpInit => DhcpInv
<1> SUFFICES ASSUME DhcpInit PROVE DhcpInv
  OBVIOUS
<1>1. DhcpValues
  BY DhcpAssumption DEF DhcpInit, DhcpValues
<1>2. DhcpSets
  BY DEF DhcpInit, DhcpSets
<1>3. ifUp \in BOOLEAN /\ UpUnlessRefused
  BY Zenon DEF DhcpInit, UpUnlessRefused
<1>4. TriesCounted /\ ClientIdle /\ LeaseHeld
  BY DEF DhcpInit, TriesCounted, ClientIdle, LeaseHeld
<1> QED
  BY <1>1, <1>2, <1>3, <1>4 DEF DhcpInv, DhcpTypeOK, DhcpValues, DhcpSets

\* What the client does, whoever calls it, leaves the values within their types.
LEMMA DhcpValuesKept == DhcpInv /\ [DhcpNext]_dhcpVars => DhcpValues'
<1> SUFFICES ASSUME DhcpInv, [DhcpNext]_dhcpVars PROVE DhcpValues'
  OBVIOUS
<1>1. DhcpValues /\ TriesCounted /\ ClientIdle
  BY DEF DhcpInv, DhcpTypeOK, DhcpValues
<1> USE DhcpAssumption, <1>1 DEF DhcpValues, dhcpClient, netif
<1>2. CASE dhcp_recv \/ dhcp_arp_reply
  <2>1. CASE Offer \/ OfferWithoutServer
    <3>1. /\ dhcpState = "selecting" /\ UNCHANGED <<netif, task, ptpAddress>>
          /\ \/ dhcp_select
             \/ UNCHANGED <<dhcpState, tries>> /\ request' = "off"
      BY <2>1 DEF Offer, OfferWithoutServer
    <3> QED
      BY <3>1 DEF dhcp_select, Send, Enter
  <2>2. CASE Ack
    BY <2>2 DEF Ack, dhcp_check, dhcp_bind, Enter, LeaseTimers
  <2>3. CASE Nak
    <3>1. /\ dhcpState # "selecting" /\ dhcp_discover
          /\ address' = "none" /\ UNCHANGED <<task, ptpAddress>>
      BY <2>3 DEF Nak, TakeDown
    <3> QED
      BY <3>1 DEF dhcp_discover, Send, Enter
  <2>4. CASE dhcp_arp_reply
    BY <2>4 DEF dhcp_arp_reply, dhcp_decline, Send, Enter
  <2> QED
    BY <1>2, <2>1, <2>2, <2>3, <2>4 DEF dhcp_recv
<1>3. CASE dhcp_timeout
  BY <1>3 DEF dhcp_timeout, SendAgain, dhcp_select, dhcp_discover, dhcp_renew, dhcp_rebind,
     dhcp_check, dhcp_bind, Send, Enter, TriesCounted
<1>4. CASE dhcp_t1_timeout \/ dhcp_t2_timeout
  BY <1>4 DEF dhcp_t1_timeout, dhcp_t2_timeout, LeaseTimeout, dhcp_renew, dhcp_rebind, Send,
     Enter, TriesCounted
<1>5. CASE TaskStep
  <2>1. CASE TaskStart
    <3>1. dhcpState = "off"
      BY <2>1 DEF TaskStart, ClientIdle
    <3>2. task' = "address" /\ dhcp_discover /\ UNCHANGED <<netif, ptpAddress>>
      BY <2>1 DEF TaskStart
    <3> QED
      BY <3>1, <3>2 DEF dhcp_discover, Send, Enter
  <2>2. CASE TaskStartFails \/ TaskEndsWithLease \/ TaskStop
    <3>1. task' \in {"address", "done", "set"} /\ dhcp_stop /\ UNCHANGED <<netif, ptpAddress>>
      BY <2>2 DEF TaskStartFails, TaskEndsWithLease, TaskStop
    <3> QED
      BY <3>1 DEF dhcp_stop
  <2>3. CASE TaskLooks \/ TaskGivesUp \/ TaskSetStatic
    BY <2>3 DEF TaskLooks, TaskGivesUp, TaskSetStatic
  <2>4. CASE TaskGoesOn
    BY <2>4 DEF TaskGoesOn
  <2> QED
    BY <1>5, <2>1, <2>2, <2>3, <2>4 DEF TaskStep
<1>6. CASE PtpFindsAddress \/ UNCHANGED dhcpVars
  BY <1>6 DEF PtpFindsAddress, dhcpVars
<1> QED
  BY <1>2, <1>3, <1>4, <1>5, <1>6 DEF DhcpNext, ClientTimer

LEMMA DhcpSetsKept == DhcpInv /\ [DhcpNext]_dhcpVars => DhcpSets'
<1> SUFFICES ASSUME DhcpInv, [DhcpNext]_dhcpVars PROVE DhcpSets'
  OBVIOUS
<1>1. leaseTimers \subseteq LeaseTimers /\ seen \subseteq Events
  BY DEF DhcpInv, DhcpTypeOK
<1>2. leaseTimers' \subseteq LeaseTimers
  BY <1>1 DEF DhcpNext, dhcp_recv, ClientTimer, Offer, OfferWithoutServer, Ack, Nak,
     dhcp_arp_reply, dhcp_bind, dhcp_timeout, SendAgain, dhcp_t1_timeout, dhcp_t2_timeout,
     LeaseTimeout, TaskStep, TaskStart, TaskStartFails, TaskLooks, TaskGoesOn, TaskGivesUp,
     TaskEndsWithLease, TaskStop, TaskSetStatic, PtpFindsAddress, dhcpVars
<1>3. seen' \subseteq Events
  BY <1>1 DEF Events, DhcpNext, dhcp_recv, ClientTimer, Offer, OfferWithoutServer, Ack, Nak,
     dhcp_arp_reply, dhcp_timeout, SendAgain, dhcp_t1_timeout, dhcp_t2_timeout,
     LeaseTimeout, TaskStep, TaskStart, TaskStartFails, TaskLooks, TaskGoesOn, TaskGivesUp,
     TaskEndsWithLease, TaskStop, TaskSetStatic, PtpFindsAddress, dhcpVars
<1> QED
  BY <1>2, <1>3 DEF DhcpSets

\* The client and the task, which stop each other.
LEMMA DhcpOrder == DhcpInv /\ [DhcpNext]_dhcpVars => (TriesCounted /\ ClientIdle)'
<1> SUFFICES ASSUME DhcpInv, [DhcpNext]_dhcpVars PROVE (TriesCounted /\ ClientIdle)'
  OBVIOUS
<1>1. DhcpValues /\ DhcpSets /\ TriesCounted /\ ClientIdle
  BY DEF DhcpInv, DhcpTypeOK, DhcpValues, DhcpSets
<1> USE DhcpAssumption, <1>1 DEF DhcpValues, DhcpSets, TriesCounted, ClientIdle, dhcpClient, netif
<1>2. CASE dhcp_recv \/ dhcp_arp_reply
  <2>1. CASE Offer \/ OfferWithoutServer
    BY <2>1 DEF Offer, OfferWithoutServer, dhcp_select, Send, Enter
  <2>2. CASE Ack
    <3>1. \/ /\ dhcpState = "requesting" /\ dhcpState' = "checking" /\ tries' = 1
             /\ UNCHANGED address
          \/ dhcpState' = "bound" /\ request' = "off" /\ dhcpState \in {"renewing", "rebinding"}
      BY <2>2 DEF Ack, dhcp_check, dhcp_bind, Enter
    <3>2. UNCHANGED <<task, seen>>
      BY <2>2 DEF Ack
    <3> QED
      BY <3>1, <3>2
  <2>3. CASE Nak
    BY <2>3 DEF Nak, dhcp_discover, Send, Enter, TakeDown
  <2>4. CASE dhcp_arp_reply
    BY <2>4 DEF dhcp_arp_reply, dhcp_decline, Send, Enter
  <2> QED
    BY <1>2, <2>1, <2>2, <2>3, <2>4 DEF dhcp_recv
<1>3. CASE dhcp_timeout
  BY <1>3 DEF dhcp_timeout, SendAgain, dhcp_select, dhcp_discover, dhcp_renew, dhcp_rebind,
     dhcp_check, dhcp_bind, Send, Enter
<1>4. CASE dhcp_t1_timeout \/ dhcp_t2_timeout
  BY <1>4 DEF dhcp_t1_timeout, dhcp_t2_timeout, LeaseTimeout, dhcp_renew, dhcp_rebind, Send,
     Enter
<1>5. CASE TaskStep
  BY <1>5 DEF TaskStep, TaskStart, TaskStartFails, TaskLooks, TaskGoesOn, TaskGivesUp,
     TaskEndsWithLease, TaskStop, TaskSetStatic, dhcp_discover, dhcp_stop, Send, Enter
<1>6. CASE PtpFindsAddress \/ UNCHANGED dhcpVars
  BY <1>6 DEF PtpFindsAddress, dhcpVars
<1> QED
  BY <1>2, <1>3, <1>4, <1>5, <1>6 DEF DhcpNext, ClientTimer

\* A lease is held by every step but a refusal of it.
LEMMA DhcpLease ==
    DhcpInv /\ [DhcpNext]_dhcpVars /\ "leaseRefused" \notin seen' =>
        "leaseRefused" \notin seen /\ LeaseHeld'
<1> SUFFICES ASSUME DhcpInv, [DhcpNext]_dhcpVars, "leaseRefused" \notin seen'
             PROVE  "leaseRefused" \notin seen /\ LeaseHeld'
  OBVIOUS
<1>1. "leaseRefused" \notin seen /\ ~(Nak /\ address # "none")
  BY DEF DhcpNext, dhcp_recv, ClientTimer, Offer, OfferWithoutServer, Ack, Nak,
     dhcp_arp_reply, dhcp_timeout, SendAgain, dhcp_t1_timeout, dhcp_t2_timeout,
     LeaseTimeout, TaskStep, TaskStart, TaskStartFails, TaskLooks, TaskGoesOn, TaskGivesUp,
     TaskEndsWithLease, TaskStop, TaskSetStatic, PtpFindsAddress, dhcpVars
<1>2. DhcpValues /\ DhcpSets /\ TriesCounted /\ ClientIdle /\ LeaseHeld
  BY <1>1 DEF DhcpInv, DhcpTypeOK, DhcpValues, DhcpSets
<1> USE DhcpAssumption, <1>2 DEF DhcpValues, TriesCounted, ClientIdle, LeaseHeld, dhcpClient,
        netif
<1>3. CASE dhcp_recv
  <2>1. CASE Offer \/ OfferWithoutServer
    BY <2>1 DEF Offer, OfferWithoutServer, dhcp_select, Send, Enter
  <2>2. CASE Ack /\ dhcpState = "requesting"
    <3>1. /\ dhcpState' = "checking" /\ tries' = 1
          /\ UNCHANGED <<leaseTimers, address, task, ptpAddress>>
      BY <2>2 DEF Ack, dhcp_check, Enter
    <3> QED
      BY <1>1, <2>2, <3>1
  <2>3. CASE Ack /\ dhcpState # "requesting"
    <3>1. address = "leased" /\ dhcp_bind /\ UNCHANGED <<task, ptpAddress>>
      BY <2>3 DEF Ack
    <3> QED
      BY <1>1, <3>1 DEF dhcp_bind
  <2>4. CASE Nak
    BY <1>1, <2>4 DEF Nak, dhcp_discover, Send, Enter, TakeDown
  <2> QED
    BY <1>3, <2>1, <2>2, <2>3, <2>4 DEF dhcp_recv
<1>4. CASE dhcp_arp_reply
  BY <1>4 DEF dhcp_arp_reply, dhcp_decline, Send, Enter
<1>5. CASE dhcp_timeout
  <2>1. CASE SendAgain
    BY <1>5, <2>1 DEF dhcp_timeout, SendAgain, dhcp_select, dhcp_discover, dhcp_renew,
       dhcp_rebind, dhcp_check, Send, Enter
  <2>2. CASE dhcpState = "checking" /\ tries > 1 /\ dhcp_bind
    <3>1. request = "old" /\ UNCHANGED <<task, ptpAddress>>
      BY <1>5 DEF dhcp_timeout
    <3>2. task \notin {"stop", "set", "done", "start"}
      BY <2>2, <3>1
    <3>3. /\ dhcpState' = "bound" /\ tries' = 0 /\ request' = "off"
          /\ address' = "leased"
      BY <2>2 DEF dhcp_bind
    <3> QED
      BY <1>1, <3>1, <3>2, <3>3
  <2> QED
    BY <1>5, <2>1, <2>2 DEF dhcp_timeout
<1>6. CASE dhcp_t1_timeout \/ dhcp_t2_timeout
  <2>1. PICK timer \in LeaseTimers, state \in {"renewing", "rebinding"} :
            LeaseTimeout(timer, Send(state)) /\ (timer = "t1" <=> state = "renewing")
    BY <1>6 DEF dhcp_t1_timeout, dhcp_t2_timeout, dhcp_renew, dhcp_rebind, LeaseTimers
  <2>2. CASE dhcpState \in {"requesting", "bound", "renewing"}
    <3>1. /\ timer \in leaseTimers /\ leaseTimers' = leaseTimers \ {timer}
          /\ UNCHANGED <<address, task, ptpAddress>>
          /\ dhcpState' = state /\ request' = "new"
          /\ tries' = (IF state = dhcpState THEN tries ELSE 0) + 1
      BY <2>1, <2>2 DEF LeaseTimeout, Send, Enter
    <3>2. address = "leased" /\ task \notin {"stop", "set", "done", "start"}
      BY <2>2, <3>1
    <3>3. ~(dhcpState = "renewing" /\ state = "renewing")
      BY <2>1, <3>1
    <3>4. dhcpState # state
      BY <2>2, <3>3
    <3>5. tries' = 1
      BY <3>1, <3>4
    <3> QED
      BY <1>1, <3>1, <3>2, <3>5
  <2>3. CASE dhcpState \notin {"requesting", "bound", "renewing"}
    BY <2>1, <2>3 DEF LeaseTimeout
  <2> QED
    BY <2>2, <2>3
<1>7. CASE TaskStep
  <2>1. CASE TaskStart
    BY <2>1 DEF TaskStart, dhcp_discover, Send, Enter
  <2>2. CASE TaskStartFails \/ TaskEndsWithLease \/ TaskStop
    BY <2>2 DEF TaskStartFails, TaskEndsWithLease, TaskStop, dhcp_stop
  <2>3. CASE TaskLooks \/ TaskSetStatic
    BY <2>3 DEF TaskLooks, TaskSetStatic
  <2>4. CASE TaskGivesUp
    <3>1. CASE tries > MaxDhcpTries
      BY <2>4, <3>1 DEF TaskGivesUp
    <3>2. CASE "unstarted" \in seen
      BY <2>4, <3>2 DEF TaskGivesUp
    <3> QED
      BY <2>4, <3>1, <3>2 DEF TaskGivesUp
  <2>5. CASE TaskGoesOn
    BY <2>5 DEF TaskGoesOn
  <2> QED
    BY <1>7, <2>1, <2>2, <2>3, <2>4, <2>5 DEF TaskStep
<1>8. CASE PtpFindsAddress \/ UNCHANGED dhcpVars
  BY <1>8 DEF PtpFindsAddress, dhcpVars
<1> QED
  BY <1>1, <1>3, <1>4, <1>5, <1>6, <1>7, <1>8 DEF DhcpNext, ClientTimer

\* A step either binds the interface, takes it down, or leaves it as it is but
\* for the static address; what has happened is only added to, but for offers.
LEMMA DhcpUp == DhcpInv /\ [DhcpNext]_dhcpVars => UpUnlessRefused' /\ ifUp' \in BOOLEAN
<1> SUFFICES ASSUME DhcpInv, [DhcpNext]_dhcpVars PROVE UpUnlessRefused' /\ ifUp' \in BOOLEAN
  OBVIOUS
<1>1. UpUnlessRefused /\ ifUp \in BOOLEAN
  BY DEF DhcpInv, DhcpTypeOK
<1>2. CASE dhcp_bind
  BY <1>2, Zenon DEF dhcp_bind, UpUnlessRefused
<1>3. CASE Nak
  <2>1. "refused" \in seen' /\ address' = "none"
    BY <1>3 DEF Nak, TakeDown
  <2>2. ifUp' \in BOOLEAN
    BY <1>3, Zenon DEF Nak, TakeDown
  <2> QED
    BY <2>1, <2>2 DEF UpUnlessRefused
<1>4. CASE ~dhcp_bind /\ ~Nak
  <2>1. UNCHANGED ifUp /\ (address' = address \/ address' = "static")
    BY <1>4 DEF DhcpNext, dhcp_recv, ClientTimer, Offer, OfferWithoutServer, Ack,
       dhcp_arp_reply, dhcp_timeout, SendAgain, dhcp_t1_timeout, dhcp_t2_timeout,
       LeaseTimeout, TaskStep, TaskStart, TaskStartFails, TaskLooks, TaskGoesOn, TaskGivesUp,
       TaskEndsWithLease, TaskStop, TaskSetStatic, PtpFindsAddress, dhcpVars, netif
  <2>2. "refused" \in seen' \/ "refused" \notin seen
    BY <1>4 DEF DhcpNext, dhcp_recv, ClientTimer, Offer, OfferWithoutServer, Ack,
       dhcp_arp_reply, dhcp_timeout, SendAgain, dhcp_t1_timeout, dhcp_t2_timeout,
       LeaseTimeout, TaskStep, TaskStart, TaskStartFails, TaskLooks, TaskGoesOn, TaskGivesUp,
       TaskEndsWithLease, TaskStop, TaskSetStatic, PtpFindsAddress, dhcpVars
  <2> QED
    BY <1>1, <2>1, <2>2 DEF UpUnlessRefused
<1> QED
  BY <1>2, <1>3, <1>4

\* The inductive invariant holds in every behaviour (netconf.c:150-207,
\* dhcp.c:224-457).
THEOREM DhcpInvariance == DhcpSpec => []DhcpInv
<1>1. DhcpInv /\ [DhcpNext]_dhcpVars => DhcpInv'
  <2> SUFFICES ASSUME DhcpInv, [DhcpNext]_dhcpVars PROVE DhcpInv'
    OBVIOUS
  <2>1. DhcpValues' /\ DhcpSets' /\ ifUp' \in BOOLEAN
    BY DhcpValuesKept, DhcpSetsKept, DhcpUp
  <2>2. DhcpTypeOK'
    BY <2>1 DEF DhcpTypeOK, DhcpValues, DhcpSets
  <2>3. (TriesCounted /\ ClientIdle)' /\ UpUnlessRefused'
    BY DhcpOrder, DhcpUp
  <2>4. "leaseRefused" \notin seen' => LeaseHeld'
    BY DhcpLease
  <2> QED
    BY <2>2, <2>3, <2>4 DEF DhcpInv
<1> QED
  BY DhcpInitial, <1>1, PTL DEF DhcpSpec

\* An interface with a lease is up, and one with the static address is up
\* unless a server has refused what it had offered.
THEOREM UpWhenConfigured == DhcpSpec => []ConfiguredIsUpUnlessRefused
<1>1. DhcpInv => ConfiguredIsUpUnlessRefused
  BY DEF DhcpInv, UpUnlessRefused, ConfiguredIsUpUnlessRefused
<1> QED
  BY <1>1, DhcpInvariance, PTL

\* The interface keeps the address that the PTP thread has found, whatever comes
\* while the task gives up, as long as no server refuses to renew a lease.
THEOREM AddressIsKept == DhcpSpec => AddressRemains
<1> DEFINE Kept == ptpAddress # "none" /\ address' # address => "leaseRefused" \in seen'
<1>1. DhcpInv /\ [DhcpNext]_dhcpVars => [Kept]_dhcpVars
  <2> SUFFICES ASSUME DhcpInv, DhcpNext, "leaseRefused" \notin seen', ptpAddress # "none"
               PROVE  address' = address
    BY DEF dhcpVars
  <2>1. ClientIdle /\ LeaseHeld /\ LeaseHeld'
    BY DhcpLease DEF DhcpInv
  <2>2. address # "none" /\ ptpAddress' # "none"
    BY <2>1 DEF LeaseHeld, DhcpNext, dhcp_recv, ClientTimer, Offer, OfferWithoutServer, Ack,
       Nak, dhcp_arp_reply, dhcp_timeout, SendAgain, dhcp_t1_timeout, dhcp_t2_timeout,
       LeaseTimeout, TaskStep, TaskStart, TaskStartFails, TaskLooks, TaskGoesOn, TaskGivesUp,
       TaskEndsWithLease, TaskStop, TaskSetStatic, PtpFindsAddress
  <2>3. address' # "none"
    BY <2>1, <2>2 DEF LeaseHeld
  <2>4. CASE dhcp_recv \/ dhcp_timeout
    BY <2>1, <2>2, <2>3, <2>4 DEF dhcp_recv, Offer, OfferWithoutServer, Ack, Nak, dhcp_timeout,
       SendAgain, dhcp_bind, TakeDown, netif, ClientIdle, LeaseHeld
  <2>5. CASE dhcp_arp_reply \/ dhcp_t1_timeout \/ dhcp_t2_timeout \/ PtpFindsAddress
    BY <2>5 DEF dhcp_arp_reply, dhcp_t1_timeout, dhcp_t2_timeout, LeaseTimeout,
       PtpFindsAddress, netif
  <2>6. CASE TaskStep
    BY <2>1, <2>2, <2>6 DEF TaskStep, TaskStart, TaskStartFails, TaskLooks, TaskGoesOn,
       TaskGivesUp, TaskEndsWithLease, TaskStop, TaskSetStatic, netif, LeaseHeld
  <2> QED
    BY <2>4, <2>5, <2>6 DEF DhcpNext, ClientTimer
<1> QED
  BY <1>1, DhcpInvariance, PTL DEF DhcpSpec, AddressRemains

-----------------------------------------------------------------------------
(* The parts side by side.                                                 *)

LEMMA ClockStarts == ClockInit => DelayInit /\ ServoInit /\ DhcpInit /\ TelnetInit
BY DEF ClockInit, Start

\* A step of one part is none of the others.
LEMMA ClockSteps ==
    [ClockNext]_clockVars =>
        /\ [DelayNext]_delayVars /\ [ServoNext]_servoVars
        /\ [DhcpNext]_dhcpVars /\ [TelnetNext]_telVars
<1>1. OnlyDelay /\ DelayNext =>
          DelayNext /\ UNCHANGED servoVars /\ UNCHANGED dhcpVars /\ UNCHANGED telVars
  BY DEF OnlyDelay
<1>2. OnlyServo /\ ServoNext =>
          ServoNext /\ UNCHANGED delayVars /\ UNCHANGED dhcpVars /\ UNCHANGED telVars
  BY DEF OnlyServo
<1>3. OnlyDhcp /\ DhcpNext =>
          DhcpNext /\ UNCHANGED delayVars /\ UNCHANGED servoVars /\ UNCHANGED telVars
  BY DEF OnlyDhcp
<1>4. OnlyConsole /\ TelnetNext =>
          TelnetNext /\ UNCHANGED delayVars /\ UNCHANGED servoVars /\ UNCHANGED dhcpVars
  BY DEF OnlyConsole
<1>5. UNCHANGED clockVars => /\ UNCHANGED delayVars /\ UNCHANGED servoVars
                            /\ UNCHANGED dhcpVars /\ UNCHANGED telVars
  BY DEF clockVars
<1> QED
  BY <1>1, <1>2, <1>3, <1>4, <1>5 DEF ClockNext

\* Every behaviour of the four parts side by side is one of each part.
THEOREM ClockImplementsParts ==
    ClockSpec => DelaySpec /\ ServoSpec /\ DhcpSpec /\ TelnetSpec
BY ClockStarts, ClockSteps, PTL DEF ClockSpec, DelaySpec, ServoSpec, DhcpSpec, TelnetSpec

\* The types are those that each module states, whatever the constants.
THEOREM ClockTypeCorrect == ClockSpec => []ClockTypeOK
<1>1. DelayInv => DelayTypeOK
  BY DEF DelayInv
<1>2. DhcpInv => DhcpTypeOK
  BY DEF DhcpInv
<1>3. DelayTypeOK /\ ServoTypeOK /\ DhcpTypeOK /\ TelnetTypeOK => ClockTypeOK
  BY DEF ClockTypeOK
<1> QED
  BY <1>1, <1>2, <1>3, ClockImplementsParts, DelayInvariance, ServoTypeCorrect,
     DhcpInvariance, TelnetTypeCorrect, PTL

\* What the parts promise holds of them side by side: the samples of a delay
\* belong together (protocol.c:935-967, 1116-1211), the filters stay within
\* their samples and the clock is set a few times only (servo.c:59-115, 248-303),
\* a configured interface is up
\* (netconf.c:150-207) and the console shows what it will execute
\* (telnet.c:155-214, 564-611).
THEOREM ClockSafe ==
    ClockSpec => [](/\ EndToEndSample /\ PeerSample
                    /\ FilterWithinSamples /\ SetAtMostThrice
                    /\ ConfiguredIsUpUnlessRefused /\ ConsoleFaithful)
BY ClockImplementsParts, EndToEndMatched, PeerMatched, FiltersWithinSamples,
   SetsBounded, UpWhenConfigured, ConsoleIsFaithful, PTL
=============================================================================
