--------------------------- MODULE PtpPortProofs ---------------------------
(***************************************************************************)
(* Proofs about the port for every set of foreign masters, every capacity  *)
(* of the table, both delay mechanisms and every local clock.              *)
(***************************************************************************)
EXTENDS PtpPort, TLAPS

-----------------------------------------------------------------------------
(* The table of foreign masters.                                           *)

\* Slot arithmetic: i advances round the ring and stays a slot.
LEMMA NextSlot ==
    ASSUME NEW i \in Slots
    PROVE  /\ (i + 1) % Capacity \in Slots
           /\ i + 1 < Capacity => (i + 1) % Capacity = i + 1
BY CapacityAssumption DEF Slots

\* With best among the records, the search of addForeign visits them all.
LEMMA SearchVisitsAll ==
    ASSUME NEW f \in ForeignMasterDS, f.best < f.count
    PROVE  Visited(f) = 0..(f.count - 1)
<1>1. f.best \in Nat /\ f.count \in Nat /\ f.count > 0
  BY CapacityAssumption DEF ForeignMasterDS, Slots
<1>2. f.best % f.count = f.best
  BY <1>1
<1>3. Visited(f) = {f.best} \cup ((0..(f.count - 1)) \ {f.best})
  BY <1>1, <1>2 DEF Visited
<1>4. f.best \in 0..(f.count - 1)
  BY <1>1
<1> QED
  BY <1>3, <1>4

\* What holds of a table in use, and what addForeign preserves of it.
InUse(f) ==
    /\ f \in ForeignMasterDS
    /\ f.count < Capacity => f.i = f.count
    /\ \A j \in 0..(f.count - 1) : f.records[j] \in Announces
    /\ \A j, k \in 0..(f.count - 1) :
          f.records[j].src = f.records[k].src => j = k

\* A record that is refreshed or added leaves the records in use distinct and of
\* masters.
LEMMA AddForeignInUse ==
    ASSUME NEW f, InUse(f), f.count > 0 => f.best < f.count, NEW d \in Announces
    PROVE  InUse(addForeign(f, d)) /\ addForeign(f, d).count > 0
<1> DEFINE g == addForeign(f, d)
<1>1. /\ f.count \in 0..Capacity /\ f.i \in Slots /\ f.best \in Slots
      /\ f.records \in [Slots -> Announces \cup {ZeroRecord}]
      /\ f = [count |-> f.count, i |-> f.i, best |-> f.best, records |-> f.records]
  BY DEF InUse, ForeignMasterDS
<1>2. Visited(f) = 0..(f.count - 1)
  <2>1. CASE f.count = 0
    BY <2>1 DEF Visited
  <2>2. CASE f.count > 0
    BY <2>2, SearchVisitsAll DEF InUse
  <2> QED
    BY <1>1, <2>1, <2>2, CapacityAssumption
<1>3. CASE Known(f, d) # {}
  <2> DEFINE s == CHOOSE s \in Known(f, d) : TRUE
  <2>1. s \in Known(f, d)
    BY <1>3
  <2>2. s \in 0..(f.count - 1) /\ s \in Slots /\ f.records[s].src = d.src
    BY <1>1, <1>2, <2>1, CapacityAssumption DEF Known, Slots
  <2>3. g = [f EXCEPT !.records[s] = d]
    BY <1>3 DEF addForeign
  <2> HIDE DEF s, g
  <2>4. /\ g.count = f.count /\ g.i = f.i /\ g.best = f.best
        /\ g.records = [f.records EXCEPT ![s] = d]
        /\ g \in ForeignMasterDS
    BY <1>1, <2>2, <2>3 DEF ForeignMasterDS
  <2>5. \A j \in 0..(g.count - 1) :
          g.records[j] \in Announces /\ g.records[j].src = f.records[j].src
    BY <1>1, <2>2, <2>4, CapacityAssumption DEF InUse, Slots
  <2>6. g.count > 0
    BY <1>1, <2>2, <2>4
  <2> QED
    BY <2>4, <2>5, <2>6 DEF InUse, g
<1>4. CASE Known(f, d) = {}
  <2>1. g = [f EXCEPT !.count = IF f.count < Capacity THEN f.count + 1 ELSE f.count,
                      !.records[f.i] = d,
                      !.i = (f.i + 1) % Capacity]
    BY <1>1, <1>4 DEF addForeign
  <2>2. \A j \in 0..(f.count - 1) : f.records[j].src # d.src
    BY <1>2, <1>4 DEF Known
  <2> HIDE DEF g
  <2>3. /\ g.count = (IF f.count < Capacity THEN f.count + 1 ELSE f.count)
        /\ g.i = (f.i + 1) % Capacity /\ g.best = f.best
        /\ g.records = [f.records EXCEPT ![f.i] = d]
    BY <1>1, <2>1
  <2>4. g \in ForeignMasterDS
    <3>1. g.count \in 0..Capacity
      BY <1>1, <2>3, CapacityAssumption
    <3>2. g.i \in Slots
      BY <1>1, <2>3, NextSlot
    <3>3. g.records \in [Slots -> Announces \cup {ZeroRecord}]
      BY <1>1, <2>3
    <3>4. g = [count |-> g.count, i |-> g.i, best |-> g.best, records |-> g.records]
      BY <1>1, <2>1
    <3> QED
      BY <1>1, <2>3, <3>1, <3>2, <3>3, <3>4 DEF ForeignMasterDS
  <2>5. g.count < Capacity => g.i = g.count
    BY <1>1, <2>3, NextSlot, CapacityAssumption DEF InUse, Slots
  <2>6. \A j \in 0..(g.count - 1) :
          /\ j \in Slots
          /\ j = f.i => g.records[j] = d
          /\ j # f.i => j \in 0..(f.count - 1) /\ g.records[j] = f.records[j]
    BY <1>1, <2>3, CapacityAssumption DEF InUse, Slots
  <2>7. \A j \in 0..(g.count - 1) : g.records[j] \in Announces
    BY <2>6 DEF InUse
  <2>8. \A j, k \in 0..(g.count - 1) :
          g.records[j].src = g.records[k].src => j = k
    BY <2>2, <2>6 DEF InUse
  <2>9. g.count > 0
    BY <1>1, <2>3, CapacityAssumption
  <2> QED
    BY <2>4, <2>5, <2>7, <2>8, <2>9 DEF InUse, g
<1> QED
  BY <1>3, <1>4

-----------------------------------------------------------------------------
(* Timers.                                                                 *)

\* Of the timers that should run afterwards, only a refused one may be missing.
LEMMA TimersSet ==
    ASSUME armed \subseteq Timers, expired \subseteq Timers,
           NEW stop, NEW start \in SUBSET Timers, SetTimers(stop, start)
    PROVE  /\ armed' \subseteq Timers /\ expired' \subseteq Timers
           /\ Alive' \subseteq (Alive \ stop) \cup start
           /\ (Alive \ stop) \cup start \subseteq Alive' \cup Refusable
BY DEF SetTimers, Alive

\* What is refused is the delay request timer, and only when intervals of 0 are
\* drawn.
LEMMA Refused ==
    /\ "ANNOUNCE_RECEIPT" \notin Refusable
    /\ ~ZeroIntervals => Refusable = {}
BY DEF Refusable, DelayTimer

TimersMatch == WatchesMaster /\ NoStrayTimer /\ DelayTimerKept

\* toState leaves the timers as the new state needs them.
LEMMA ToStateTimers ==
    ASSUME TypeOK, TimersMatch, NEW s \in States, ToState(s),
           s = "SLAVE" => portState = "UNCALIBRATED"
    PROVE  /\ TimersMatch'
           /\ armed' \subseteq Timers /\ expired' \subseteq Timers
           /\ portState' = s
           /\ waitingForFollowUp' \in BOOLEAN
           /\ UNCHANGED <<recvSync, offsetFrom>>
<1>1. TimersOfEntering(s) \in SUBSET Timers
  BY PortAssumption DEF TimersOfEntering, Timers, DelayTimer, PeerDelayTimer
<1>2. /\ armed' \subseteq Timers /\ expired' \subseteq Timers
      /\ Alive' \subseteq (Alive \ TimersOfLeaving(s)) \cup TimersOfEntering(s)
      /\ (Alive \ TimersOfLeaving(s)) \cup TimersOfEntering(s)
            \subseteq Alive' \cup Refusable
  BY <1>1, TimersSet DEF TypeOK, ToState
<1>3. portState' = s /\ portState \in States
  BY DEF ToState, TypeOK
<1>4. WatchesMaster'
  BY <1>2, <1>3, Refused, PortAssumption DEF TimersMatch, WatchesMaster, TimersOfEntering,
     TimersOfLeaving, StaysFollowing, States, Waiting, Following, DelayTimer, PeerDelayTimer
<1>5. NoStrayTimer'
  BY <1>2, <1>3, PortAssumption DEF TimersMatch, NoStrayTimer, TimersOfEntering,
     TimersOfLeaving, StaysFollowing, States, Waiting, Running, Following, DelayTimer, PeerDelayTimer
<1>6. DelayTimerKept'
  BY <1>2, <1>3, Refused, PortAssumption DEF TimersMatch, DelayTimerKept, TimersOfEntering,
     TimersOfLeaving, StaysFollowing, States, Waiting, Running, Following, DelayTimer, PeerDelayTimer
<1>7. waitingForFollowUp' \in BOOLEAN /\ UNCHANGED <<recvSync, offsetFrom>>
  BY DEF ToState, InitClockOnLeaving
<1> QED
  BY <1>2, <1>3, <1>4, <1>5, <1>6, <1>7 DEF TimersMatch

-----------------------------------------------------------------------------
(* The inductive invariant.                                                *)

\* The invariant holds when ptpdStartup has returned (startup.c:10-27).
THEOREM InitEstablishes == Init => IInv
<1> SUFFICES ASSUME Init PROVE IInv
  OBVIOUS
<1>1. NoForeignMasters \in ForeignMasterDS
  BY CapacityAssumption DEF NoForeignMasters, ForeignMasterDS, Slots
<1>2. TypeOK
  BY <1>1, SequenceAssumption DEF Init, TypeOK, States, Events, Timers
<1>3. TableInOrder /\ DistinctMasters
  BY DEF Init, NoForeignMasters, TableInOrder, DistinctMasters
<1>4. WatchesMaster /\ NoStrayTimer /\ DelayTimerKept
  BY DEF Init, WatchesMaster, NoStrayTimer, DelayTimerKept, Alive, Waiting, Running, Following
<1> QED
  BY <1>2, <1>3, <1>4 DEF Init, IInv, DecisionSoonTaken, CalibrationSoonTaken,
     FollowsRecommendation, RecommendedParent, NotRecommended, ListenOnlyNeverMaster,
     GrandmasterNeverSlave, MasterIsOwnParent, EventsAreFresh, CalibratedUntilLeaving, Following

\* What the decisions and the flags rest on, without the types and the timers.
Control ==
    /\ DecisionSoonTaken /\ CalibrationSoonTaken /\ FollowsRecommendation
    /\ RecommendedParent /\ NotRecommended
    /\ ListenOnlyNeverMaster /\ GrandmasterNeverSlave /\ MasterIsOwnParent
    /\ EventsAreFresh /\ CalibratedUntilLeaving

Table == TableInOrder /\ DistinctMasters

\* A step that leaves the port state and the timers alone keeps them matched.
LEMMA SameTimers ==
    ASSUME TimersMatch, UNCHANGED <<portState, armed, expired>>
    PROVE  TimersMatch'
BY DEF TimersMatch, WatchesMaster, NoStrayTimer, DelayTimerKept, Alive

\* A step that restarts timers which the port state has anyway does, too.
LEMMA RestartedTimers ==
    ASSUME TypeOK, TimersMatch, NEW t \in Timers, t \in Alive,
           SetTimers({}, {t}), UNCHANGED portState
    PROVE  TimersMatch' /\ armed' \subseteq Timers /\ expired' \subseteq Timers
<1>1. /\ armed' \subseteq Timers /\ expired' \subseteq Timers
      /\ Alive' \subseteq Alive /\ Alive \subseteq Alive' \cup Refusable
  BY TimersSet DEF TypeOK
<1> QED
  BY <1>1, Refused DEF TimersMatch, WatchesMaster, NoStrayTimer, DelayTimerKept

\* The table keeps its order while neither it nor what it depends on changes.
LEMMA SameTable ==
    ASSUME Table, UNCHANGED fm,
           recommendedState' = "INITIALIZING" => recommendedState = "INITIALIZING",
           "STATE_DECISION_EVENT" \notin events' => "STATE_DECISION_EVENT" \notin events
    PROVE  Table'
BY DEF Table, TableInOrder, DistinctMasters

LEMMA InitializeInductive == IInv /\ InitializePort => IInv'
<1> SUFFICES ASSUME IInv, InitializePort PROVE IInv'
  OBVIOUS
<1>1. TypeOK /\ TimersMatch /\ Control /\ Table
  BY DEF IInv, TimersMatch, Control, Table
<1>2. fm' = [count |-> 0, i |-> fm.i, best |-> fm.best, records |-> fm.records]
  BY <1>1 DEF InitializePort, TypeOK, ForeignMasterDS
<1>3. TypeOK'
  <2>1. fm' \in ForeignMasterDS
    BY <1>1, <1>2, CapacityAssumption DEF TypeOK, ForeignMasterDS
  <2> QED
    BY <1>1, <2>1 DEF InitializePort, TypeOK, States, Timers
<1>4. TimersMatch'
  BY DEF InitializePort, TimersMatch, WatchesMaster, NoStrayTimer, DelayTimerKept,
     Alive, Waiting, Running, Following, DelayTimer
<1>5. recommendedState = "INITIALIZING" /\ events \subseteq {"MASTER_CLOCK_CHANGED"}
  BY <1>1 DEF InitializePort, TypeOK, Events, Control, FollowsRecommendation,
     DecisionSoonTaken, CalibrationSoonTaken, Following
<1>6. Table'
  BY <1>1, <1>2, <1>5 DEF InitializePort, Table, TableInOrder, DistinctMasters
<1>7. Control'
  BY <1>5 DEF InitializePort, Control, DecisionSoonTaken, CalibrationSoonTaken,
     FollowsRecommendation, RecommendedParent, NotRecommended, ListenOnlyNeverMaster,
     GrandmasterNeverSlave, MasterIsOwnParent, EventsAreFresh, CalibratedUntilLeaving, Following
<1> QED
  BY <1>3, <1>4, <1>6, <1>7 DEF IInv, TimersMatch, Control, Table

\* With a record in the table the decision is to be master, passive or slave,
\* and a clock of class below 128 never is to be slave.
LEMMA StateDecisions ==
    ASSUME fm.count > 0, NEW rec
    PROVE  /\ StateDecision(rec) \in {"MASTER", "PASSIVE", "SLAVE"}
           /\ ClockClass < 128 => StateDecision(rec) # "SLAVE"
BY DEF StateDecision

LEMMA DecideInductive == IInv /\ Decide => IInv'
<1> SUFFICES ASSUME IInv, Decide PROVE IInv'
  OBVIOUS
<1>1. TypeOK /\ TimersMatch /\ Control /\ Table
  BY DEF IInv, TimersMatch, Control, Table
<1>2. CASE NoDecision
  <2>1. TypeOK'
    BY <1>1, <1>2 DEF NoDecision, TypeOK, timerVars, bmcVars, syncVars
  <2>2. TimersMatch'
    BY <1>1, <1>2, SameTimers DEF NoDecision, timerVars
  <2>3. Table'
    BY <1>1, <1>2, SameTable DEF NoDecision, bmcVars
  <2>4. Control'
    BY <1>1, <1>2 DEF NoDecision, DecisionPending, timerVars, bmcVars, syncVars,
       Control, DecisionSoonTaken, CalibrationSoonTaken, FollowsRecommendation,
       RecommendedParent, NotRecommended, ListenOnlyNeverMaster, GrandmasterNeverSlave,
       MasterIsOwnParent, EventsAreFresh, CalibratedUntilLeaving
  <2> QED
    BY <2>1, <2>2, <2>3, <2>4 DEF IInv, TimersMatch, Control, Table
<1>3. CASE DecideState
  <2>1. PICK b \in Candidates(fm) :
          LET rec == fm.records[b]
              s   == StateDecision(rec)
          IN  /\ recommendedState' = Permitted(s)
              /\ parent' = ParentAfter(s, rec)
              /\ events' = DecisionTaken \cup s1Events(s, rec)
              /\ fm' = [fm EXCEPT !.best = b]
    BY <1>3 DEF DecideState
  <2>2. /\ pc = "decide" /\ pc' = "recommend" /\ sent' = {}
        /\ portState \in Running /\ "STATE_DECISION_EVENT" \in events
        /\ UNCHANGED <<portState, armed, expired, waitingForFollowUp, recvSync, offsetFrom>>
    BY <1>3 DEF DecideState, DecisionPending, timerVars, syncVars
  <2> DEFINE src == fm.records[b].src
             s   == StateDecision(fm.records[b])
  <2>3. fm.count > 0 /\ b \in 0..(fm.count - 1) /\ b < fm.count /\ b \in Slots
    BY <1>1, <2>2, CapacityAssumption DEF Control, DecisionSoonTaken, Candidates,
       TypeOK, ForeignMasterDS, Slots
  <2>4. src \in Masters
    BY <1>1, <2>3 DEF Table, TableInOrder, Masters
  <2>5. /\ s \in {"MASTER", "PASSIVE", "SLAVE"}
        /\ ClockClass < 128 => s # "SLAVE"
    BY <2>3, StateDecisions
  <2>6. /\ recommendedState' = IF s \in {"MASTER", "PASSIVE"} /\ ListenOnly
                               THEN "LISTENING" ELSE s
        /\ s = "MASTER" => parent' = Self
        /\ s = "SLAVE" => parent' = src
        /\ s = "PASSIVE" => parent' = parent
        /\ events' = (events \ {"STATE_DECISION_EVENT"})
                        \cup (IF s = "SLAVE" /\ src # parent
                              THEN {"MASTER_CLOCK_CHANGED"} ELSE {})
    BY <2>1, <2>5 DEF Permitted, ParentAfter, DecisionTaken, s1Events
  <2>7. /\ fm'.count = fm.count /\ fm'.i = fm.i /\ fm'.best = b
        /\ fm'.records = fm.records /\ fm' \in ForeignMasterDS
    BY <1>1, <2>1, <2>3 DEF TypeOK, ForeignMasterDS
  <2>8. events \cap {"MASTER_CLOCK_SELECTED", "SYNCHRONIZATION_FAULT"} = {}
    BY <1>1, <2>2 DEF Control, CalibrationSoonTaken
  <2>9. fm'.records[b].src = src
    BY <2>7
  <2> HIDE DEF s, src
  <2>10. TypeOK'
    BY <1>1, <2>2, <2>4, <2>5, <2>6, <2>7 DEF TypeOK, States, Events
  <2>11. TimersMatch'
    BY <1>1, <2>2, SameTimers
  <2>12. Table'
    BY <1>1, <2>3, <2>5, <2>6, <2>7 DEF Table, TableInOrder, DistinctMasters
  <2>13. /\ "STATE_DECISION_EVENT" \notin events'
         /\ events' \cap {"MASTER_CLOCK_SELECTED", "SYNCHRONIZATION_FAULT"} = {}
    BY <2>6, <2>8
  <2>14. DecisionSoonTaken' /\ CalibrationSoonTaken' /\ EventsAreFresh'
    BY <2>13 DEF DecisionSoonTaken, CalibrationSoonTaken, EventsAreFresh
  <2>15. FollowsRecommendation' /\ MasterIsOwnParent'
    BY <2>2, <2>5, <2>6 DEF FollowsRecommendation, MasterIsOwnParent, Running, Waiting
  <2>16. RecommendedParent'
    BY <2>3, <2>5, <2>6, <2>7, <2>9 DEF RecommendedParent
  <2>17. NotRecommended' /\ ListenOnlyNeverMaster' /\ GrandmasterNeverSlave'
    BY <1>1, <2>2, <2>5, <2>6 DEF Control, NotRecommended, ListenOnlyNeverMaster,
       GrandmasterNeverSlave
  <2>18. CalibratedUntilLeaving'
    BY <1>1, <2>2, <2>5, <2>6 DEF Control, CalibratedUntilLeaving
  <2> QED
    BY <2>10, <2>11, <2>12, <2>14, <2>15, <2>16, <2>17, <2>18 DEF IInv, TimersMatch, Table
<1> QED
  BY <1>2, <1>3 DEF Decide

Calibration == {"MASTER_CLOCK_SELECTED", "SYNCHRONIZATION_FAULT"}

\* Following the recommendation into s, which consumes the calibration flags.
LEMMA Followed ==
    ASSUME IInv, NEW s \in Running, NEW cleared, Follow(s, cleared),
           recommendedState = IF s \in Following THEN "SLAVE" ELSE s,
           s = "SLAVE" => portState = "UNCALIBRATED" /\ offsetFrom.tx = parent,
           events' \cap Calibration = {}
    PROVE  IInv'
<1>1. TypeOK /\ TimersMatch /\ Control /\ Table
  BY DEF IInv, TimersMatch, Control, Table
<1>2. /\ s \in States /\ ToState(s) /\ pc = "recommend" /\ pc' = "act" /\ sent' = {}
      /\ recommendedState' = recommendedState
      /\ events' \subseteq events /\ UNCHANGED <<fm, parent>>
  BY DEF Follow, bmcVars, Running, Waiting, States, Recommended, Following
<1>3. /\ TimersMatch'
      /\ armed' \subseteq Timers /\ expired' \subseteq Timers
      /\ portState' = s
      /\ waitingForFollowUp' \in BOOLEAN
      /\ UNCHANGED <<recvSync, offsetFrom>>
  BY <1>1, <1>2, ToStateTimers
<1>4. TypeOK'
  BY <1>1, <1>2, <1>3 DEF TypeOK
<1>5. "STATE_DECISION_EVENT" \notin events
  BY <1>1, <1>2 DEF Control, DecisionSoonTaken
<1>6. Table'
  BY <1>1, <1>2, <1>5, SameTable
<1>7. DecisionSoonTaken' /\ CalibrationSoonTaken' /\ EventsAreFresh'
  BY <1>2, <1>5 DEF DecisionSoonTaken, CalibrationSoonTaken, EventsAreFresh, Calibration
<1>8. FollowsRecommendation'
  BY <1>1, <1>2, <1>3 DEF Control, FollowsRecommendation, Following, Running, Waiting
<1>9. RecommendedParent' /\ NotRecommended'
  BY <1>1, <1>2, <1>5 DEF Control, RecommendedParent, NotRecommended
<1>10. ListenOnlyNeverMaster' /\ GrandmasterNeverSlave' /\ MasterIsOwnParent'
  BY <1>1, <1>2, <1>3 DEF Control, RecommendedParent, NotRecommended, Following,
     ListenOnlyNeverMaster, GrandmasterNeverSlave, MasterIsOwnParent
<1>11. CalibratedUntilLeaving'
  BY <1>2, <1>3 DEF CalibratedUntilLeaving
<1> QED
  BY <1>3, <1>4, <1>6, <1>7, <1>8, <1>9, <1>10, <1>11 DEF IInv, TimersMatch, Table

LEMMA RecommendInductive == IInv /\ Recommend => IInv'
<1> SUFFICES ASSUME IInv, Recommend PROVE IInv'
  OBVIOUS
<1>1. TypeOK /\ TimersMatch /\ Control /\ Table
  BY DEF IInv, TimersMatch, Control, Table
<1>2. /\ recommendedState # "SLAVE" => events \cap Calibration = {}
      /\ "MASTER_CLOCK_SELECTED" \in events
            => portState = "UNCALIBRATED" /\ offsetFrom.tx = parent
      /\ "SYNCHRONIZATION_FAULT" \in events => portState = "SLAVE"
  BY <1>1 DEF Control, CalibrationSoonTaken, EventsAreFresh, Calibration
<1>3. CASE BecomeMaster
  <2>1. events' \cap Calibration = {}
    BY <1>2, <1>3 DEF BecomeMaster, Follow
  <2> QED
    BY <1>3, <2>1, Followed DEF BecomeMaster, Running, Following
<1>4. CASE BecomePassive
  <2>1. events' \cap Calibration = {}
    BY <1>2, <1>4 DEF BecomePassive, Follow
  <2> QED
    BY <1>4, <2>1, Followed DEF BecomePassive, Running, Waiting, Following
<1>5. CASE BecomeListening
  <2>1. events' \cap Calibration = {}
    BY <1>2, <1>5 DEF BecomeListening, Follow
  <2> QED
    BY <1>5, <2>1, Followed DEF BecomeListening, Running, Waiting, Following
<1>6. CASE BecomeUncalibrated
  <2>1. events' \cap Calibration = {}
    BY <1>2, <1>6 DEF BecomeUncalibrated, Follow, Following, Calibration
  <2> QED
    BY <1>6, <2>1, Followed DEF BecomeUncalibrated, Running, Waiting, Following
<1>7. CASE BecomeSlave
  <2>1. events' \cap Calibration = {} /\ offsetFrom.tx = parent
    BY <1>2, <1>7 DEF BecomeSlave, Follow, Calibration
  <2> QED
    BY <1>7, <2>1, Followed DEF BecomeSlave, Running, Waiting, Following
<1>8. CASE LoseSynchronization
  <2>1. events' \cap Calibration = {}
    BY <1>2, <1>8 DEF LoseSynchronization, Follow, Calibration
  <2> QED
    BY <1>8, <2>1, Followed DEF LoseSynchronization, Running, Waiting, Following
<1>9. CASE KeepState
  <2>1. /\ pc = "recommend" /\ pc' = "act" /\ sent' = {}
        /\ UNCHANGED <<portState, recommendedState, armed, expired, fm, parent,
                       waitingForFollowUp, recvSync, offsetFrom>>
        /\ events' \subseteq events
    BY <1>9 DEF KeepState, timerVars, bmcVars, syncVars
  <2>2. events' \cap Calibration = {}
    BY <1>2, <1>9 DEF KeepState, Calibration
  <2>3. "STATE_DECISION_EVENT" \notin events
    BY <1>1, <2>1 DEF Control, DecisionSoonTaken
  <2>4. TypeOK'
    BY <1>1, <2>1 DEF TypeOK
  <2>5. TimersMatch'
    BY <1>1, <2>1, SameTimers
  <2>6. Table'
    BY <1>1, <2>1, <2>3, SameTable
  <2>7. DecisionSoonTaken' /\ CalibrationSoonTaken' /\ EventsAreFresh'
    BY <2>1, <2>2, <2>3 DEF DecisionSoonTaken, CalibrationSoonTaken, EventsAreFresh,
       Calibration
  <2>8. FollowsRecommendation'
    BY <1>1, <1>9, <2>1 DEF KeepState, Control, FollowsRecommendation, Following
  <2>9. /\ RecommendedParent' /\ NotRecommended'
        /\ ListenOnlyNeverMaster' /\ GrandmasterNeverSlave'
    BY <1>1, <2>1, <2>3 DEF Control, RecommendedParent, NotRecommended,
       ListenOnlyNeverMaster, GrandmasterNeverSlave
  <2>10. MasterIsOwnParent'
    BY <1>1, <1>9, <2>1 DEF KeepState, Control, FollowsRecommendation,
       RecommendedParent, MasterIsOwnParent
  <2>11. CalibratedUntilLeaving'
    BY <1>1, <1>9, <2>1 DEF KeepState, Control, FollowsRecommendation,
       CalibratedUntilLeaving
  <2> QED
    BY <2>4, <2>5, <2>6, <2>7, <2>8, <2>9, <2>10, <2>11 DEF IInv, TimersMatch, Table
<1> QED
  BY <1>3, <1>4, <1>5, <1>6, <1>7, <1>8, <1>9 DEF Recommend

\* A step on, of a thread that has followed the recommendation, which changes
\* no more than timers, message bookkeeping and the program counter.
LEMMA Quiet ==
    ASSUME IInv, TypeOK', TimersMatch',
           \/ pc' = pc
           \/ pc = "act" /\ pc' = "receive"
           \/ pc \in {"act", "receive", "delayreq"} /\ pc' \in {"delayreq", "decide"},
           UNCHANGED <<portState, recommendedState, events, fm, parent, offsetFrom>>
    PROVE  IInv'
<1>1. Control /\ Table
  BY DEF IInv, Control, Table
<1>2. Table'
  BY <1>1, SameTable
<1>3. DecisionSoonTaken' /\ CalibrationSoonTaken' /\ EventsAreFresh'
  BY <1>1 DEF Control, DecisionSoonTaken, CalibrationSoonTaken, EventsAreFresh
<1>4. FollowsRecommendation' /\ RecommendedParent' /\ NotRecommended'
  BY <1>1 DEF Control, FollowsRecommendation, RecommendedParent, NotRecommended
<1>5. /\ ListenOnlyNeverMaster' /\ GrandmasterNeverSlave'
      /\ MasterIsOwnParent' /\ CalibratedUntilLeaving'
  BY <1>1 DEF Control, ListenOnlyNeverMaster, GrandmasterNeverSlave,
     MasterIsOwnParent, CalibratedUntilLeaving
<1> QED
  BY <1>2, <1>3, <1>4, <1>5 DEF IInv, TimersMatch, Table

\* A fault, or the end of one.
LEMMA Idle ==
    ASSUME IInv, NEW s \in {"FAULTY", "INITIALIZING"}, ToState(s),
           pc \in {"act", "receive"}, pc' \in {"delayreq", "decide"}, sent' = {},
           s = "INITIALIZING" => recommendedState = "INITIALIZING",
           UNCHANGED <<recommendedState, events, fm, parent>>
    PROVE  IInv'
<1>1. TypeOK /\ TimersMatch /\ Control /\ Table
  BY DEF IInv, TimersMatch, Control, Table
<1>2. s \in States
  BY DEF States
<1>3. /\ TimersMatch'
      /\ armed' \subseteq Timers /\ expired' \subseteq Timers
      /\ portState' = s
      /\ waitingForFollowUp' \in BOOLEAN
      /\ UNCHANGED <<recvSync, offsetFrom>>
  BY <1>1, <1>2, ToStateTimers
<1>4. TypeOK'
  BY <1>1, <1>2, <1>3 DEF TypeOK
<1>5. Table'
  BY <1>1, SameTable
<1>6. "STATE_DECISION_EVENT" \notin events /\ events \cap Calibration = {}
  BY <1>1 DEF Control, DecisionSoonTaken, CalibrationSoonTaken, Calibration
<1>7. DecisionSoonTaken' /\ CalibrationSoonTaken' /\ EventsAreFresh'
  BY <1>6 DEF DecisionSoonTaken, CalibrationSoonTaken, EventsAreFresh, Calibration
<1>8. FollowsRecommendation' /\ RecommendedParent' /\ NotRecommended'
  BY <1>1, <1>3 DEF Control, FollowsRecommendation, RecommendedParent, NotRecommended
<1>9. /\ ListenOnlyNeverMaster' /\ GrandmasterNeverSlave'
      /\ MasterIsOwnParent' /\ CalibratedUntilLeaving'
  BY <1>3 DEF ListenOnlyNeverMaster, GrandmasterNeverSlave, MasterIsOwnParent,
     CalibratedUntilLeaving, Following
<1> QED
  BY <1>3, <1>4, <1>5, <1>7, <1>8, <1>9 DEF IInv, TimersMatch, Table

LEMMA TimeoutInductive == IInv /\ AnnounceReceiptTimeout => IInv'
<1> SUFFICES ASSUME IInv, AnnounceReceiptTimeout PROVE IInv'
  OBVIOUS
<1>1. TypeOK /\ TimersMatch /\ Control /\ Table
  BY DEF IInv, TimersMatch, Control, Table
<1>2. fm' = [count |-> 0, i |-> 0, best |-> fm.best, records |-> fm.records]
  BY <1>1 DEF AnnounceReceiptTimeout, forgetForeign, TypeOK, ForeignMasterDS
<1>3. fm' \in ForeignMasterDS
  BY <1>1, <1>2, CapacityAssumption DEF TypeOK, ForeignMasterDS, Slots
<1>4. Table'
  BY <1>2 DEF Table, TableInOrder, DistinctMasters
<1>5. "STATE_DECISION_EVENT" \notin events /\ events \cap Calibration = {}
  BY <1>1 DEF AnnounceReceiptTimeout, Control, DecisionSoonTaken, CalibrationSoonTaken,
     Calibration
<1>6. PICK s \in {"MASTER", "LISTENING"} :
        /\ portState' = s /\ recommendedState' = s
        /\ s = "MASTER" => parent' = Self /\ ~ListenOnly
        /\ parent' \in {parent, Self}
        /\ \/ ToState(s)
           \/ /\ portState = s /\ s = "LISTENING" /\ ListenOnly
              /\ expired' = expired \ {"ANNOUNCE_RECEIPT"}
              /\ UNCHANGED <<armed, waitingForFollowUp, recvSync, offsetFrom>>
  <2>1. portState = "LISTENING" => recommendedState = "LISTENING"
    BY <1>1 DEF AnnounceReceiptTimeout, Control, FollowsRecommendation, Following
  <2> QED
    BY <2>1 DEF AnnounceReceiptTimeout, ToState, Recommended, syncVars
<1>7. /\ TimersMatch' /\ armed' \subseteq Timers /\ expired' \subseteq Timers
      /\ waitingForFollowUp' \in BOOLEAN
      /\ UNCHANGED <<recvSync, offsetFrom>>
  <2>1. CASE ToState(s)
    BY <1>1, <1>6, <2>1, ToStateTimers DEF States
  <2>2. CASE /\ portState = s /\ s = "LISTENING" /\ ListenOnly
             /\ expired' = expired \ {"ANNOUNCE_RECEIPT"}
             /\ UNCHANGED <<armed, waitingForFollowUp, recvSync, offsetFrom>>
    BY <1>1, <1>6, <2>2 DEF TypeOK, TimersMatch, WatchesMaster, NoStrayTimer,
       DelayTimerKept, Alive, Waiting, Running, Following
  <2> QED
    BY <1>6, <2>1, <2>2
<1>8. TypeOK'
  BY <1>1, <1>3, <1>6, <1>7 DEF AnnounceReceiptTimeout, TypeOK, States
<1>9. DecisionSoonTaken' /\ CalibrationSoonTaken' /\ EventsAreFresh'
  BY <1>5 DEF AnnounceReceiptTimeout, DecisionSoonTaken, CalibrationSoonTaken,
     EventsAreFresh, Calibration
<1>10. FollowsRecommendation' /\ RecommendedParent' /\ NotRecommended'
  BY <1>6 DEF AnnounceReceiptTimeout, FollowsRecommendation, RecommendedParent,
     NotRecommended
<1>11. /\ ListenOnlyNeverMaster' /\ GrandmasterNeverSlave'
       /\ MasterIsOwnParent' /\ CalibratedUntilLeaving'
  BY <1>6 DEF ListenOnlyNeverMaster, GrandmasterNeverSlave, MasterIsOwnParent,
     CalibratedUntilLeaving, Following
<1> QED
  BY <1>4, <1>7, <1>8, <1>9, <1>10, <1>11 DEF IInv, TimersMatch, Table

LEMMA ActInductive == IInv /\ Act => IInv'
<1> SUFFICES ASSUME IInv, Act PROVE IInv'
  OBVIOUS
<1>1. TypeOK /\ TimersMatch /\ Control /\ Table
  BY DEF IInv, TimersMatch, Control, Table
<1>2. CASE InitializePort
  BY <1>2, InitializeInductive
<1>3. CASE FailInitialization
  BY <1>3, Idle DEF FailInitialization, Recommended, bmcVars
<1>4. CASE ClearFault
  <2>1. recommendedState = "INITIALIZING"
    BY <1>1, <1>4 DEF ClearFault, Control, FollowsRecommendation, Following
  <2> QED
    BY <1>4, <2>1, Idle DEF ClearFault, Recommended, bmcVars
<1>5. CASE AnnounceReceiptTimeout
  BY <1>5, TimeoutInductive
<1>6. CASE GoOnWaiting
  <2>1. TypeOK'
    BY <1>1, <1>6 DEF GoOnWaiting, TypeOK, timerVars, bmcVars, syncVars
  <2>2. TimersMatch'
    BY <1>1, <1>6, SameTimers DEF GoOnWaiting, timerVars
  <2> QED
    BY <1>6, <2>1, <2>2, Quiet DEF GoOnWaiting, bmcVars, syncVars
<1>7. CASE IssueSyncAndAnnounce
  <2>1. TypeOK'
    BY <1>1, <1>7 DEF IssueSyncAndAnnounce, TypeOK, bmcVars, syncVars
  <2>2. TimersMatch'
    BY <1>1, <1>7, PortAssumption DEF IssueSyncAndAnnounce, TimersMatch, WatchesMaster,
       NoStrayTimer, DelayTimerKept, DelayTimer, Alive, Waiting, Running, Following
  <2> QED
    BY <1>7, <2>1, <2>2, Quiet DEF IssueSyncAndAnnounce, bmcVars, syncVars
<1> QED
  BY <1>2, <1>3, <1>4, <1>5, <1>6, <1>7 DEF Act

LEMMA AnnounceInductive ==
    ASSUME IInv, NEW d \in Announces, HandleAnnounce(d)
    PROVE  IInv'
<1>1. TypeOK /\ TimersMatch /\ Control /\ Table
  BY DEF IInv, TimersMatch, Control, Table
<1>2. /\ pc = "receive" /\ pc' \in {"delayreq", "decide"} /\ sent' = {}
      /\ events' = events \cup {"STATE_DECISION_EVENT"}
      /\ portState \in Running
      /\ UNCHANGED <<portState, recommendedState, parent, waitingForFollowUp,
                     recvSync, offsetFrom>>
  BY DEF HandleAnnounce, AfterHandle, syncVars, Running, Waiting, Following
<1>3. /\ "STATE_DECISION_EVENT" \notin events /\ events \cap Calibration = {}
      /\ recommendedState # "INITIALIZING"
  BY <1>1, <1>2 DEF Control, DecisionSoonTaken, CalibrationSoonTaken, Calibration,
     FollowsRecommendation, Running, Waiting
<1>4. InUse(fm) /\ (fm.count > 0 => fm.best < fm.count)
  BY <1>1, <1>3 DEF InUse, TypeOK, Table, TableInOrder, DistinctMasters
<1>5. InUse(fm') /\ fm'.count > 0
  <2>1. CASE fm' = addForeign(fm, d)
    BY <1>4, <2>1, AddForeignInUse
  <2>2. CASE UNCHANGED fm /\ portState \in Following
    <3>1. fm.best < fm.count
      BY <1>1, <1>2, <1>3, <2>2 DEF Control, FollowsRecommendation, RecommendedParent,
         Following
    <3>2. fm.best >= 0 /\ fm.count \in Int /\ fm.best \in Int
      BY <1>1, CapacityAssumption DEF TypeOK, ForeignMasterDS, Slots
    <3> QED
      BY <1>4, <2>2, <3>1, <3>2
  <2> QED
    BY <2>1, <2>2 DEF HandleAnnounce
<1>6. TimersMatch' /\ armed' \subseteq Timers /\ expired' \subseteq Timers
  <2>1. CASE UNCHANGED <<armed, expired>>
    BY <1>1, <1>2, <2>1, SameTimers DEF TypeOK
  <2>2. CASE RestartAnnounceReceipt /\ portState \in Following \cup {"PASSIVE"}
    <3>1. "ANNOUNCE_RECEIPT" \in Alive /\ "ANNOUNCE_RECEIPT" \in Timers
      BY <1>1, <2>2 DEF TimersMatch, WatchesMaster, Waiting, Following, Timers
    <3> QED
      BY <1>1, <1>2, <2>2, <3>1, RestartedTimers DEF RestartAnnounceReceipt
  <2> QED
    BY <2>1, <2>2 DEF HandleAnnounce, timerVars
<1>7. TypeOK'
  BY <1>1, <1>2, <1>5, <1>6 DEF TypeOK, InUse, Events
<1>8. Table'
  BY <1>2, <1>3, <1>5 DEF Table, InUse, TableInOrder, DistinctMasters
<1>9. DecisionSoonTaken' /\ CalibrationSoonTaken' /\ EventsAreFresh'
  BY <1>2, <1>3, <1>5 DEF DecisionSoonTaken, CalibrationSoonTaken, EventsAreFresh,
     Calibration
<1>10. FollowsRecommendation' /\ RecommendedParent' /\ NotRecommended'
  BY <1>1, <1>2 DEF Control, FollowsRecommendation, RecommendedParent, NotRecommended
<1>11. /\ ListenOnlyNeverMaster' /\ GrandmasterNeverSlave'
       /\ MasterIsOwnParent' /\ CalibratedUntilLeaving'
  BY <1>1, <1>2 DEF Control, ListenOnlyNeverMaster, GrandmasterNeverSlave,
     MasterIsOwnParent, CalibratedUntilLeaving
<1> QED
  BY <1>6, <1>7, <1>8, <1>9, <1>10, <1>11 DEF IInv, TimersMatch, Table

\* A message from which the offset is computed anew.
LEMMA OffsetInductive ==
    ASSUME IInv, NEW rx \in Masters \cup {Self}, NEW offset,
           UpdateOffset(rx, parent, offset),
           pc = "receive", pc' = "delayreq", portState \in Following, sent' = {},
           waitingForFollowUp' \in BOOLEAN,
           recvSync' \in [from : Masters \cup {Self}, seq : SequenceIds],
           UNCHANGED <<portState, recommendedState, armed, expired, fm, parent>>
    PROVE  IInv'
<1>1. TypeOK /\ TimersMatch /\ Control /\ Table
  BY DEF IInv, TimersMatch, Control, Table
<1>2. /\ "STATE_DECISION_EVENT" \notin events /\ events \cap Calibration = {}
      /\ recommendedState = "SLAVE"
  BY <1>1 DEF Control, DecisionSoonTaken, CalibrationSoonTaken, Calibration,
     FollowsRecommendation, Following
<1>3. /\ offsetFrom' = [rx |-> rx, tx |-> parent]
      /\ events \subseteq events' /\ events' \subseteq events \cup Calibration
      /\ "MASTER_CLOCK_SELECTED" \in events' => portState = "UNCALIBRATED"
      /\ "SYNCHRONIZATION_FAULT" \in events' => portState = "SLAVE"
  BY <1>2 DEF UpdateOffset, Calibration
<1>4. "STATE_DECISION_EVENT" \notin events'
  BY <1>2, <1>3 DEF Calibration
<1>5. offsetFrom' \in [rx : Masters \cup {Self}, tx : Masters \cup {Self}]
  BY <1>1, <1>3 DEF TypeOK
<1>6. TypeOK'
  BY <1>1, <1>3, <1>5 DEF TypeOK, Events, Calibration
<1>7. TimersMatch' /\ Table'
  BY <1>1, <1>2, SameTimers, SameTable
<1>8. DecisionSoonTaken' /\ CalibrationSoonTaken' /\ EventsAreFresh'
  BY <1>2, <1>3, <1>4 DEF DecisionSoonTaken, CalibrationSoonTaken, EventsAreFresh
<1>9. FollowsRecommendation' /\ RecommendedParent' /\ NotRecommended'
  BY <1>1, <1>2 DEF Control, FollowsRecommendation, RecommendedParent, NotRecommended
<1>10. /\ ListenOnlyNeverMaster' /\ GrandmasterNeverSlave'
       /\ MasterIsOwnParent' /\ CalibratedUntilLeaving'
  BY <1>1, <1>3 DEF Control, ListenOnlyNeverMaster, GrandmasterNeverSlave,
     MasterIsOwnParent, CalibratedUntilLeaving, Following
<1> QED
  BY <1>6, <1>7, <1>8, <1>9, <1>10 DEF IInv, TimersMatch, Table

LEMMA ReceiveInductive == IInv /\ Receive => IInv'
<1> SUFFICES ASSUME IInv, Receive PROVE IInv'
  OBVIOUS
<1>1. TypeOK /\ TimersMatch
  BY DEF IInv, TimersMatch
<1>2. CASE HandleNothing
  <2>1. TypeOK' /\ TimersMatch'
    BY <1>1, <1>2, SameTimers
       DEF HandleNothing, AfterHandle, TypeOK, timerVars, bmcVars, syncVars
  <2> QED
    BY <1>2, <2>1, Quiet DEF HandleNothing, AfterHandle, bmcVars, syncVars
<1>3. CASE HandleShortMessage
  BY <1>3, Idle DEF HandleShortMessage, AfterHandle, Recommended, bmcVars
<1>4. CASE \E d \in Announces : HandleAnnounce(d)
  BY <1>4, AnnounceInductive
<1>5. CASE \E m \in Masters, seq \in SequenceIds : HandleTwoStepSync(m, seq)
  <2>1. PICK m \in Masters, seq \in SequenceIds : HandleTwoStepSync(m, seq)
    BY <1>5
  <2>2. TypeOK' /\ TimersMatch'
    BY <1>1, <2>1, SameTimers
       DEF HandleTwoStepSync, TypeOK, timerVars, bmcVars
  <2> QED
    BY <2>1, <2>2, Quiet DEF HandleTwoStepSync, bmcVars
<1>6. CASE \E m \in Masters, o \in Offsets : HandleOneStepSync(m, o)
  <2>1. PICK m \in Masters, o \in Offsets : HandleOneStepSync(m, o)
    BY <1>6
  <2>2. recvSync' \in [from : Masters \cup {Self}, seq : SequenceIds]
    BY <1>1, <2>1 DEF HandleOneStepSync, TypeOK
  <2> QED
    BY <2>1, <2>2, OffsetInductive DEF HandleOneStepSync, timerVars, bmcVars
<1>7. CASE \E m \in Masters, seq \in SequenceIds, o \in Offsets :
             HandleFollowUp(m, seq, o)
  <2>1. PICK m \in Masters, seq \in SequenceIds, o \in Offsets :
          HandleFollowUp(m, seq, o)
    BY <1>7
  <2>2. /\ recvSync.from \in Masters \cup {Self}
        /\ recvSync' \in [from : Masters \cup {Self}, seq : SequenceIds]
    BY <1>1, <2>1 DEF HandleFollowUp, TypeOK
  <2> QED
    BY <2>1, <2>2, OffsetInductive DEF HandleFollowUp, timerVars, bmcVars
<1>8. CASE HandlePassiveSync
  <2>1. TypeOK' /\ TimersMatch'
    BY <1>1, <1>8, SameTimers DEF HandlePassiveSync, TypeOK, timerVars, bmcVars, syncVars
  <2> QED
    BY <1>8, <2>1, Quiet DEF HandlePassiveSync, bmcVars, syncVars
<1> QED
  BY <1>2, <1>3, <1>4, <1>5, <1>6, <1>7, <1>8 DEF Receive

LEMMA DelayReqInductive == IInv /\ DelayReq => IInv'
<1> SUFFICES ASSUME IInv, DelayReq PROVE IInv'
  OBVIOUS
<1>1. TypeOK /\ TimersMatch
  BY DEF IInv, TimersMatch
<1>2. CASE IssueDelayReq
  <2>1. DelayTimer \in Timers /\ DelayTimer \in Alive
    BY <1>2 DEF IssueDelayReq, DelayRequestDue, DelayTimer, Timers, Alive
  <2>2. TimersMatch' /\ armed' \subseteq Timers /\ expired' \subseteq Timers
    BY <1>1, <1>2, <2>1, RestartedTimers DEF IssueDelayReq, RestartDelayTimer
  <2>3. TypeOK'
    BY <1>1, <1>2, <2>2 DEF IssueDelayReq, TypeOK, bmcVars, syncVars
  <2> QED
    BY <1>2, <2>2, <2>3, Quiet DEF IssueDelayReq, bmcVars, syncVars
<1>3. CASE NoDelayReq
  <2>1. TypeOK' /\ TimersMatch'
    BY <1>1, <1>3, SameTimers DEF NoDelayReq, TypeOK, timerVars, bmcVars, syncVars
  <2> QED
    BY <1>3, <2>1, Quiet DEF NoDelayReq, bmcVars, syncVars
<1> QED
  BY <1>2, <1>3 DEF DelayReq

LEMMA ExpireInductive ==
    ASSUME IInv, NEW t \in Timers, Expire(t)
    PROVE  IInv'
<1>1. TypeOK /\ TimersMatch
  BY DEF IInv, TimersMatch
<1>2. TypeOK'
  BY <1>1 DEF Expire, TypeOK, bmcVars, syncVars
<1>3. TimersMatch'
  <2>1. Alive' = Alive /\ UNCHANGED portState
    BY DEF Expire, Alive
  <2> QED
    BY <1>1, <2>1 DEF TimersMatch, WatchesMaster, NoStrayTimer, DelayTimerKept
<1> QED
  BY <1>2, <1>3, Quiet DEF Expire, bmcVars, syncVars

\* Every step of the port, and of the timer thread that interrupts it, keeps
\* the inductive invariant.
THEOREM StepsPreserve == IInv /\ [Next]_vars => IInv'
<1> SUFFICES ASSUME IInv, [Next]_vars PROVE IInv'
  OBVIOUS
<1>1. CASE UNCHANGED vars
  <2>1. TypeOK' /\ TimersMatch'
    BY <1>1, SameTimers DEF vars, IInv, TypeOK, TimersMatch, timerVars, bmcVars, syncVars
  <2> QED
    BY <1>1, <2>1, Quiet DEF vars, bmcVars, syncVars
<1>2. CASE Next
  BY <1>2, DecideInductive, RecommendInductive, ActInductive, ReceiveInductive,
     DelayReqInductive, ExpireInductive DEF Next, DoState
<1> QED
  BY <1>1, <1>2

\* The inductive invariant holds in every reachable state.
THEOREM Invariance == Spec => []IInv
<1>1. Init => IInv
  BY InitEstablishes
<1>2. IInv /\ [Next]_vars => IInv'
  BY StepsPreserve
<1> QED
  BY <1>1, <1>2, PTL DEF Spec

-----------------------------------------------------------------------------
(* What the invariant says of the port.                                    *)

\* Every variable of doState and what it calls keeps its type; the ring index
\* and best stay within the capacity of foreignMasterDS.
THEOREM TypeCorrect == Spec => []TypeOK
<1>1. IInv => TypeOK
  BY DEF IInv
<1> QED
  BY <1>1, Invariance, PTL

\* No order of messages, timeouts and decisions makes a slave-only port, or
\* one of clock class 255, master or passive.
THEOREM ListenOnlyPort == Spec => []ListenOnlyNeverMaster
<1>1. IInv => ListenOnlyNeverMaster
  BY DEF IInv
<1> QED
  BY <1>1, Invariance, PTL

\* A port of clock class below 128 never follows a master, since bmc() never
\* recommends it (bmc.c:377-388).
THEOREM GrandmasterPort == Spec => []GrandmasterNeverSlave
<1>1. IInv => GrandmasterNeverSlave
  BY DEF IInv
<1> QED
  BY <1>1, Invariance, PTL

\* A port that waits for a master always has its announce receipt timer running
\* or expired, whatever the timer thread does between the steps of toState.
THEOREM SilenceWatched == Spec => []WatchesMaster
<1>1. IInv => WatchesMaster
  BY DEF IInv
<1> QED
  BY <1>1, Invariance, PTL

\* What toState starts on entering a state it has stopped by the time the port
\* is in a state without that timer.
THEOREM TimersCancelled == Spec => []NoStrayTimer
<1>1. IInv => NoStrayTimer
  BY DEF IInv
<1> QED
  BY <1>1, Invariance, PTL

\* A port that measures the path delay never loses its delay request timer.
THEOREM DelayTimerPresent == Spec => []DelayTimerKept
<1>1. IInv => DelayTimerKept
  BY DEF IInv
<1> QED
  BY <1>1, Invariance, PTL

\* addForeign never stores one port in two records of the table, for any
\* capacity and any order of Announce messages and timeouts.
THEOREM RecordsDistinct == Spec => []DistinctMasters
<1>1. IInv => DistinctMasters
  BY DEF IInv
<1> QED
  BY <1>1, Invariance, PTL

\* bmc() never runs on an empty table of foreign masters.
THEOREM DecisionsHaveRecords == Spec => []DecisionHasRecord
<1>1. IInv => DecisionHasRecord
  BY DEF IInv, DecisionSoonTaken, DecisionHasRecord
<1> QED
  BY <1>1, Invariance, PTL

\* A port that follows has the port of the selected record as parent whenever
\* it acts or handles a message.
THEOREM ParentFromRecord == Spec => []ParentIsSelected
<1>1. IInv => ParentIsSelected
  <2> SUFFICES ASSUME IInv, portState \in Following, pc \in {"act", "receive"}
               PROVE  fm.best < fm.count /\ parent = fm.records[fm.best].src
    BY DEF ParentIsSelected
  <2>1. recommendedState = "SLAVE"
    BY DEF IInv, FollowsRecommendation, Following
  <2>2. "STATE_DECISION_EVENT" \notin events
    BY DEF IInv, DecisionSoonTaken
  <2> QED
    BY <2>1, <2>2 DEF IInv, RecommendedParent
<1> QED
  BY <1>1, Invariance, PTL

\* No calibration flag outlives the state and the parent it was raised for.
THEOREM FlagsFresh == Spec => []EventsAreFresh
<1>1. IInv => EventsAreFresh
  BY DEF IInv
<1> QED
  BY <1>1, Invariance, PTL

\* A slave that acts was calibrated by its present parent.
THEOREM SlaveIsCalibrated == Spec => []SlaveCalibrated
<1>1. IInv => SlaveCalibrated
  BY DEF IInv, CalibratedUntilLeaving, SlaveCalibrated
<1> QED
  BY <1>1, Invariance, PTL

\* A master that acts is its own parent, whether it was recommended or timed
\* out.
THEOREM MasterHasNoParent == Spec => []MasterIsOwnParent
<1>1. IInv => MasterIsOwnParent
  BY DEF IInv
<1> QED
  BY <1>1, Invariance, PTL

\* A port that has been initialized never initializes again, although messages
\* and timeouts may fault it at any time.
THEOREM InitializedOnce == Spec => NeverReinitialized
<1> DEFINE Once == /\ portState' = "INITIALIZING" => recommendedState' = "INITIALIZING"
                   /\ recommendedState' = "INITIALIZING" => recommendedState = "INITIALIZING"
<1>1. IInv /\ IInv' /\ [Next]_vars => [Once]_vars
  <2> SUFFICES ASSUME IInv, IInv', Next PROVE Once
    BY DEF vars
  <2>1. portState' = "INITIALIZING" => recommendedState' = "INITIALIZING"
    BY DEF IInv, FollowsRecommendation
  <2>2. ASSUME recommendedState' = "INITIALIZING"
        PROVE  recommendedState = "INITIALIZING"
    <3>1. CASE Decide
      <4>1. CASE NoDecision
        BY <2>2, <4>1 DEF NoDecision
      <4>2. CASE DecideState
        <5>1. fm.count > 0
          BY <4>2 DEF DecideState, DecisionPending, IInv, DecisionSoonTaken
        <5>2. PICK rec : recommendedState' = Permitted(StateDecision(rec))
          BY <4>2 DEF DecideState
        <5> QED
          BY <2>2, <5>1, <5>2, StateDecisions DEF Permitted
      <4> QED
        BY <3>1, <4>1, <4>2 DEF Decide
    <3>2. CASE Recommend
      BY <2>2, <3>2 DEF Recommend, BecomeMaster, BecomePassive, BecomeListening,
         BecomeUncalibrated, BecomeSlave, LoseSynchronization, KeepState, Follow, Recommended
    <3>3. CASE Act
      <4>1. CASE ClearFault
        BY <4>1 DEF ClearFault, IInv, FollowsRecommendation, Following
      <4>2. CASE ~ClearFault
        BY <2>2, <3>3, <4>2 DEF Act, InitializePort, FailInitialization,
           AnnounceReceiptTimeout, GoOnWaiting, IssueSyncAndAnnounce, Recommended
      <4> QED
        BY <4>1, <4>2
    <3>4. CASE Receive
      BY <2>2, <3>4 DEF Receive, HandleNothing, HandleShortMessage, HandleAnnounce,
         HandleTwoStepSync, HandleOneStepSync, HandleFollowUp, HandlePassiveSync, Recommended
    <3>5. CASE DelayReq
      BY <2>2, <3>5 DEF DelayReq, IssueDelayReq, NoDelayReq
    <3>6. CASE \E t \in Timers : Expire(t)
      BY <2>2, <3>6 DEF Expire
    <3> QED
      BY <3>1, <3>2, <3>3, <3>4, <3>5, <3>6 DEF Next, DoState
  <2> QED
    BY <2>1, <2>2
<1>2. Spec => [][Once]_vars
  BY <1>1, Invariance, PTL DEF Spec
<1> QED
  BY <1>2 DEF NeverReinitialized
=============================================================================
