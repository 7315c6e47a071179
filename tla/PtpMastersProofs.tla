-------------------------- MODULE PtpMastersProofs --------------------------
(***************************************************************************)
(* Proofs that the table of foreign masters implements MasterQueue, for    *)
(* every capacity and every set of masters, and about what the BMC selects *)
(* from it.                                                                *)
(***************************************************************************)
EXTENDS MCPtpLive, PtpPortProofs, Induction, SequenceTheorems

-----------------------------------------------------------------------------
(* The ring.                                                               *)

\* Going round the ring once at most.
LEMMA Wrap ==
    ASSUME NEW a \in 0..(2 * Capacity - 1)
    PROVE  a % Capacity = IF a < Capacity THEN a ELSE a - Capacity
<1>1. Capacity \in Nat /\ Capacity > 0 /\ a \in Nat
  BY CapacityAssumption
<1>2. CASE a < Capacity
  BY <1>1, <1>2
<1>3. CASE a >= Capacity
  <2> DEFINE b == a - Capacity
  <2>1. b \in 0..(Capacity - 1) /\ a = b + Capacity
    BY <1>1, <1>3
  <2>2. (b + Capacity) % Capacity = b
    BY <1>1, <2>1
  <2> QED
    BY <1>1, <1>3, <2>1, <2>2
<1> QED
  BY <1>1, <1>2, <1>3

\* Until the table is full, age and slot agree; then the oldest is in slot i.
LEMMA SlotsInOrder ==
    ASSUME NEW f, InUse(f), NEW k \in 1..f.count
    PROVE  /\ SlotOfAge(f, k) \in 0..(f.count - 1)
           /\ f.count < Capacity => SlotOfAge(f, k) = k - 1
           /\ f.count = Capacity =>
                SlotOfAge(f, k) = IF f.i + k - 1 < Capacity THEN f.i + k - 1
                                                            ELSE f.i + k - 1 - Capacity
<1>1. /\ Capacity \in Nat /\ Capacity > 0
      /\ f.count \in 0..Capacity /\ f.i \in 0..(Capacity - 1) /\ k \in Nat
      /\ f.count < Capacity => f.i = f.count
  BY CapacityAssumption DEF InUse, ForeignMasterDS, Slots
<1> DEFINE a == f.i + (Capacity - f.count) + (k - 1)
<1>2. a \in 0..(2 * Capacity - 1)
  BY <1>1
<1>3. SlotOfAge(f, k) = IF a < Capacity THEN a ELSE a - Capacity
  BY <1>2, Wrap DEF SlotOfAge
<1> QED
  BY <1>1, <1>3

\* Every slot in use has an age, and only one.
LEMMA AgeOfSlot ==
    ASSUME NEW f, InUse(f), NEW s \in 0..(f.count - 1)
    PROVE  \E k \in 1..f.count :
              /\ SlotOfAge(f, k) = s
              /\ \A j \in 1..f.count : SlotOfAge(f, j) = s => j = k
<1>1. /\ Capacity \in Nat /\ Capacity > 0
      /\ f.count \in 0..Capacity /\ f.i \in 0..(Capacity - 1) /\ s \in Nat
  BY CapacityAssumption DEF InUse, ForeignMasterDS, Slots
<1>2. CASE f.count < Capacity
  <2>1. \A j \in 1..f.count : SlotOfAge(f, j) = j - 1
    BY <1>2, SlotsInOrder
  <2>2. s + 1 \in 1..f.count
    BY <1>1
  <2> QED
    BY <1>1, <2>1, <2>2
<1>3. CASE f.count = Capacity
  <2>1. \A j \in 1..f.count :
          SlotOfAge(f, j) = IF f.i + j - 1 < Capacity THEN f.i + j - 1
                                                      ELSE f.i + j - 1 - Capacity
    BY <1>3, SlotsInOrder
  <2> DEFINE k == IF s >= f.i THEN s - f.i + 1 ELSE s - f.i + Capacity + 1
  <2>2. k \in 1..f.count
    BY <1>1, <1>3
  <2>3. SlotOfAge(f, k) = s
    BY <1>1, <1>3, <2>1, <2>2
  <2>4. ASSUME NEW j \in 1..f.count, SlotOfAge(f, j) = s
        PROVE  j = k
    <3>1. s = IF f.i + j - 1 < Capacity THEN f.i + j - 1 ELSE f.i + j - 1 - Capacity
      BY <2>1, <2>4
    <3> QED
      BY <1>1, <1>3, <3>1
  <2> HIDE DEF k
  <2> QED
    BY <2>2, <2>3, <2>4
<1> QED
  BY <1>1, <1>2, <1>3

-----------------------------------------------------------------------------
(* addForeign as a step of the queue.                                      *)

\* What addForeign does to a table in use.
LEMMA AddForeignSteps ==
    ASSUME NEW f, InUse(f), f.count > 0 => f.best < f.count, NEW d \in Announces
    PROVE  LET g == addForeign(f, d)
           IN  \/ \E s \in 0..(f.count - 1) :
                     /\ f.records[s].src = d.src
                     /\ g.count = f.count /\ g.i = f.i
                     /\ g.records = [f.records EXCEPT ![s] = d]
               \/ /\ \A s \in 0..(f.count - 1) : f.records[s].src # d.src
                  /\ g.count = IF f.count < Capacity THEN f.count + 1 ELSE f.count
                  /\ g.i = (f.i + 1) % Capacity
                  /\ g.records = [f.records EXCEPT ![f.i] = d]
<1>1. /\ f.count \in 0..Capacity /\ f.i \in Slots
      /\ f.records \in [Slots -> Announces \cup {ZeroRecord}]
      /\ f = [count |-> f.count, i |-> f.i, best |-> f.best, records |-> f.records]
  BY DEF InUse, ForeignMasterDS
<1>2. Visited(f) = 0..(f.count - 1)
  <2>1. CASE f.count = 0
    BY <2>1 DEF Visited
  <2>2. CASE f.count > 0
    BY <2>2, SearchVisitsAll DEF InUse
  <2> QED
    BY <1>1, <2>1, <2>2, CapacityAssumption
<1>3. CASE Known(f, d) # {}
  <2> DEFINE s == CHOOSE s \in Known(f, d) : TRUE
  <2>1. s \in 0..(f.count - 1) /\ f.records[s].src = d.src
    BY <1>2, <1>3 DEF Known
  <2>2. addForeign(f, d) = [f EXCEPT !.records[s] = d]
    BY <1>3 DEF addForeign
  <2> HIDE DEF s
  <2> QED
    BY <1>1, <2>1, <2>2
<1>4. CASE Known(f, d) = {}
  <2>1. \A s \in 0..(f.count - 1) : f.records[s].src # d.src
    BY <1>2, <1>4 DEF Known
  <2>2. addForeign(f, d) =
          [f EXCEPT !.count = IF f.count < Capacity THEN f.count + 1 ELSE f.count,
                    !.records[f.i] = d,
                    !.i = (f.i + 1) % Capacity]
    BY <1>1, <1>4 DEF addForeign
  <2> QED
    BY <1>1, <2>1, <2>2
<1> QED
  BY <1>3, <1>4

\* A refreshed record is refreshed at its age.
LEMMA RefreshKeepsOrder ==
    ASSUME NEW f, InUse(f), NEW g, NEW d \in Announces, NEW s \in 0..(f.count - 1),
           f.records[s].src = d.src, g.count = f.count, g.i = f.i,
           g.records = [f.records EXCEPT ![s] = d]
    PROVE  \E k \in DOMAIN OrderOf(f) :
              /\ OrderOf(f)[k].src = d.src
              /\ OrderOf(g) = [OrderOf(f) EXCEPT ![k] = d]
<1>1. PICK k \in 1..f.count :
        /\ SlotOfAge(f, k) = s
        /\ \A j \in 1..f.count : SlotOfAge(f, j) = s => j = k
  BY AgeOfSlot
<1>2. /\ \A j \in 1..f.count : SlotOfAge(g, j) = SlotOfAge(f, j)
      /\ \A j \in 1..f.count : SlotOfAge(f, j) \in DOMAIN f.records
  <2>1. \A j \in 1..f.count : SlotOfAge(f, j) \in 0..(f.count - 1)
    BY SlotsInOrder
  <2> QED
    BY <2>1, CapacityAssumption DEF SlotOfAge, InUse, ForeignMasterDS, Slots
<1>3. \A j \in 1..f.count :
        g.records[SlotOfAge(g, j)] = IF j = k THEN d ELSE f.records[SlotOfAge(f, j)]
  BY <1>1, <1>2
<1>4. OrderOf(g) = [OrderOf(f) EXCEPT ![k] = d]
  BY <1>3 DEF OrderOf
<1> QED
  BY <1>1, <1>4 DEF OrderOf

LEMMA SequenceIsFunction ==
    ASSUME NEW S, NEW s \in Seq(S)
    PROVE  s = [k \in 1..Len(s) |-> s[k]]
OBVIOUS

\* A new record is the youngest and takes the place of the oldest.
LEMMA EnterKeepsOrder ==
    ASSUME NEW f, InUse(f), NEW g, InUse(g), NEW d \in Announces,
           \A s \in 0..(f.count - 1) : f.records[s].src # d.src,
           g.count = (IF f.count < Capacity THEN f.count + 1 ELSE f.count),
           g.i = (f.i + 1) % Capacity,
           g.records = [f.records EXCEPT ![f.i] = d]
    PROVE  /\ \A k \in DOMAIN OrderOf(f) : OrderOf(f)[k].src # d.src
           /\ OrderOf(g) = Append(IF Len(OrderOf(f)) < Capacity THEN OrderOf(f)
                                                               ELSE Tail(OrderOf(f)), d)
<1>1. /\ Capacity \in Nat /\ Capacity > 0
      /\ f.count \in 0..Capacity /\ f.i \in 0..(Capacity - 1)
      /\ f.count < Capacity => f.i = f.count
      /\ f.i \in DOMAIN f.records
  BY CapacityAssumption DEF InUse, ForeignMasterDS, Slots
<1>2. \A k \in DOMAIN OrderOf(f) : OrderOf(f)[k].src # d.src
  BY SlotsInOrder DEF OrderOf
<1>3. /\ OrderOf(f) \in Seq(Announces) /\ Len(OrderOf(f)) = f.count
      /\ OrderOf(g) \in Seq(Announces) /\ Len(OrderOf(g)) = g.count
  <2>1. \A k \in 1..f.count : f.records[SlotOfAge(f, k)] \in Announces
    BY SlotsInOrder DEF InUse
  <2>2. \A k \in 1..g.count : g.records[SlotOfAge(g, k)] \in Announces
    BY SlotsInOrder DEF InUse
  <2>3. OrderOf(f) \in Seq(Announces) /\ Len(OrderOf(f)) = f.count
    BY <1>1, <2>1 DEF OrderOf
  <2>4. g.count \in Nat
    BY <1>1
  <2>5. OrderOf(g) \in Seq(Announces) /\ Len(OrderOf(g)) = g.count
    BY <2>2, <2>4 DEF OrderOf
  <2> QED
    BY <2>3, <2>5
<1>4. CASE f.count < Capacity
  <2>1. \A k \in 1..g.count :
          g.records[SlotOfAge(g, k)] =
            IF k = f.count + 1 THEN d ELSE f.records[SlotOfAge(f, k)]
    <3> SUFFICES ASSUME NEW k \in 1..g.count
                 PROVE  g.records[SlotOfAge(g, k)] =
                          IF k = f.count + 1 THEN d ELSE f.records[SlotOfAge(f, k)]
      OBVIOUS
    <3>1. SlotOfAge(g, k) = k - 1
      <4>1. CASE g.count < Capacity
        BY <4>1, SlotsInOrder
      <4>2. CASE g.count = Capacity
        <5>1. g.i = 0
          BY <1>1, <1>4, <4>2
        <5> QED
          BY <1>1, <4>2, <5>1, SlotsInOrder
      <4> QED
        BY <1>1, <1>4, <4>1, <4>2
    <3>2. k # f.count + 1 => k \in 1..f.count /\ SlotOfAge(f, k) = k - 1
      BY <1>1, <1>4, SlotsInOrder
    <3>3. k - 1 \in DOMAIN f.records
      BY <1>1, <1>4 DEF InUse, ForeignMasterDS, Slots
    <3> QED
      BY <1>1, <1>4, <3>1, <3>2, <3>3
  <2>2. OrderOf(g) = Append(OrderOf(f), d)
    BY <1>1, <1>3, <1>4, <2>1 DEF OrderOf
  <2> QED
    BY <1>2, <1>3, <1>4, <2>2
<1>5. CASE f.count = Capacity
  <2>1. \A k \in 1..g.count :
          g.records[SlotOfAge(g, k)] =
            IF k = Capacity THEN d ELSE f.records[SlotOfAge(f, k + 1)]
    <3> SUFFICES ASSUME NEW k \in 1..g.count
                 PROVE  g.records[SlotOfAge(g, k)] =
                          IF k = Capacity THEN d ELSE f.records[SlotOfAge(f, k + 1)]
      OBVIOUS
    <3>1. g.i = IF f.i + 1 < Capacity THEN f.i + 1 ELSE 0
      <4>1. f.i + 1 \in 0..(2 * Capacity - 1)
        BY <1>1
      <4> QED
        BY <1>1, <4>1, Wrap
    <3>2. SlotOfAge(g, k) = IF g.i + k - 1 < Capacity THEN g.i + k - 1
                                                      ELSE g.i + k - 1 - Capacity
      BY <1>1, <1>5, SlotsInOrder
    <3>3. CASE k = Capacity
      BY <1>1, <3>1, <3>2, <3>3
    <3>4. CASE k # Capacity
      <4>1. k + 1 \in 1..f.count
        BY <1>1, <1>5, <3>4
      <4>2. SlotOfAge(f, k + 1) = IF f.i + k < Capacity THEN f.i + k
                                                       ELSE f.i + k - Capacity
        BY <1>1, <1>5, <4>1, SlotsInOrder
      <4>3. SlotOfAge(g, k) = SlotOfAge(f, k + 1) /\ SlotOfAge(g, k) # f.i
        BY <1>1, <1>5, <3>1, <3>2, <3>4, <4>2
      <4>4. SlotOfAge(f, k + 1) \in DOMAIN f.records
        BY <1>1, <1>5, <4>1, SlotsInOrder DEF InUse, ForeignMasterDS, Slots
      <4> QED
        BY <3>4, <4>3, <4>4
    <3> QED
      BY <3>3, <3>4
  <2> DEFINE o == OrderOf(f)
             t == Tail(o)
  <2>2. OrderOf(g) = Append(t, d)
    <3>1. \A k \in 1..Capacity : o[k] = f.records[SlotOfAge(f, k)]
      BY <1>5 DEF OrderOf
    <3>2. o \in Seq(Announces) /\ Len(o) = Capacity
      BY <1>3, <1>5
    <3>3. OrderOf(g) = [k \in 1..Capacity |-> IF k = Capacity THEN d ELSE o[k + 1]]
      <4>1. \A k \in 1..Capacity : k # Capacity => k + 1 \in 1..Capacity
        BY <1>1
      <4>2. g.count = Capacity
        BY <1>1, <1>5
      <4> QED
        BY <2>1, <3>1, <4>1, <4>2 DEF OrderOf
    <3> HIDE DEF o
    <3>4. /\ t \in Seq(Announces) /\ Len(t) = Capacity - 1
          /\ \A k \in 1..(Capacity - 1) : t[k] = o[k + 1]
      BY <1>1, <3>2
    <3> HIDE DEF t
    <3>5. Append(t, d) = [k \in 1..Capacity |-> IF k = Capacity THEN d ELSE o[k + 1]]
      <4>1. Append(t, d) \in Seq(Announces) /\ Len(Append(t, d)) = Capacity
        BY <1>1, <3>4
      <4>2. \A k \in 1..Capacity :
              Append(t, d)[k] = IF k = Capacity THEN d ELSE o[k + 1]
        BY <1>1, <3>4
      <4>3. Append(t, d) = [k \in 1..Capacity |-> Append(t, d)[k]]
        BY <4>1, SequenceIsFunction
      <4> QED
        BY <4>2, <4>3
    <3> QED
      BY <3>3, <3>5
  <2> QED
    BY <1>2, <1>3, <1>5, <2>2
<1> QED
  BY <1>1, <1>4, <1>5

-----------------------------------------------------------------------------
(* The port as a step of the queue.                                        *)

LEMMA TableInUse == IInv => InUse(fm)
BY DEF IInv, TypeOK, TableInOrder, DistinctMasters, InUse

\* The steps of the port change the table in three ways only.
LEMMA TableSteps ==
    ASSUME IInv, [Next]_vars
    PROVE  \/ UNCHANGED MasterOrder
           \/ fm'.count = 0
           \/ \E d \in Announces : /\ fm' = addForeign(fm, d)
                                   /\ fm.count > 0 => fm.best < fm.count
<1>1. CASE UNCHANGED fm
  BY <1>1 DEF MasterOrder
<1>2. CASE DecideState
  <2>1. PICK b \in Candidates(fm) : fm' = [fm EXCEPT !.best = b]
    BY <1>2 DEF DecideState
  <2>2. fm'.count = fm.count /\ fm'.i = fm.i /\ fm'.records = fm.records
    BY <2>1 DEF IInv, TypeOK, ForeignMasterDS
  <2> QED
    BY <2>2 DEF MasterOrder, OrderOf, SlotOfAge
<1>3. CASE InitializePort \/ AnnounceReceiptTimeout
  BY <1>3 DEF InitializePort, AnnounceReceiptTimeout, forgetForeign, IInv, TypeOK,
     ForeignMasterDS
<1>4. CASE \E d \in Announces : HandleAnnounce(d)
  <2>1. PICK d \in Announces : HandleAnnounce(d)
    BY <1>4
  <2>2. CASE fm' = addForeign(fm, d)
    <3>1. pc = "receive" /\ portState \in Running
      BY <2>1 DEF HandleAnnounce, Running, Waiting, Following
    <3>2. "STATE_DECISION_EVENT" \notin events /\ recommendedState # "INITIALIZING"
      BY <3>1 DEF IInv, DecisionSoonTaken, FollowsRecommendation, Running, Waiting
    <3> QED
      BY <2>2, <3>2 DEF IInv, TableInOrder
  <2> QED
    BY <1>1, <2>1, <2>2 DEF HandleAnnounce
<1>5. CASE Next /\ ~DecideState /\ ~InitializePort /\ ~AnnounceReceiptTimeout
           /\ ~\E d \in Announces : HandleAnnounce(d)
  <2>1. UNCHANGED fm
    BY <1>5 DEF Next, DoState, Decide, NoDecision, Recommend, BecomeMaster, BecomePassive,
       BecomeListening, BecomeUncalibrated, BecomeSlave, LoseSynchronization, KeepState,
       Follow, Act, FailInitialization, ClearFault, GoOnWaiting, IssueSyncAndAnnounce,
       Receive, HandleNothing, HandleShortMessage, HandleTwoStepSync, HandleOneStepSync,
       HandleFollowUp, HandlePassiveSync, DelayReq, IssueDelayReq, NoDelayReq, Expire, bmcVars
  <2> QED
    BY <1>1, <2>1
<1> QED
  BY <1>1, <1>2, <1>3, <1>4, <1>5 DEF vars, bmcVars

\* The table of foreign masters implements the queue of masters.
THEOREM RingImplementsQueue == Spec => RingIsMasterQueue
<1>1. Init => MQ!Init
  BY DEF Init, NoForeignMasters, MQ!Init, MasterOrder, OrderOf
<1>2. IInv /\ IInv' /\ [Next]_vars => [MQ!Next]_MasterOrder
  <2> SUFFICES ASSUME IInv, IInv', [Next]_vars PROVE [MQ!Next]_MasterOrder
    OBVIOUS
  <2>1. InUse(fm) /\ InUse(fm)'
    BY TableInUse DEF IInv, TypeOK, TableInOrder, DistinctMasters, InUse
  <2>2. CASE UNCHANGED MasterOrder
    BY <2>2
  <2>3. CASE fm'.count = 0
    <3>1. MasterOrder' = <<>>
      BY <2>3 DEF MasterOrder, OrderOf
    <3> QED
      BY <3>1 DEF MQ!Next, MQ!Forget
  <2>4. CASE \E d \in Announces : /\ fm' = addForeign(fm, d)
                                  /\ fm.count > 0 => fm.best < fm.count
    <3>1. PICK d \in Announces : /\ fm' = addForeign(fm, d)
                                 /\ fm.count > 0 => fm.best < fm.count
      BY <2>4
    <3>2. MasterOrder = OrderOf(fm) /\ MasterOrder' = OrderOf(fm')
      BY DEF MasterOrder, OrderOf, SlotOfAge
    <3>3. CASE \E s \in 0..(fm.count - 1) :
                  /\ fm.records[s].src = d.src
                  /\ fm'.count = fm.count /\ fm'.i = fm.i
                  /\ fm'.records = [fm.records EXCEPT ![s] = d]
      BY <2>1, <3>2, <3>3, RefreshKeepsOrder DEF MQ!Next, MQ!Refresh
    <3>4. CASE /\ \A s \in 0..(fm.count - 1) : fm.records[s].src # d.src
               /\ fm'.count = IF fm.count < Capacity THEN fm.count + 1 ELSE fm.count
               /\ fm'.i = (fm.i + 1) % Capacity
               /\ fm'.records = [fm.records EXCEPT ![fm.i] = d]
      <4>1. InUse(fm')
        BY <2>1, <3>1, AddForeignInUse
      <4> QED
        BY <2>1, <3>2, <3>4, <4>1, EnterKeepsOrder DEF MQ!Next, MQ!Enter
    <3>5. \/ \E s \in 0..(fm.count - 1) :
               /\ fm.records[s].src = d.src
               /\ fm'.count = fm.count /\ fm'.i = fm.i
               /\ fm'.records = [fm.records EXCEPT ![s] = d]
          \/ /\ \A s \in 0..(fm.count - 1) : fm.records[s].src # d.src
             /\ fm'.count = IF fm.count < Capacity THEN fm.count + 1 ELSE fm.count
             /\ fm'.i = (fm.i + 1) % Capacity
             /\ fm'.records = [fm.records EXCEPT ![fm.i] = d]
      <4> DEFINE g == addForeign(fm, d)
      <4>1. g = fm'
        BY <3>1
      <4>2. fm.count > 0 => fm.best < fm.count
        BY <3>1
      <4> QED
        BY <2>1, <4>1, <4>2, AddForeignSteps
    <3> QED
      BY <3>3, <3>4, <3>5
  <2> QED
    BY <2>2, <2>3, <2>4, TableSteps
<1> QED
  BY <1>1, <1>2, Invariance, PTL DEF Spec, MQ!Spec, RingIsMasterQueue

-----------------------------------------------------------------------------
(* The scan.                                                               *)

\* What grandmasters are compared by.
Key(d) == Append(d.q, d.gm)

Keys == [1..6 -> Int]

LEMMA KeysAreKeys == \A d \in DataSet : Key(d) \in Keys
<1> SUFFICES ASSUME NEW d \in DataSet PROVE Key(d) \in Keys
  OBVIOUS
<1>1. d.q \in [1..5 -> Nat] /\ d.gm \in Int
  BY DEF DataSet
<1>2. PICK q \in [1..5 -> Int], g \in Int : q = d.q /\ g = d.gm
  BY <1>1
<1>3. q \in Seq(Int) /\ Len(q) = 5
  <2>1. q \in Seq(Int)
    BY SeqDef
  <2>2. DOMAIN q = 1..Len(q) /\ Len(q) \in Nat
    BY <2>1, LenProperties
  <2>3. 1..5 = 1..Len(q)
    BY <2>2
  <2>4. 5 \in 1..Len(q) /\ Len(q) \in 1..Len(q)
    BY <2>2, <2>3
  <2> QED
    BY <2>2, <2>3, <2>4
<1>4. PICK t \in Seq(Int) : t = Append(q, g) /\ Len(t) = 6
  <2>1. PICK p \in Seq(Int), e \in Int : p = q /\ e = g
    BY <1>3
  <2>2. Append(p, e) \in Seq(Int) /\ Len(Append(p, e)) = Len(p) + 1
    BY AppendProperties
  <2>3. PICK t \in Seq(Int) : t = Append(p, e) /\ Len(t) = Len(p) + 1
    BY <2>2, Zenon
  <2>4. t = Append(q, g)
    BY <2>1, <2>3, Zenon
  <2>5. Len(t) = 6
    BY <1>3, <2>1, <2>3
  <2> QED
    BY <2>4, <2>5, Zenon
<1>5. t \in [1..6 -> Int]
  BY <1>4, LenProperties, ElementOfSeq
<1> QED
  BY <1>2, <1>4, <1>5 DEF Key, Keys

LEMMA LexIrreflexive == \A s \in Keys : ~LexLess(s, s)
BY DEF Keys, LexLess

\* Keys are ordered like words of a dictionary.
LEMMA LexTransitive ==
    ASSUME NEW s \in Keys, NEW t \in Keys, NEW u \in Keys, LexLess(s, t), LexLess(t, u)
    PROVE  LexLess(s, u)
<1>1. PICK i \in 1..6 : s[i] < t[i] /\ \A l \in 1..(i - 1) : s[l] = t[l]
  BY DEF Keys, LexLess
<1>2. PICK j \in 1..6 : t[j] < u[j] /\ \A l \in 1..(j - 1) : t[l] = u[l]
  BY DEF Keys, LexLess
<1>3. DOMAIN s = 1..6 /\ \A l \in 1..6 : s[l] \in Int /\ t[l] \in Int /\ u[l] \in Int
  BY DEF Keys
<1>4. CASE i <= j
  <2>1. s[i] < u[i]
    <3>1. CASE i = j
      BY <1>1, <1>2, <1>3, <3>1
    <3>2. CASE i < j
      <4>1. i \in 1..(j - 1)
        BY <3>2
      <4>2. t[i] = u[i]
        BY <1>2, <4>1
      <4> QED
        BY <1>1, <4>2
    <3> QED
      BY <1>4, <3>1, <3>2
  <2>2. ASSUME NEW l \in 1..(i - 1) PROVE s[l] = u[l]
    <3>1. l \in 1..(j - 1)
      BY <1>4
    <3> QED
      BY <1>1, <1>2, <3>1
  <2> QED
    BY <1>3, <2>1, <2>2 DEF LexLess
<1>5. CASE j < i
  <2>1. s[j] < u[j]
    <3>1. j \in 1..(i - 1)
      BY <1>5
    <3>2. s[j] = t[j]
      BY <1>1, <3>1
    <3> QED
      BY <1>2, <3>2
  <2>2. ASSUME NEW l \in 1..(j - 1) PROVE s[l] = u[l]
    <3>1. l \in 1..(i - 1)
      BY <1>5
    <3> QED
      BY <1>1, <1>2, <3>1
  <2> QED
    BY <1>3, <2>1, <2>2 DEF LexLess
<1> QED
  BY <1>4, <1>5

\* The loop of bmc() is what its definition says.
LEMMA ScanRuns ==
    ASSUME NEW f \in ForeignMasterDS, f.count > 0
    PROVE  bestScan(f) = [k \in 0..(f.count - 1) |->
               IF k = 0 THEN 0
               ELSE IF bmcDataSetComparison(f.records[k], f.records[bestScan(f)[k - 1]]) < 0
                    THEN k ELSE bestScan(f)[k - 1]]
<1> DEFINE n == f.count - 1
           Worse(k, b) == IF bmcDataSetComparison(f.records[k], f.records[b]) < 0 THEN k ELSE b
           Recurs(g) == g = [k \in 0..n |-> IF k = 0 THEN 0 ELSE Worse(k, g[k - 1])]
           step == [p \in (0..n) \X (1..n) |-> Worse(p[2], p[1])]
           r == CHOOSE g : Recurs(g)
<1>1. n \in Nat /\ 0 \in 0..n
  BY CapacityAssumption DEF ForeignMasterDS
<1>2. Candidates(f) = 0..n
  BY CapacityAssumption DEF Candidates, ForeignMasterDS
<1>3. bestScan(f) = r
  BY <1>2 DEF bestScan
<1>4. step \in [(0..n) \X (1..n) -> 0..n]
  <2>1. \A k \in 1..n, b \in 0..n : Worse(k, b) \in 0..n
    BY <1>1
  <2> HIDE DEF Worse, n
  <2> QED
    BY <2>1
<1>5. PICK h \in [0..n -> 0..n] :
          h[0] = 0 /\ \A k \in 1..n : h[k] = step[<<h[k - 1], k>>]
  <2> HIDE DEF n, step
  <2>1. PICK S : S = 0..n
    OBVIOUS
  <2>2. 0 \in S /\ step \in [S \X (1..n) -> S]
    BY <1>1, <1>4, <2>1, Zenon
  <2>3. PICK h \in [0..n -> S] : Iterates(h, n, 0, step)
    BY <1>1, <2>2, IterationExists
  <2>4. h[0] = 0 /\ \A k \in 1..n : h[k] = step[<<h[k - 1], k>>]
    BY <1>1, <2>3, IterationValues
  <2> QED
    BY <2>1, <2>3, <2>4, Zenon
<1>7. ASSUME NEW k \in 1..n PROVE h[k] = Worse(k, h[k - 1])
  <2>1. h[k - 1] \in 0..n
    <3>1. k - 1 \in 0..n
      BY <1>1
    <3> QED
      BY <1>5, <3>1
  <2> HIDE DEF Worse
  <2> QED
    BY <1>5, <2>1
<1> HIDE DEF Worse, step
<1>8. Recurs(h)
  <2>1. ASSUME NEW k \in 0..n PROVE h[k] = IF k = 0 THEN 0 ELSE Worse(k, h[k - 1])
    <3>1. CASE k = 0
      BY <1>5, <3>1
    <3>2. CASE k \in 1..n
      BY <1>7, <3>2
    <3> QED
      BY <1>1, <3>1, <3>2
  <2>2. h = [k \in 0..n |-> h[k]]
    BY <1>5
  <2> HIDE DEF n
  <2> QED
    BY <2>1, <2>2
<1>9. Recurs(r)
  <2> HIDE DEF Recurs
  <2> QED
    BY <1>8
<1> HIDE DEF r
<1> QED
  BY <1>3, <1>9 DEF Worse

\* All records of the table announce grandmasters of their own.
OwnGrandmasters(f) ==
    \A j, k \in 0..(f.count - 1) : f.records[j].gm = f.records[k].gm => j = k

\* No record of the table is worse than that of slot b.
WorstRecord(f, b) ==
    /\ b \in 0..(f.count - 1)
    /\ \A k \in (0..(f.count - 1)) \ {b} :
          bmcDataSetComparison(f.records[k], f.records[b]) = A_better_then_B

\* By induction over the records: the scan has the worst of those that it has seen.
LEMMA ScanEndsAtWorst ==
    ASSUME NEW f \in ForeignMasterDS, f.count > 0, OwnGrandmasters(f),
           \A s \in 0..(f.count - 1) : f.records[s] \in DataSet
    PROVE  WorstRecord(f, bestScan(f)[f.count - 1])
<1> DEFINE n == f.count - 1
           r == bestScan(f)
           Less(j, k) == LexLess(Key(f.records[j]), Key(f.records[k]))
           T == {k \in 0..n : r[k] \in 0..k /\ \A j \in 0..k : ~Less(r[k], j)}
<1>1. n \in Nat
  BY CapacityAssumption DEF ForeignMasterDS
<1>2. \A k \in 0..n : Key(f.records[k]) \in Keys
  BY KeysAreKeys
<1>3. ASSUME NEW j \in 0..n, NEW k \in 0..n, j # k
      PROVE  bmcDataSetComparison(f.records[k], f.records[j]) =
                 IF Less(j, k) THEN B_better_then_A ELSE A_better_then_B
  BY <1>3 DEF OwnGrandmasters, bmcDataSetComparison, CompareGrandmasters, Key
<1>4. \A k \in 0..n : ~Less(k, k)
  BY <1>2, LexIrreflexive
<1>5. \A i, j, k \in 0..n : Less(i, j) /\ Less(j, k) => Less(i, k)
  BY <1>2, LexTransitive
<1>6. r[0] = 0 /\ \A k \in 1..n :
          r[k] = IF bmcDataSetComparison(f.records[k], f.records[r[k - 1]]) < 0
                 THEN k ELSE r[k - 1]
  <2> HIDE DEF r
  <2>1. r = [k \in 0..n |->
               IF k = 0 THEN 0
               ELSE IF bmcDataSetComparison(f.records[k], f.records[r[k - 1]]) < 0
                    THEN k ELSE r[k - 1]]
    BY ScanRuns DEF r
  <2> HIDE DEF n
  <2>2. \A k \in 0..n : r[k] = IF k = 0 THEN 0
               ELSE IF bmcDataSetComparison(f.records[k], f.records[r[k - 1]]) < 0
                    THEN k ELSE r[k - 1]
    BY <2>1
  <2> QED
    BY <1>1, <2>2
<1> HIDE DEF r, Less
<1>7. 0 \in T
  BY <1>1, <1>4, <1>6
<1>8. ASSUME NEW k \in 0..(n - 1), k \in T PROVE k + 1 \in T
  <2>1. /\ k + 1 \in 1..n /\ k + 1 \in 0..n /\ (k + 1) - 1 = k
        /\ r[k] \in 0..k /\ r[k] \in 0..n /\ r[k] # k + 1
        /\ \A j \in 0..k : j \in 0..n /\ ~Less(r[k], j)
        /\ \A j \in 0..(k + 1) : j \in 0..k \/ j = k + 1
    BY <1>1, <1>8
  <2>2. r[k + 1] = IF Less(r[k], k + 1) THEN k + 1 ELSE r[k]
    <3>1. bmcDataSetComparison(f.records[k + 1], f.records[r[k]]) =
              IF Less(r[k], k + 1) THEN B_better_then_A ELSE A_better_then_B
      BY <1>3, <2>1
    <3>2. r[k + 1] = IF bmcDataSetComparison(f.records[k + 1], f.records[r[k]]) < 0
                     THEN k + 1 ELSE r[k]
      BY <1>6, <2>1
    <3> QED
      BY <3>1, <3>2 DEF A_better_then_B, B_better_then_A
  <2>3. CASE Less(r[k], k + 1)
    <3>1. \A j \in 0..(k + 1) : ~Less(k + 1, j)
      BY <1>4, <1>5, <2>1, <2>3
    <3> QED
      BY <2>1, <2>2, <2>3, <3>1
  <2>4. CASE ~Less(r[k], k + 1)
    BY <2>1, <2>2, <2>4
  <2> QED
    BY <2>3, <2>4
<1>9. n \in T
  <2> HIDE DEF T, n
  <2>1. 0..n \subseteq T
    BY <1>1, <1>7, <1>8, BoundedInduction
  <2> QED
    BY <1>1, <2>1
<1>10. r[n] \in 0..n /\ \A j \in 0..n : ~Less(r[n], j)
  BY <1>9
<1>11. \A k \in (0..n) \ {r[n]} :
          bmcDataSetComparison(f.records[k], f.records[r[n]]) = A_better_then_B
  BY <1>3, <1>10
<1> QED
  BY <1>10, <1>11 DEF WorstRecord, r

\* When all records announce different grandmasters, what the BMC selects is
\* the worst of them, whatever their number and order: the counterexample to
\* BestMasterSelected is the rule (bmc.c:264-283, 407-425).
THEOREM WorstIsSelected ==
    Spec => [][DecideState /\ OwnGrandmasters(fm) => WorstRecord(fm, fm'.best)]_vars
<1>1. IInv /\ [Next]_vars =>
          [DecideState /\ OwnGrandmasters(fm) => WorstRecord(fm, fm'.best)]_vars
  <2> SUFFICES ASSUME IInv, DecideState, OwnGrandmasters(fm)
               PROVE  WorstRecord(fm, fm'.best)
    OBVIOUS
  <2>1. fm \in ForeignMasterDS /\ fm.count > 0
    BY DEF IInv, TypeOK, DecisionSoonTaken, DecideState, DecisionPending
  <2>2. \A s \in 0..(fm.count - 1) : fm.records[s] \in DataSet
    BY IdentityAssumption DEF IInv, TableInOrder
  <2>3. PICK b \in Candidates(fm) : Selects(fm, b) /\ fm' = [fm EXCEPT !.best = b]
    BY DEF DecideState
  <2>4. b = bestScan(fm)[fm.count - 1]
    BY <2>1, <2>3 DEF Selects, ForeignMasterDS
  <2>5. fm'.best = b
    BY <2>1, <2>3 DEF ForeignMasterDS
  <2> QED
    BY <2>1, <2>2, <2>4, <2>5, ScanEndsAtWorst
<1> QED
  BY <1>1, Invariance, PTL DEF Spec

-----------------------------------------------------------------------------
(* The network that changes once and for all.                              *)

\* The port in it is a port like any other.
THEOREM LiveImplementsPort == LiveSpec => Spec
<1>1. LiveInit => Init
  BY DEF LiveInit
<1>2. DoStateAtEnd => Next
  <2>1. ReceiveSync => Receive
    BY DEF ReceiveSync, Receive
  <2>2. ReceiveAtEnd => Receive
    <3>1. Primary.src \in Masters /\ "calibrated" \in Offsets
      BY SteadyAssumption DEF Masters, Offsets
    <3> QED
      BY <2>1, <3>1, SteadyAssumption DEF ReceiveAtEnd, Receive
  <2> QED
    BY <2>2 DEF DoStateAtEnd, Next, DoState
<1>3. ASSUME NEW t \in Timers, ExpireAtEnd(t) PROVE Next
  BY <1>3 DEF ExpireAtEnd, Next
<1>4. [LiveNext]_liveVars => [Next]_vars
  BY <1>2, <1>3 DEF LiveNext, liveVars
<1> QED
  BY <1>1, <1>4, PTL DEF LiveSpec, Spec

\* So its invariant holds there, and its ring of masters is the queue, whatever
\* the network does before and after (protocol.c:78-230, bmc.c:92-138).
THEOREM LivePortIsSafe ==
    LiveSpec => /\ [](IInv /\ ListenOnlyNeverMaster /\ DelayTimerKept /\ ParentIsSelected
                       /\ EventsAreFresh /\ SlaveCalibrated)
                /\ RingIsMasterQueue
BY LiveImplementsPort, Invariance, ListenOnlyPort, DelayTimerPresent, ParentFromRecord,
   FlagsFresh, SlaveIsCalibrated, RingImplementsQueue, PTL
=============================================================================
