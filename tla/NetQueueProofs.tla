--------------------------- MODULE NetQueueProofs ---------------------------
(***************************************************************************)
(* Proofs about a network queue, for every size of the ring and every set  *)
(* of pbufs: it implements a bounded FIFO, and no pbuf has two owners.     *)
(***************************************************************************)
EXTENDS NetQueue, FiniteSetTheorems, TLAPS

-----------------------------------------------------------------------------
(* The inductive invariant.                                                *)

PutInside == {"test", "store", "unlock", "reject"}
PtpInside == {"test", "load", "free", "unlock"}

\* The mutex is held by the thread that is inside.
MutexHeld ==
    /\ mutex = "tcpip" <=> put \in PutInside
    /\ mutex = "ptpd" <=> ptp \in PtpInside

\* The slot that is claimed is in use, the one that is passed is not yet.
SlotsApart ==
    /\ put = "store" => head # tail
    /\ ptp \in {"load", "free"} => After(head) # tail

\* Which thread has a pbuf in its hands.
Hands ==
    /\ putBuf # None <=> put \in {"lock", "test", "store", "reject"}
    /\ ptpBuf # None => ptp \in {"unlock", "use"}
    /\ ptp = "use" => ptpBuf # None

\* The pbufs of the queue c and in the hands x and y are different, and are
\* all that is allocated.
Owned(c, x, y, all) ==
    /\ c \in Seq(Pbufs)
    /\ \A k \in 1..Len(c) : c[k] # x /\ c[k] # y
    /\ \A j, k \in 1..Len(c) : c[j] = c[k] => j = k
    /\ x = y => x = None
    /\ all = ({c[k] : k \in 1..Len(c)} \cup {x, y}) \ {None}

QueueShape == QueueTypeOK /\ MutexHeld /\ SlotsApart /\ Hands

QueueInv == QueueShape /\ Owned(Contents, putBuf, ptpBuf, allocated)

-----------------------------------------------------------------------------
(* The ring.                                                               *)

\* Going round the ring once at most, in either direction.
LEMMA Round ==
    ASSUME NEW a \in Int, -QueueSize < a, a < 2 * QueueSize
    PROVE  a % QueueSize = IF a < 0 THEN a + QueueSize
                           ELSE IF a < QueueSize THEN a ELSE a - QueueSize
<1>1. QueueSize \in Nat /\ QueueSize > 1
  BY QueueAssumption
<1>2. \A b \in 0..(QueueSize - 1) : b % QueueSize = b
  BY <1>1
<1>3. CASE 0 <= a /\ a < QueueSize
  BY <1>1, <1>2, <1>3
<1>4. CASE a < 0
  <2> DEFINE b == a + QueueSize
  <2>1. b \in 0..(QueueSize - 1) /\ a = b - QueueSize
    BY <1>1, <1>4
  <2>2. (b - QueueSize) % QueueSize = b
    BY <1>1, <2>1
  <2> QED
    BY <1>1, <1>4, <2>1, <2>2
<1>5. CASE a >= QueueSize
  <2> DEFINE b == a - QueueSize
  <2>1. b \in 0..(QueueSize - 1) /\ a = b + QueueSize
    BY <1>1, <1>5
  <2>2. (b + QueueSize) % QueueSize = b
    BY <1>1, <2>1
  <2> QED
    BY <1>1, <1>5, <2>1, <2>2
<1> QED
  BY <1>1, <1>3, <1>4, <1>5

\* The next slot of the ring.
LEMMA AfterIs ==
    ASSUME NEW i \in Index
    PROVE  /\ After(i) \in Index
           /\ After(i) = IF i + 1 = QueueSize THEN 0 ELSE i + 1
<1>1. QueueSize \in Nat /\ QueueSize > 1 /\ i \in 0..(QueueSize - 1)
  BY QueueAssumption DEF Index
<1>2. (i + 1) % QueueSize = IF i + 1 < QueueSize THEN i + 1 ELSE i + 1 - QueueSize
  BY <1>1, Round
<1> QED
  BY <1>1, <1>2 DEF After, Index

Distance == IF tail <= head THEN head - tail ELSE head - tail + QueueSize

\* The length of the queue and where it starts.
Measures ==
    /\ Distance \in 0..(QueueSize - 1)
    /\ QueueLength = IF ptp \in {"load", "free"} THEN Distance + 1
                     ELSE IF put = "store" THEN Distance - 1 ELSE Distance
    /\ QueueLength \in 0..(QueueSize - 1)
    /\ FirstSlot \in Index

LEMMA LengthIs == QueueShape => Measures
<1> SUFFICES ASSUME QueueShape PROVE Measures
  OBVIOUS
<1>1. /\ QueueSize \in Nat /\ QueueSize > 1
      /\ head \in 0..(QueueSize - 1) /\ tail \in 0..(QueueSize - 1)
  BY QueueAssumption DEF QueueShape, QueueTypeOK, Index
<1>2. (head - tail) % QueueSize = Distance
  <2>1. head - tail \in Int /\ -QueueSize < head - tail /\ head - tail < QueueSize
    BY <1>1
  <2>2. (head - tail) % QueueSize =
            IF head - tail < 0 THEN head - tail + QueueSize ELSE head - tail
    BY <1>1, <2>1, Round
  <2> QED
    BY <1>1, <2>2 DEF Distance
<1>3. Distance \in 0..(QueueSize - 1)
  BY <1>1 DEF Distance
<1>4. ~(put = "store" /\ ptp \in {"load", "free"})
  BY DEF QueueShape, MutexHeld, PutInside, PtpInside
<1>5. put = "store" => Distance > 0
  BY <1>1 DEF QueueShape, SlotsApart, Distance
<1>6. ptp \in {"load", "free"} => Distance + 1 < QueueSize
  BY <1>1, AfterIs DEF QueueShape, SlotsApart, Distance, Index
<1>7. QueueLength = IF ptp \in {"load", "free"} THEN Distance + 1
                    ELSE IF put = "store" THEN Distance - 1 ELSE Distance
  BY <1>2, <1>3, <1>4 DEF QueueLength
<1>8. FirstSlot \in Index
  BY AfterIs DEF FirstSlot, QueueShape, QueueTypeOK
<1> QED
  BY <1>1, <1>3, <1>5, <1>6, <1>7, <1>8 DEF Measures

LEMMA LengthIsNext == QueueShape' => Measures'
BY LengthIs, PTL

Slot(k) == IF FirstSlot + k - 1 < QueueSize THEN FirstSlot + k - 1
           ELSE FirstSlot + k - 1 - QueueSize

\* The slot of the k-th message in the ring.
LEMMA EntriesAre ==
    ASSUME QueueShape, NEW k \in 1..QueueSize
    PROVE  (FirstSlot + k - 1) % QueueSize = Slot(k) /\ Slot(k) \in Index
<1>1. /\ QueueSize \in Nat /\ QueueSize > 1 /\ k \in 1..QueueSize
      /\ FirstSlot \in 0..(QueueSize - 1)
  BY QueueAssumption, LengthIs DEF Index, Measures
<1>2. (FirstSlot + k - 1) % QueueSize = Slot(k)
  BY <1>1, Round DEF Slot
<1> QED
  BY <1>1, <1>2 DEF Slot, Index

Entries ==
    /\ Contents = [k \in 1..QueueLength |-> pbuf[Slot(k)]]
    /\ Contents \in Seq(Pbufs \cup {None})
    /\ Len(Contents) = QueueLength

LEMMA ContentsAre == QueueShape => Entries
<1> SUFFICES ASSUME QueueShape PROVE Entries
  OBVIOUS
<1>1. QueueLength \in Nat /\ QueueLength < QueueSize
  BY LengthIs, QueueAssumption DEF Measures
<1>2. \A k \in 1..QueueLength : (FirstSlot + k - 1) % QueueSize = Slot(k) /\ Slot(k) \in Index
  BY <1>1, EntriesAre, QueueAssumption
<1>3. Contents = [k \in 1..QueueLength |-> pbuf[Slot(k)]]
  BY <1>2 DEF Contents
<1>4. \A k \in 1..QueueLength : pbuf[Slot(k)] \in Pbufs \cup {None}
  BY <1>2 DEF QueueShape, QueueTypeOK
<1> QED
  BY <1>1, <1>3, <1>4 DEF Entries

LEMMA ContentsAreNext == QueueShape' => Entries'
BY ContentsAre, PTL

-----------------------------------------------------------------------------
(* The shape is kept.                                                      *)

LEMMA ShapeInit == QueueInit => QueueShape
<1> SUFFICES ASSUME QueueInit PROVE QueueShape
  OBVIOUS
<1>1. QueueTypeOK
  BY QueueAssumption DEF QueueInit, QueueTypeOK, Index, Places, Operations
<1> QED
  BY <1>1 DEF QueueInit, QueueShape, MutexHeld, SlotsApart, Hands, PutInside, PtpInside

LEMMA QueueTypesKept == QueueShape /\ [QueueNext]_queueVars => QueueTypeOK'
<1> SUFFICES ASSUME QueueShape, [QueueNext]_queueVars PROVE QueueTypeOK'
  OBVIOUS
<1>1. QueueTypeOK /\ After(head) \in Index /\ After(tail) \in Index
  BY AfterIs DEF QueueShape, QueueTypeOK
<1>2. CASE (\E p \in Pbufs : PutCall(p)) \/ PutLock \/ PutFull \/ PutAdvance
  BY <1>1, <1>2 DEF QueueTypeOK, PutCall, PutLock, PutFull, PutAdvance, Lock, ring, putVars,
     ptpVars, Places
<1>3. CASE PutStore
  BY <1>1, <1>3 DEF QueueTypeOK, PutStore, ptpVars, Places
<1>4. CASE PutUnlock \/ PutReject
  BY <1>1, <1>4 DEF QueueTypeOK, PutUnlock, PutReject, Unlock, ring, ptpVars, Places
<1>5. CASE (\E o \in Operations : Call(o)) \/ CallLock \/ Nothing \/ Advance
  BY <1>1, <1>5 DEF QueueTypeOK, Call, CallLock, Nothing, Advance, Lock, ring, putVars, Places
<1>6. CASE Load \/ Free \/ CallUnlock \/ UsePbuf
  BY <1>1, <1>6 DEF QueueTypeOK, Load, Free, CallUnlock, UsePbuf, Unlock, ring, putVars, Places
<1>7. CASE UNCHANGED queueVars
  BY <1>1, <1>7 DEF QueueTypeOK, queueVars, ring, putVars, ptpVars
<1> QED
  BY <1>2, <1>3, <1>4, <1>5, <1>6, <1>7 DEF QueueNext, PutStep, CallStep

LEMMA QueueShapeKept == QueueShape /\ [QueueNext]_queueVars => QueueShape'
<1> SUFFICES ASSUME QueueShape, [QueueNext]_queueVars PROVE QueueShape'
  OBVIOUS
<1> USE DEF QueueShape
<1>1. QueueTypeOK'
  BY QueueTypesKept
<1>2. (MutexHeld /\ Hands)'
  <2>1. CASE (\E p \in Pbufs : PutCall(p)) \/ PutLock \/ PutFull \/ PutAdvance
    BY <2>1, QueueAssumption DEF MutexHeld, Hands, PutInside, PtpInside, PutCall, PutLock,
       PutFull, PutAdvance, Lock, ring, putVars, ptpVars
  <2>2. CASE PutStore \/ PutUnlock \/ PutReject
    BY <2>2 DEF MutexHeld, Hands, PutInside, PtpInside, PutStore, PutUnlock, PutReject,
       Unlock, ring, ptpVars
  <2>3. CASE (\E o \in Operations : Call(o)) \/ CallLock \/ Nothing \/ Advance
    BY <2>3 DEF MutexHeld, Hands, PutInside, PtpInside, Call, CallLock, Nothing, Advance,
       Lock, ring, putVars
  <2>4. CASE Load \/ Free \/ CallUnlock \/ UsePbuf
    BY <2>4 DEF MutexHeld, Hands, PutInside, PtpInside, Load, Free, CallUnlock, UsePbuf,
       Unlock, ring, putVars
  <2>5. CASE UNCHANGED queueVars
    BY <2>5 DEF MutexHeld, Hands, queueVars, ring, putVars, ptpVars
  <2> QED
    BY <2>1, <2>2, <2>3, <2>4, <2>5 DEF QueueNext, PutStep, CallStep
<1>3. SlotsApart'
  <2>1. CASE PutAdvance
    <3>1. ptp \notin {"load", "free"}
      BY <2>1 DEF PutAdvance, MutexHeld, PutInside, PtpInside
    <3> QED
      BY <2>1, <3>1 DEF PutAdvance, SlotsApart, ptpVars
  <2>2. CASE Advance
    <3>1. put # "store"
      BY <2>2 DEF Advance, MutexHeld, PutInside, PtpInside
    <3>2. After(head) # After(tail)
      BY <2>2, AfterIs, QueueAssumption DEF Advance, QueueTypeOK, Index
    <3> QED
      BY <2>2, <3>1, <3>2 DEF Advance, SlotsApart, putVars, After
  <2>3. CASE \/ \E p \in Pbufs : PutCall(p)
             \/ PutLock \/ PutFull \/ PutStore \/ PutUnlock \/ PutReject
    BY <2>3 DEF SlotsApart, After, PutCall, PutLock, PutFull, PutStore, PutUnlock, PutReject,
       ring, putVars, ptpVars
  <2>4. CASE \/ \E o \in Operations : Call(o)
             \/ CallLock \/ Nothing \/ Load \/ Free \/ CallUnlock \/ UsePbuf
    BY <2>4 DEF SlotsApart, After, Call, CallLock, Nothing, Load, Free, CallUnlock, UsePbuf,
       ring, putVars, ptpVars
  <2>5. CASE UNCHANGED queueVars
    BY <2>5 DEF SlotsApart, After, queueVars, ring, putVars, ptpVars
  <2> QED
    BY <2>1, <2>2, <2>3, <2>4, <2>5 DEF QueueNext, PutStep, CallStep
<1> QED
  BY <1>1, <1>2, <1>3

-----------------------------------------------------------------------------
(* What the steps make of the queue.                                       *)

\* A step that keeps the first slot, the length and the entries.
LEMMA SameContents ==
    ASSUME QueueShape, QueueShape', FirstSlot' = FirstSlot, QueueLength' = QueueLength,
           UNCHANGED pbuf
    PROVE  Contents' = Contents
<1>1. Contents = [k \in 1..QueueLength |-> pbuf[(FirstSlot + k - 1) % QueueSize]]
  BY DEF Contents
<1>2. Contents' = [k \in 1..QueueLength' |-> pbuf'[(FirstSlot' + k - 1) % QueueSize]]
  BY DEF Contents
<1> QED
  BY <1>1, <1>2

\* Claiming a slot and passing one change nothing yet.
LEMMA ClaimIsSilent ==
    ASSUME QueueShape, QueueShape', PutAdvance
    PROVE  Contents' = Contents
<1>1. ptp \notin {"load", "free"} /\ put # "store" /\ ptp' = ptp /\ put' = "store"
  BY DEF PutAdvance, QueueShape, MutexHeld, PutInside, PtpInside, ptpVars
<1>2. FirstSlot' = FirstSlot
  BY <1>1 DEF FirstSlot, PutAdvance, After
<1>3. QueueLength' = QueueLength
  <2>1. QueueLength = Distance
    BY <1>1, LengthIs DEF Measures
  <2>2. QueueLength' = Distance' - 1
    BY <1>1, LengthIsNext DEF Measures
  <2>3. Distance' = Distance + 1
    <3>1. /\ head \in Index /\ tail \in Index
          /\ After(head) # tail /\ head' = After(head) /\ tail' = tail
      BY DEF PutAdvance, QueueShape, QueueTypeOK
    <3>2. After(head) = IF head + 1 = QueueSize THEN 0 ELSE head + 1
      BY <3>1, AfterIs
    <3> QED
      BY <3>1, <3>2, QueueAssumption DEF Distance, Index
  <2>4. Distance \in Int
    BY LengthIs DEF Measures
  <2> QED
    BY <2>1, <2>2, <2>3, <2>4
<1> QED
  BY <1>2, <1>3, SameContents DEF PutAdvance

LEMMA PassIsSilent ==
    ASSUME QueueShape, QueueShape', Advance
    PROVE  Contents' = Contents
<1>1. ptp \notin {"load", "free"} /\ put # "store" /\ ptp' \in {"load", "free"} /\ put' = put
  BY DEF Advance, QueueShape, MutexHeld, PutInside, PtpInside, putVars
<1>2. FirstSlot' = FirstSlot
  BY <1>1 DEF FirstSlot, Advance, After
<1>3. QueueLength' = QueueLength
  <2>1. QueueLength = Distance
    BY <1>1, LengthIs DEF Measures
  <2>2. QueueLength' = Distance' + 1
    BY <1>1, LengthIsNext DEF Measures
  <2>3. Distance' = Distance - 1
    <3>1. /\ head \in Index /\ tail \in Index
          /\ tail # head /\ tail' = After(tail) /\ head' = head
      BY DEF Advance, QueueShape, QueueTypeOK
    <3>2. After(tail) = IF tail + 1 = QueueSize THEN 0 ELSE tail + 1
      BY <3>1, AfterIs
    <3> QED
      BY <3>1, <3>2, QueueAssumption DEF Distance, Index
  <2>4. Distance \in Int
    BY LengthIs DEF Measures
  <2> QED
    BY <2>1, <2>2, <2>3, <2>4
<1> QED
  BY <1>2, <1>3, SameContents DEF Advance

\* What the sequence operators return, entry by entry.
LEMMA AppendIs ==
    ASSUME NEW S, NEW s \in Seq(S), NEW e \in S
    PROVE  /\ Append(s, e) \in Seq(S) /\ Len(s) \in Nat /\ Len(Append(s, e)) = Len(s) + 1
           /\ \A k \in 1..(Len(s) + 1) : Append(s, e)[k] = IF k = Len(s) + 1 THEN e ELSE s[k]
OBVIOUS

LEMMA SequencesAgree ==
    ASSUME NEW S, NEW s \in Seq(S), NEW t \in Seq(S), Len(s) = Len(t),
           \A k \in 1..Len(s) : s[k] = t[k]
    PROVE  s = t
OBVIOUS

\* The pbuf that is stored becomes the last of a queue that had room for it.
LEMMA StoreAppends ==
    ASSUME QueueShape, QueueShape', PutStore
    PROVE  Contents' = Append(Contents, putBuf) /\ Len(Contents) < QueueSize - 1
<1>1. ptp \notin {"load", "free"} /\ put = "store" /\ ptp' = ptp /\ put' = "unlock"
  BY DEF PutStore, QueueShape, MutexHeld, PutInside, PtpInside, ptpVars
<1>2. FirstSlot' = FirstSlot /\ FirstSlot = After(tail)
  BY <1>1 DEF FirstSlot, PutStore, After
<1>3. QueueLength = Distance - 1 /\ QueueLength' = Distance' /\ Distance' = Distance
  BY <1>1, LengthIs, LengthIsNext DEF PutStore, Distance, Measures
<1>4. /\ QueueSize \in Nat /\ QueueSize > 1
      /\ head \in 0..(QueueSize - 1) /\ tail \in 0..(QueueSize - 1) /\ head # tail
      /\ FirstSlot \in 0..(QueueSize - 1)
      /\ FirstSlot = IF tail + 1 = QueueSize THEN 0 ELSE tail + 1
      /\ Distance \in 1..(QueueSize - 1)
  BY <1>1, <1>2, AfterIs, LengthIs, QueueAssumption
     DEF QueueShape, QueueTypeOK, SlotsApart, Index, Distance, Measures
<1>5. \A k \in 1..QueueLength : Slot(k) \in Index /\ Slot(k) # head
  BY <1>3, <1>4 DEF Slot, Distance, Index
<1>6. Slot(QueueLength + 1) = head
  BY <1>3, <1>4 DEF Slot, Distance
<1>7. \A k : Slot(k)' = Slot(k)
  BY <1>2 DEF Slot
<1>8. /\ pbuf' = [pbuf EXCEPT ![head] = putBuf] /\ head \in Index
      /\ pbuf \in [Index -> Pbufs \cup {None}]
  BY DEF PutStore, QueueShape, QueueTypeOK
<1>9. Contents = [k \in 1..QueueLength |-> pbuf[Slot(k)]] /\ Len(Contents) = QueueLength
      /\ Contents \in Seq(Pbufs \cup {None})
  BY ContentsAre DEF Entries
<1>10. Contents' = [k \in 1..(QueueLength + 1) |-> pbuf'[Slot(k)]]
  <2>1. Contents' = [k \in 1..QueueLength' |-> pbuf'[Slot(k)']]
    BY ContentsAreNext DEF Entries
  <2>2. QueueLength' = QueueLength + 1
    BY <1>3, <1>4
  <2> QED
    BY <1>7, <2>1, <2>2
<1>11. \A k \in 1..(QueueLength + 1) :
          pbuf'[Slot(k)] = IF k = QueueLength + 1 THEN putBuf ELSE pbuf[Slot(k)]
  BY <1>3, <1>4, <1>5, <1>6, <1>8
<1>12. /\ Append(Contents, putBuf) \in Seq(Pbufs \cup {None})
       /\ Len(Append(Contents, putBuf)) = QueueLength + 1
       /\ \A k \in 1..(QueueLength + 1) :
             Append(Contents, putBuf)[k] = IF k = QueueLength + 1 THEN putBuf ELSE Contents[k]
  <2>1. putBuf \in Pbufs \cup {None}
    BY DEF QueueShape, QueueTypeOK
  <2>2. Contents \in Seq(Pbufs \cup {None}) /\ Len(Contents) = QueueLength
    BY <1>9
  <2> QED
    BY <2>1, <2>2, AppendIs
<1>13. \A k \in 1..(QueueLength + 1) : k # QueueLength + 1 => Contents[k] = pbuf[Slot(k)]
  BY <1>3, <1>4, <1>9
<1>14. Contents' \in Seq(Pbufs \cup {None}) /\ Len(Contents') = QueueLength + 1
  <2>1. Contents' \in Seq(Pbufs \cup {None}) /\ Len(Contents)' = QueueLength'
    BY ContentsAreNext DEF Entries
  <2> QED
    BY <1>3, <1>4, <2>1
<1>15. \A k \in 1..(QueueLength + 1) : Contents'[k] = Append(Contents, putBuf)[k]
  BY <1>10, <1>11, <1>12, <1>13
<1>16. Contents' = Append(Contents, putBuf)
  BY <1>12, <1>14, <1>15, SequencesAgree
<1> QED
  BY <1>3, <1>4, <1>9, <1>16

\* The pbuf that is read, or freed, is the first of the queue.
LEMMA ReadTakesFirst ==
    ASSUME QueueShape, QueueShape', Load \/ Free
    PROVE  /\ Contents # <<>>
           /\ pbuf[tail] = Head(Contents)
           /\ Contents' = Tail(Contents)
<1>1. /\ ptp \in {"load", "free"} /\ ptp' \notin {"load", "free"}
      /\ put # "store" /\ put' # "store"
  BY DEF Load, Free, QueueShape, MutexHeld, PutInside, PtpInside, putVars
<1>2. /\ FirstSlot = tail /\ FirstSlot' = After(tail)
      /\ pbuf' = pbuf /\ Distance' = Distance
  BY <1>1 DEF FirstSlot, Load, Free, ring, After, Distance
<1>3. QueueLength = Distance + 1 /\ QueueLength' = Distance /\ Distance \in 0..(QueueSize - 1)
  BY <1>1, <1>2, LengthIs, LengthIsNext DEF Measures
<1>4. /\ QueueSize \in Nat /\ QueueSize > 1 /\ tail \in 0..(QueueSize - 1)
      /\ FirstSlot' = IF tail + 1 = QueueSize THEN 0 ELSE tail + 1
      /\ QueueLength < QueueSize
  BY <1>2, AfterIs, LengthIs, QueueAssumption DEF QueueShape, QueueTypeOK, Index, Measures
<1>5. Contents = [k \in 1..QueueLength |-> pbuf[Slot(k)]] /\ Len(Contents) = QueueLength
      /\ Contents \in Seq(Pbufs \cup {None})
  BY ContentsAre DEF Entries
<1>6. Contents' = [k \in 1..Distance |-> pbuf[Slot(k)']]
  <2>1. Contents' = [k \in 1..QueueLength' |-> pbuf'[Slot(k)']]
    BY ContentsAreNext DEF Entries
  <2> QED
    BY <1>2, <1>3, <2>1
<1>7. \A k \in 1..Distance : Slot(k)' = Slot(k + 1)
  BY <1>2, <1>3, <1>4 DEF Slot
<1>8. Slot(1) = tail
  BY <1>2, <1>4 DEF Slot
<1>9. Contents # <<>> /\ Head(Contents) = Contents[1] /\ Contents[1] = pbuf[tail]
  BY <1>3, <1>5, <1>8
<1>10. Tail(Contents) = [k \in 1..Distance |-> Contents[k + 1]]
  BY <1>3, <1>5
<1>11. \A k \in 1..Distance : Contents[k + 1] = pbuf[Slot(k + 1)]
  BY <1>3, <1>5
<1> QED
  BY <1>6, <1>7, <1>9, <1>10, <1>11

-----------------------------------------------------------------------------
(* Ownership.                                                              *)

LEMMA TailIs ==
    ASSUME NEW S, NEW s \in Seq(S), s # <<>>
    PROVE  /\ Tail(s) \in Seq(S) /\ Head(s) = s[1] /\ Head(s) \in S
           /\ Len(s) \in Nat /\ Len(s) > 0 /\ Len(Tail(s)) = Len(s) - 1
           /\ \A k \in 1..(Len(s) - 1) : Tail(s)[k] = s[k + 1]
OBVIOUS

\* Ownership passes on: a new pbuf to the callback, from there into the ring, from
\* there to the PTP thread or back to lwIP.
LEMMA OwnedByPut ==
    ASSUME NEW c, NEW y, NEW all, NEW p \in Pbufs, Owned(c, None, y, all), p \notin all
    PROVE  Owned(c, p, y, all \cup {p})
BY QueueAssumption DEF Owned

\* A thread gives back its pbuf.
LEMMA OwnedWithoutPut ==
    ASSUME NEW c, NEW x, NEW y, NEW all, Owned(c, x, y, all), x # None
    PROVE  Owned(c, None, y, all \ {x})
<1>1. c \in Seq(Pbufs) /\ \A k \in 1..Len(c) : c[k] \in Pbufs
  BY DEF Owned
<1> QED
  BY <1>1, QueueAssumption DEF Owned

LEMMA OwnedWithoutPtp ==
    ASSUME NEW c, NEW x, NEW y, NEW all, Owned(c, x, y, all), y # None
    PROVE  Owned(c, x, None, all \ {y})
<1>1. c \in Seq(Pbufs) /\ \A k \in 1..Len(c) : c[k] \in Pbufs
  BY DEF Owned
<1> QED
  BY <1>1, QueueAssumption DEF Owned

LEMMA OwnedWhenStored ==
    ASSUME NEW c, NEW x \in Pbufs, NEW y, NEW all, Owned(c, x, y, all)
    PROVE  Owned(Append(c, x), None, y, all)
<1>1. c \in Seq(Pbufs) /\ Len(c) \in Nat /\ Append(c, x) \in Seq(Pbufs)
  BY DEF Owned
<1>2. Len(Append(c, x)) = Len(c) + 1
  BY <1>1
<1>3. \A k \in 1..(Len(c) + 1) : Append(c, x)[k] = IF k = Len(c) + 1 THEN x ELSE c[k]
  BY <1>1, AppendIs
<1>4. \A k \in 1..(Len(c) + 1) : k # Len(c) + 1 => k \in 1..Len(c)
  BY <1>1
<1>5. \A k \in 1..Len(c) : k \in 1..(Len(c) + 1) /\ k # Len(c) + 1
  BY <1>1
<1>6. Len(c) + 1 \in 1..(Len(c) + 1)
  BY <1>1
<1>7. x # None /\ \A k \in 1..Len(c) : c[k] \in Pbufs /\ c[k] # None
  BY <1>1, QueueAssumption
<1>8. {Append(c, x)[k] : k \in 1..(Len(c) + 1)} = {c[k] : k \in 1..Len(c)} \cup {x}
  BY <1>3, <1>4, <1>5, <1>6
<1>9. \A k \in 1..(Len(c) + 1) : Append(c, x)[k] # None /\ Append(c, x)[k] # y
  BY <1>3, <1>4, <1>7 DEF Owned
<1>10. \A j, k \in 1..(Len(c) + 1) : Append(c, x)[j] = Append(c, x)[k] => j = k
  BY <1>3, <1>4 DEF Owned
<1>11. all = ({c[k] : k \in 1..Len(c)} \cup {x} \cup {None, y}) \ {None}
  BY <1>7 DEF Owned
<1> QED
  BY <1>1, <1>2, <1>8, <1>9, <1>10, <1>11 DEF Owned

\* Without its first pbuf the queue is as before.
LEMMA OwnedButFirst ==
    ASSUME NEW c, NEW x, NEW y, NEW all, Owned(c, x, y, all), c # <<>>
    PROVE  /\ Tail(c) \in Seq(Pbufs)
           /\ Head(c) \in Pbufs /\ Head(c) # x /\ Head(c) # y
           /\ \A k \in 1..Len(Tail(c)) : Tail(c)[k] \notin {x, y, Head(c)}
           /\ \A j, k \in 1..Len(Tail(c)) : Tail(c)[j] = Tail(c)[k] => j = k
           /\ {c[k] : k \in 1..Len(c)} = {Tail(c)[k] : k \in 1..Len(Tail(c))} \cup {Head(c)}
<1>1. c \in Seq(Pbufs)
  BY DEF Owned
<1>2. /\ Tail(c) \in Seq(Pbufs) /\ Head(c) = c[1] /\ Head(c) \in Pbufs
      /\ Len(c) \in Nat /\ Len(c) > 0 /\ Len(Tail(c)) = Len(c) - 1
      /\ \A k \in 1..(Len(c) - 1) : Tail(c)[k] = c[k + 1]
  BY <1>1, TailIs
<1>3. /\ 1 \in 1..Len(c)
      /\ \A k \in 1..(Len(c) - 1) : k + 1 \in 1..Len(c) /\ k + 1 # 1
      /\ \A k \in 1..Len(c) : k # 1 => k - 1 \in 1..(Len(c) - 1) /\ (k - 1) + 1 = k
  BY <1>2
<1>4. \A k \in 1..(Len(c) - 1) : Tail(c)[k] \notin {x, y, Head(c)}
  BY <1>2, <1>3 DEF Owned
<1>5. \A j, k \in 1..(Len(c) - 1) : Tail(c)[j] = Tail(c)[k] => j = k
  <2> SUFFICES ASSUME NEW j \in 1..(Len(c) - 1), NEW k \in 1..(Len(c) - 1),
                      Tail(c)[j] = Tail(c)[k]
               PROVE  j = k
    OBVIOUS
  <2>1. j + 1 = k + 1
    BY <1>2, <1>3 DEF Owned
  <2> QED
    BY <1>2, <2>1
<1>6. {c[k] : k \in 1..Len(c)} = {Tail(c)[k] : k \in 1..(Len(c) - 1)} \cup {Head(c)}
  <2>1. \A k \in 1..Len(c) : k # 1 => c[k] = Tail(c)[k - 1] /\ k - 1 \in 1..(Len(c) - 1)
    BY <1>2, <1>3
  <2>2. \A k \in 1..(Len(c) - 1) : Tail(c)[k] = c[k + 1] /\ k + 1 \in 1..Len(c)
    BY <1>2, <1>3
  <2> QED
    BY <1>2, <1>3, <2>1, <2>2
<1> QED
  BY <1>2, <1>3, <1>4, <1>5, <1>6 DEF Owned

LEMMA OwnedWhenTaken ==
    ASSUME NEW c, NEW x, NEW all, Owned(c, x, None, all), c # <<>>
    PROVE  Owned(Tail(c), x, Head(c), all)
<1>1. Head(c) # None
  BY OwnedButFirst, QueueAssumption
<1> QED
  BY <1>1, OwnedButFirst DEF Owned

LEMMA OwnedWhenFreed ==
    ASSUME NEW c, NEW x, NEW y, NEW all, Owned(c, x, y, all), c # <<>>
    PROVE  Owned(Tail(c), x, y, all \ {Head(c)})
<1>1. Head(c) # None
  BY OwnedButFirst, QueueAssumption
<1>2. all = ({Tail(c)[k] : k \in 1..Len(Tail(c))} \cup {Head(c)} \cup {x, y}) \ {None}
  BY OwnedButFirst DEF Owned
<1>3. Head(c) \notin {Tail(c)[k] : k \in 1..Len(Tail(c))} \cup {x, y}
  BY OwnedButFirst
<1>4. all \ {Head(c)} = ({Tail(c)[k] : k \in 1..Len(Tail(c))} \cup {x, y}) \ {None}
  BY <1>1, <1>2, <1>3
<1> QED
  BY <1>4, OwnedButFirst DEF Owned

-----------------------------------------------------------------------------
(* The theorems.                                                           *)

\* The steps that leave the queue as the PTP thread sees it.
QuietStep ==
    \/ \E p \in Pbufs : PutCall(p)
    \/ PutLock \/ PutFull \/ PutAdvance \/ PutUnlock \/ PutReject
    \/ \E o \in Operations : Call(o)
    \/ CallLock \/ Nothing \/ Advance \/ CallUnlock \/ UsePbuf
    \/ UNCHANGED queueVars

LEMMA QuietSteps ==
    ASSUME QueueShape, QueueShape', QuietStep
    PROVE  Contents' = Contents
<1>1. CASE PutAdvance \/ Advance
  BY <1>1, ClaimIsSilent, PassIsSilent
<1>2. CASE \/ \E p \in Pbufs : PutCall(p)
           \/ PutLock \/ PutFull \/ PutUnlock \/ PutReject
  <2>1. /\ UNCHANGED <<head, tail, pbuf, ptp>>
        /\ put # "store" /\ put' # "store"
    BY <1>2 DEF PutCall, PutLock, PutFull, PutUnlock, PutReject, ring, ptpVars
  <2>2. FirstSlot' = FirstSlot /\ QueueLength' = QueueLength
    BY <2>1 DEF FirstSlot, QueueLength, After
  <2> QED
    BY <2>1, <2>2, SameContents
<1>3. CASE \/ \E o \in Operations : Call(o)
           \/ CallLock \/ Nothing \/ CallUnlock \/ UsePbuf
  <2>1. /\ UNCHANGED <<head, tail, pbuf, put>>
        /\ ptp \notin {"load", "free"} /\ ptp' \notin {"load", "free"}
    BY <1>3 DEF Call, CallLock, Nothing, CallUnlock, UsePbuf, ring, putVars
  <2>2. FirstSlot' = FirstSlot /\ QueueLength' = QueueLength
    BY <2>1 DEF FirstSlot, QueueLength, After
  <2> QED
    BY <2>1, <2>2, SameContents
<1>4. CASE UNCHANGED queueVars
  BY <1>4 DEF queueVars, ring, putVars, ptpVars, Contents, QueueLength, FirstSlot, After
<1> QED
  BY <1>1, <1>2, <1>3, <1>4 DEF QuietStep

LEMMA QueueSteps ==
    [QueueNext]_queueVars => QuietStep \/ PutStore \/ Load \/ Free
BY DEF QueueNext, PutStep, CallStep, QuietStep

LEMMA OwnedInit == QueueInit => Owned(Contents, putBuf, ptpBuf, allocated)
<1> SUFFICES ASSUME QueueInit PROVE Owned(Contents, putBuf, ptpBuf, allocated)
  OBVIOUS
<1>1. QueueShape /\ Distance = 0 /\ ptp = "idle" /\ put = "idle"
  BY ShapeInit DEF QueueInit, Distance
<1>2. QueueLength = 0
  BY <1>1, LengthIs DEF Measures
<1>3. Contents = <<>>
  BY <1>2 DEF Contents
<1> QED
  BY <1>3 DEF QueueInit, Owned

LEMMA OwnedKept ==
    QueueInv /\ QueueShape' /\ [QueueNext]_queueVars
        => Owned(Contents, putBuf, ptpBuf, allocated)'
<1> SUFFICES ASSUME QueueInv, QueueShape', [QueueNext]_queueVars
             PROVE  Owned(Contents', putBuf', ptpBuf', allocated')
  BY DEF Owned
<1>1. QueueShape /\ Owned(Contents, putBuf, ptpBuf, allocated)
  BY DEF QueueInv
<1>2. putBuf \in Pbufs \cup {None} /\ Hands /\ MutexHeld
  BY <1>1 DEF QueueShape, QueueTypeOK
<1>3. CASE PutStore
  <2>1. putBuf \in Pbufs
    BY <1>2, <1>3 DEF PutStore, Hands
  <2>2. Contents' = Append(Contents, putBuf)
    BY <1>1, <1>3, StoreAppends
  <2> QED
    BY <1>1, <1>3, <2>1, <2>2, OwnedWhenStored DEF PutStore, ptpVars
<1>4. CASE Load
  <2>1. /\ Contents # <<>> /\ pbuf[tail] = Head(Contents) /\ Contents' = Tail(Contents)
    BY <1>1, <1>4, ReadTakesFirst
  <2>2. ptpBuf = None
    BY <1>2, <1>4 DEF Load, Hands
  <2> QED
    BY <1>1, <1>4, <2>1, <2>2, OwnedWhenTaken DEF Load, putVars
<1>5. CASE Free
  <2>1. /\ Contents # <<>> /\ pbuf[tail] = Head(Contents) /\ Contents' = Tail(Contents)
    BY <1>1, <1>5, ReadTakesFirst
  <2> QED
    BY <1>1, <1>5, <2>1, OwnedWhenFreed DEF Free, putVars
<1>6. CASE QuietStep
  <2>1. Contents' = Contents
    BY <1>1, <1>6, QuietSteps
  <2>2. CASE \E p \in Pbufs : PutCall(p)
    <3>1. PICK p \in Pbufs : PutCall(p)
      BY <2>2
    <3>2. putBuf = None
      BY <1>2, <3>1 DEF PutCall, Hands
    <3> QED
      BY <1>1, <2>1, <3>1, <3>2, OwnedByPut DEF PutCall, ptpVars
  <2>3. CASE PutReject
    <3>1. putBuf # None
      BY <1>2, <2>3 DEF PutReject, Hands
    <3> QED
      BY <1>1, <2>1, <2>3, <3>1, OwnedWithoutPut DEF PutReject, ptpVars
  <2>4. CASE UsePbuf
    <3>1. ptpBuf # None
      BY <1>2, <2>4 DEF UsePbuf, Hands
    <3> QED
      BY <1>1, <2>1, <2>4, <3>1, OwnedWithoutPtp DEF UsePbuf, putVars
  <2>5. CASE \/ PutLock \/ PutFull \/ PutAdvance \/ PutUnlock
             \/ \E o \in Operations : Call(o)
             \/ CallLock \/ Nothing \/ Advance \/ CallUnlock \/ UNCHANGED queueVars
    <3>1. UNCHANGED <<putBuf, ptpBuf, allocated>>
      BY <2>5 DEF PutLock, PutFull, PutAdvance, PutUnlock, Call, CallLock, Nothing, Advance,
         CallUnlock, putVars, ptpVars, queueVars
    <3> QED
      BY <1>1, <2>1, <3>1
  <2> QED
    BY <1>6, <2>2, <2>3, <2>4, <2>5 DEF QuietStep
<1> QED
  BY <1>3, <1>4, <1>5, <1>6, QueueSteps

\* The inductive invariant of the queue, whatever its size.
THEOREM QueueInvariance == QueueSpec => []QueueInv
<1>1. QueueInit => QueueInv
  BY ShapeInit, OwnedInit DEF QueueInv
<1>2. QueueInv /\ [QueueNext]_queueVars => QueueInv'
  BY QueueShapeKept, OwnedKept DEF QueueInv
<1> QED
  BY <1>1, <1>2, PTL DEF QueueSpec

\* The ring implements the bounded FIFO: storing a pbuf is Put, reading one is
\* Get, freeing one in netQEmpty is Discard, and the claiming and passing of
\* slots is not seen.
THEOREM RingImplementsFifo == QueueSpec => RingIsFifo
<1>1. QueueInit => Fifo!Init
  <2> SUFFICES ASSUME QueueInit PROVE Fifo!Init
    OBVIOUS
  <2>1. QueueShape /\ Distance = 0 /\ ptp = "idle" /\ put = "idle"
    BY ShapeInit DEF QueueInit, Distance
  <2>2. QueueLength = 0
    BY <2>1, LengthIs DEF Measures
  <2>3. Contents = <<>>
    BY <2>2 DEF Contents
  <2> QED
    BY <2>3 DEF QueueInit, Fifo!Init
<1>2. QueueInv /\ QueueInv' /\ [QueueNext]_queueVars => [Fifo!Next]_<<Contents, ptpBuf>>
  <2> SUFFICES ASSUME QueueInv, QueueInv', [QueueNext]_queueVars
               PROVE  [Fifo!Next]_<<Contents, ptpBuf>>
    OBVIOUS
  <2>1. QueueShape /\ QueueShape'
    BY DEF QueueInv
  <2>2. CASE PutStore
    <3>1. putBuf \in Pbufs
      BY <2>1, <2>2 DEF PutStore, QueueShape, QueueTypeOK, Hands
    <3>2. Contents' = Append(Contents, putBuf) /\ Len(Contents) < QueueSize - 1
      BY <2>1, <2>2, StoreAppends
    <3> QED
      BY <2>2, <3>1, <3>2 DEF PutStore, ptpVars, Fifo!Next, Fifo!Put
  <2>3. CASE Load \/ Free
    <3>1. Contents # <<>> /\ pbuf[tail] = Head(Contents) /\ Contents' = Tail(Contents)
      BY <2>1, <2>3, ReadTakesFirst
    <3> QED
      BY <2>3, <3>1 DEF Load, Free, Fifo!Next, Fifo!Get, Fifo!Discard
  <2>4. CASE QuietStep
    <3>1. Contents' = Contents
      BY <2>1, <2>4, QuietSteps
    <3>2. ptpBuf' = ptpBuf \/ ptpBuf' = None
      BY <2>4 DEF QuietStep, PutCall, PutLock, PutFull, PutAdvance, PutUnlock, PutReject, Call,
         CallLock, Nothing, Advance, CallUnlock, UsePbuf, ptpVars, queueVars
    <3> QED
      BY <3>1, <3>2 DEF Fifo!Next, Fifo!Release
  <2> QED
    BY <2>2, <2>3, <2>4, QueueSteps
<1> QED
  BY <1>1, <1>2, QueueInvariance, PTL DEF QueueSpec, RingIsFifo, Fifo!Spec

\* As many pbufs as there are slots in use, and one for each hand that is full.
LEMMA OwnedCounts ==
    ASSUME NEW c, NEW x, NEW y, NEW all, Owned(c, x, y, all)
    PROVE  Cardinality(all) = Len(c) + (IF x # None THEN 1 ELSE 0)
                                     + (IF y # None THEN 1 ELSE 0)
<1> DEFINE inQueue == {c[k] : k \in 1..Len(c)}
<1>1. c \in Seq(Pbufs) /\ Len(c) \in Nat /\ DOMAIN c = 1..Len(c)
      /\ \A k \in 1..Len(c) : c[k] \in Pbufs /\ c[k] # None
  BY QueueAssumption DEF Owned
<1>2. IsFiniteSet(inQueue) /\ Cardinality(inQueue) = Len(c)
  <2>1. c \in [1..Len(c) -> inQueue]
    BY <1>1
  <2>2. c \in Bijection(1..Len(c), inQueue)
    BY <2>1 DEF Owned, Bijection, Injection, Surjection, IsInjective
  <2>3. IsFiniteSet(1..Len(c)) /\ Cardinality(1..Len(c)) = Len(c)
    BY <1>1, FS_Interval
  <2> QED
    BY <2>2, <2>3, FS_Bijection DEF ExistsBijection
<1>3. None \notin inQueue /\ x \notin inQueue /\ y \notin inQueue
  BY <1>1 DEF Owned
<1>4. all = (inQueue \cup {x, y}) \ {None} /\ (x = y => x = None)
  BY DEF Owned
<1> HIDE DEF inQueue
<1>5. /\ IsFiniteSet(inQueue \cup {x})
      /\ Cardinality(inQueue \cup {x}) = Len(c) + 1
  BY <1>2, <1>3, FS_AddElement
<1>6. /\ IsFiniteSet(inQueue \cup {y})
      /\ Cardinality(inQueue \cup {y}) = Len(c) + 1
  BY <1>2, <1>3, FS_AddElement
<1>7. CASE x = None /\ y = None
  <2>1. all = inQueue
    BY <1>3, <1>4, <1>7
  <2> QED
    BY <1>1, <1>2, <1>7, <2>1
<1>8. CASE x # None /\ y = None
  <2>1. all = inQueue \cup {x}
    BY <1>3, <1>4, <1>8
  <2> QED
    BY <1>1, <1>5, <1>8, <2>1
<1>9. CASE x = None /\ y # None
  <2>1. all = inQueue \cup {y}
    BY <1>3, <1>4, <1>9
  <2> QED
    BY <1>1, <1>6, <1>9, <2>1
<1>10. CASE x # None /\ y # None
  <2>1. all = (inQueue \cup {x}) \cup {y} /\ y \notin inQueue \cup {x}
    BY <1>3, <1>4, <1>10
  <2>2. Cardinality(all) = Len(c) + 1 + 1
    BY <1>5, <2>1, FS_AddElement
  <2> QED
    BY <1>1, <1>10, <2>2
<1> QED
  BY <1>7, <1>8, <1>9, <1>10

\* The pbufs that the two threads hold, counted.
LEMMA HandsCounted ==
    Cardinality({t \in {"put", "ptp"} : (IF t = "put" THEN putBuf ELSE ptpBuf) # None})
        = (IF putBuf # None THEN 1 ELSE 0) + (IF ptpBuf # None THEN 1 ELSE 0)
<1> DEFINE full == {t \in {"put", "ptp"} : (IF t = "put" THEN putBuf ELSE ptpBuf) # None}
<1> HIDE DEF full
<1> SUFFICES Cardinality(full) = (IF putBuf # None THEN 1 ELSE 0)
                                 + (IF ptpBuf # None THEN 1 ELSE 0)
  BY DEF full
<1>1. CASE putBuf = None /\ ptpBuf = None
  <2>1. full = {}
    BY <1>1 DEF full
  <2> QED
    BY <1>1, <2>1, FS_EmptySet
<1>2. CASE putBuf # None /\ ptpBuf = None
  <2>1. full = {"put"}
    BY <1>2 DEF full
  <2>2. Cardinality(full) = 1
    BY <2>1, FS_Singleton
  <2> QED
    BY <1>2, <2>2
<1>3. CASE putBuf = None /\ ptpBuf # None
  <2>1. full = {"ptp"}
    BY <1>3 DEF full
  <2>2. Cardinality(full) = 1
    BY <2>1, FS_Singleton
  <2> QED
    BY <1>3, <2>2
<1>4. CASE putBuf # None /\ ptpBuf # None
  <2>1. full = {"put"} \cup {"ptp"}
    BY <1>4 DEF full
  <2>2. IsFiniteSet({"put"}) /\ Cardinality({"put"}) = 1 /\ "ptp" \notin {"put"}
    BY FS_Singleton
  <2>3. Cardinality({"put"} \cup {"ptp"}) = 1 + 1
    BY <2>2, FS_AddElement
  <2> QED
    BY <1>4, <2>1, <2>3
<1> QED
  BY <1>1, <1>2, <1>3, <1>4

\* No pbuf is leaked, freed twice or read after it was freed.
THEOREM PbufsHaveOneOwner == QueueSpec => []EveryPbufHasOneOwner
<1>1. QueueInv => EveryPbufHasOneOwner
  <2> SUFFICES ASSUME QueueInv PROVE EveryPbufHasOneOwner
    OBVIOUS
  <2>1. QueueShape /\ Owned(Contents, putBuf, ptpBuf, allocated)
    BY DEF QueueInv
  <2>2. Len(Contents) = QueueLength /\ QueueLength \in Int
    BY <2>1, ContentsAre, LengthIs DEF Entries, Measures
  <2>3. allocated = ({Contents[k] : k \in 1..QueueLength} \cup {putBuf, ptpBuf}) \ {None}
    BY <2>1, <2>2 DEF Owned
  <2>4. Cardinality(allocated) = QueueLength + (IF putBuf # None THEN 1 ELSE 0)
                                             + (IF ptpBuf # None THEN 1 ELSE 0)
    <3>1. Cardinality(allocated) = Len(Contents) + (IF putBuf # None THEN 1 ELSE 0)
                                                 + (IF ptpBuf # None THEN 1 ELSE 0)
      BY <2>1, OwnedCounts
    <3> QED
      BY <2>2, <3>1
  <2> QED
    BY <2>2, <2>3, <2>4, HandsCounted DEF EveryPbufHasOneOwner
<1> QED
  BY <1>1, QueueInvariance, PTL
=============================================================================
