------------------------------ MODULE NetQueue ------------------------------
(***************************************************************************)
(* One BufQueue of ptpd-2.0.0/src/dep/net.c: a ring of pbufs that the      *)
(* TCP/IP thread fills from its UDP callback (netQPut) and the PTP thread  *)
(* looks at, drains and empties (netQCheck, netQGet, netQEmpty), each      *)
(* under the mutex of the queue.  The steps inside a critical section are  *)
(* kept apart, so that what the mutex is needed for can be seen.           *)
(***************************************************************************)
EXTENDS Integers, Sequences, FiniteSets

CONSTANTS
    QueueSize,   \* PBUF_QUEUE_SIZE, a power of two: & PBUF_QUEUE_MASK is %
    Pbufs,
    None

ASSUME QueueAssumption == QueueSize \in Nat \ {0, 1} /\ None \notin Pbufs

VARIABLES
    head, tail, pbuf,  \* the ring: head was filled last, tail emptied last
    mutex,             \* the thread that holds queue->mutex, or "none"
    put, putBuf,       \* the TCP/IP thread: its place in netQPut, its pbuf
    ptp, op, ptpBuf,   \* the PTP thread: its place in the operation op, its pbuf
    allocated          \* the pbufs that have not been freed

ring    == <<head, tail, pbuf>>
putVars == <<put, putBuf>>
ptpVars == <<ptp, op, ptpBuf>>
queueVars == <<ring, mutex, putVars, ptpVars, allocated>>

Index == 0..(QueueSize - 1)
Operations == {"get", "check", "empty"}

\* Defect: the mask is forgotten.
AfterWithoutMask(i) == i + 1

After(i) == (i + 1) % QueueSize

\* Defect: the lock is not waited for.
LockAnyway(thread) == mutex' = thread

Lock(thread) == mutex = "none" /\ mutex' = thread

Unlock == mutex' = "none"

-----------------------------------------------------------------------------
(* The TCP/IP thread: a UDP callback puts its pbuf into the queue, and     *)
(* frees it when the queue is full.                                        *)

PutCall(p) ==
    /\ put = "idle"
    /\ p \notin allocated
    /\ allocated' = allocated \cup {p}
    /\ putBuf' = p
    /\ put' = "lock"
    /\ UNCHANGED <<ring, mutex, ptpVars>>

PutLock ==
    /\ put = "lock"
    /\ Lock("tcpip")
    /\ put' = "test"
    /\ UNCHANGED <<ring, putBuf, ptpVars, allocated>>

PutFull ==
    /\ put = "test"
    /\ After(head) = tail
    /\ put' = "reject"
    /\ UNCHANGED <<ring, mutex, putBuf, ptpVars, allocated>>

PutAdvance ==
    /\ put = "test"
    /\ After(head) # tail
    /\ head' = After(head)
    /\ put' = "store"
    /\ UNCHANGED <<tail, pbuf, mutex, putBuf, ptpVars, allocated>>

PutStore ==
    /\ put = "store"
    /\ pbuf' = [pbuf EXCEPT ![head] = putBuf]
    /\ putBuf' = None
    /\ put' = "unlock"
    /\ UNCHANGED <<head, tail, mutex, ptpVars, allocated>>

PutUnlock ==
    /\ put = "unlock"
    /\ Unlock
    /\ put' = "idle"
    /\ UNCHANGED <<ring, putBuf, ptpVars, allocated>>

\* Defect: the callback forgets the pbuf it could not queue.
PutRejectForgotten ==
    /\ put = "reject"
    /\ Unlock
    /\ putBuf' = None
    /\ put' = "idle"
    /\ UNCHANGED <<ring, ptpVars, allocated>>

\* The queue was full: netQPut unlocks, its caller frees the pbuf.
PutReject ==
    /\ put = "reject"
    /\ Unlock
    /\ allocated' = allocated \ {putBuf}
    /\ putBuf' = None
    /\ put' = "idle"
    /\ UNCHANGED <<ring, ptpVars>>

-----------------------------------------------------------------------------
(* The PTP thread.                                                         *)

Call(o) ==
    /\ ptp = "idle"
    /\ op' = o
    /\ ptp' = "lock"
    /\ UNCHANGED <<ring, mutex, putVars, ptpBuf, allocated>>

CallLock ==
    /\ ptp = "lock"
    /\ Lock("ptpd")
    /\ ptp' = "test"
    /\ UNCHANGED <<ring, putVars, op, ptpBuf, allocated>>

\* netQCheck only looks; netQGet and netQEmpty find nothing (more).
Nothing ==
    /\ ptp = "test"
    /\ op = "check" \/ tail = head
    /\ ptp' = "unlock"
    /\ UNCHANGED <<ring, mutex, putVars, op, ptpBuf, allocated>>

\* Defect: netQEmpty leaves the tail where it is.
AdvanceNowhere ==
    /\ ptp = "test"
    /\ op # "check" /\ tail # head
    /\ tail' = IF op = "get" THEN After(tail) ELSE tail
    /\ ptp' = IF op = "get" THEN "load" ELSE "free"
    /\ UNCHANGED <<head, pbuf, mutex, putVars, op, ptpBuf, allocated>>

Advance ==
    /\ ptp = "test"
    /\ op # "check" /\ tail # head
    /\ tail' = After(tail)
    /\ ptp' = IF op = "get" THEN "load" ELSE "free"
    /\ UNCHANGED <<head, pbuf, mutex, putVars, op, ptpBuf, allocated>>

Load ==
    /\ ptp = "load"
    /\ ptpBuf' = pbuf[tail]
    /\ ptp' = "unlock"
    /\ UNCHANGED <<ring, mutex, putVars, op, allocated>>

\* The loop of netQEmpty frees one pbuf and looks for the next.
Free ==
    /\ ptp = "free"
    /\ allocated' = allocated \ {pbuf[tail]}
    /\ ptp' = "test"
    /\ UNCHANGED <<ring, mutex, putVars, op, ptpBuf>>

CallUnlock ==
    /\ ptp = "unlock"
    /\ Unlock
    /\ ptp' = IF ptpBuf = None THEN "idle" ELSE "use"
    /\ UNCHANGED <<ring, putVars, op, ptpBuf, allocated>>

\* netRecv copies the pbuf it got and frees it.
UsePbuf ==
    /\ ptp = "use"
    /\ allocated' = allocated \ {ptpBuf}
    /\ ptpBuf' = None
    /\ ptp' = "idle"
    /\ UNCHANGED <<ring, mutex, putVars, op>>

-----------------------------------------------------------------------------

\* netQInit.
QueueInit ==
    /\ head = 0 /\ tail = 0
    /\ pbuf = [i \in Index |-> None]
    /\ mutex = "none"
    /\ put = "idle" /\ putBuf = None
    /\ ptp = "idle" /\ op = "check" /\ ptpBuf = None
    /\ allocated = {}

PutStep  == PutLock \/ PutFull \/ PutAdvance \/ PutStore \/ PutUnlock \/ PutReject
CallStep == CallLock \/ Nothing \/ Advance \/ Load \/ Free \/ CallUnlock \/ UsePbuf

QueueNext ==
    \/ \E p \in Pbufs : PutCall(p)
    \/ PutStep
    \/ \E o \in Operations : Call(o)
    \/ CallStep

QueueSpec == QueueInit /\ [][QueueNext]_queueVars

\* Both threads run, and a mutex that is waited for is handed over in turn.
QueueFairness ==
    /\ WF_queueVars(PutStep) /\ SF_queueVars(PutLock)
    /\ WF_queueVars(CallStep) /\ SF_queueVars(CallLock)

QueueFairSpec == QueueSpec /\ QueueFairness

-----------------------------------------------------------------------------
(* Properties.                                                             *)

Places == {"idle", "lock", "test", "unlock"}

\* Every variable has its type.
QueueTypeOK ==
    /\ head \in Index /\ tail \in Index
    /\ pbuf \in [Index -> Pbufs \cup {None}]
    /\ mutex \in {"none", "tcpip", "ptpd"}
    /\ put \in Places \cup {"store", "reject"} /\ putBuf \in Pbufs \cup {None}
    /\ ptp \in Places \cup {"load", "free", "use"} /\ op \in Operations
    /\ ptpBuf \in Pbufs \cup {None}
    /\ allocated \subseteq Pbufs

\* The number of slots in use, as the PTP thread is to see it: the slot that
\* netQPut has claimed but not filled does not count, the one that the PTP
\* thread has passed but not read does.
FirstSlot  == IF ptp \in {"load", "free"} THEN tail ELSE After(tail)
QueueLength == ((head - tail) % QueueSize)
               + (IF ptp \in {"load", "free"} THEN 1 ELSE 0)
               - (IF put = "store" THEN 1 ELSE 0)

Contents == [k \in 1..QueueLength |-> pbuf[(FirstSlot + k - 1) % QueueSize]]

Fifo == INSTANCE BoundedFifo
            WITH Limit <- QueueSize - 1, Messages <- Pbufs,
                 fifo <- Contents, got <- ptpBuf

\* The ring is a first-in first-out queue of QueueSize - 1 pbufs, in spite of
\* the two threads and of the pbuf that is stored after head has moved
\* (net.c:14-71).
RingIsFifo == Fifo!Spec

\* No pbuf is leaked, and none is reachable from two places at once: each one
\* allocated is in one slot of the queue or in the hands of one thread, so
\* none is freed twice or read after it was freed.
EveryPbufHasOneOwner ==
    /\ allocated = ({Contents[k] : k \in 1..QueueLength} \cup {putBuf, ptpBuf}) \ {None}
    /\ Cardinality(allocated) =
          QueueLength + Cardinality({t \in {"put", "ptp"} :
                                  (IF t = "put" THEN putBuf ELSE ptpBuf) # None})

\* A UDP callback always gets its turn at the queue and returns to lwIP.
CallbackReturns == put = "lock" ~> put = "idle"
=============================================================================
