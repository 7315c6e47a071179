------------------------------- MODULE EthTx -------------------------------
(***************************************************************************)
(* Sending a frame: low_level_output of the Ethernet interface             *)
(* (lwip-1.4.1/port/STM32F4x7/arch/ethernetif.c), called by every thread   *)
(* that sends, with ETH_Prepare_Transmit_Descriptors_TimeStamp of the      *)
(* driver (stm32f4x7_eth.c), the semaphore of RTX, and the transmit DMA.   *)
(*                                                                         *)
(* The statements are kept apart as far as another thread or the DMA can   *)
(* tell.  The body of a frame is the thread that sends it.  A frame fits   *)
(* one descriptor, as the MTU makes sure.                                  *)
(***************************************************************************)
EXTENDS Integers

CONSTANTS
    TxThreads,      \* the PTP thread, the TCP/IP thread, ...
    TxDescriptors,  \* ETH_TXBUFNB
    NoFrame, OldFrame

ASSUME TxAssumption ==
    /\ TxDescriptors \in Nat \ {0}
    /\ NoFrame \notin TxThreads /\ OldFrame \notin TxThreads

VARIABLES
    txPc,       \* where each thread is in low_level_output
    txTokens,   \* the tokens of s_xTxSemaphore
    txBuffer,   \* the descriptor whose buffer a thread fills
    txStatus,   \* the OWN bit a thread has read on its way to clear TTSS
    txStamp,    \* the frame whose time stamp a thread has got
    toSet,      \* DMATxDescToSet
    own,        \* OWN: the descriptors that belong to the DMA
    body,       \* whose frame is in the buffer of each descriptor
    ttss,       \* TTSS: whose time stamp is in each descriptor
    dmaAt,      \* the descriptor that the DMA looks at
    tbus,       \* TBUS: the DMA is suspended
    timedOut,   \* history: a wait for the semaphore has timed out
    gaveUp      \* history: a wait for a time stamp has been given up

txCpu  == <<txPc, txTokens, txBuffer, txStatus, txStamp, toSet>>
txRing == <<own, body, ttss>>
txDma  == <<dmaAt, tbus>>
txHistory == <<timedOut, gaveUp>>
txVars == <<txCpu, txRing, txDma, txHistory>>

Descriptors == 0..(TxDescriptors - 1)
Following(d) == (d + 1) % TxDescriptors

TxAt(t, place) == txPc[t] = place
TxGo(t, place) == txPc' = [txPc EXCEPT ![t] = place]

-----------------------------------------------------------------------------
(* The semaphore.                                                          *)

TxCall(t) ==
    /\ TxAt(t, "idle")
    /\ IF txTokens > 0
       THEN txTokens' = txTokens - 1 /\ TxGo(t, "point")
       ELSE TxGo(t, "wait") /\ UNCHANGED txTokens
    /\ UNCHANGED <<txBuffer, txStatus, txStamp, toSet, txRing, txDma, txHistory>>

\* sys_arch_sem_wait returns SYS_ARCH_TIMEOUT, which is not 0: the frame is
\* sent just as if the token had been got, whose return value, the ticks that
\* have elapsed, is not 0 either.
TxTimeout(t) ==
    /\ TxAt(t, "wait")
    /\ TxGo(t, "point")
    /\ timedOut' = TRUE
    /\ UNCHANGED <<txTokens, txBuffer, txStatus, txStamp, toSet, txRing, txDma, gaveUp>>

\* The call is over: its locals are gone, and its frame, if it is still
\* around, is an old one.
Aged(t, f) == [d \in Descriptors |-> IF f[d] = t THEN OldFrame ELSE f[d]]

TxReturn(t) ==
    /\ body' = Aged(t, body)
    /\ ttss' = Aged(t, ttss)
    /\ txStamp' = [txStamp EXCEPT ![t] = NoFrame]
    /\ txBuffer' = [txBuffer EXCEPT ![t] = 0]
    /\ txStatus' = [txStatus EXCEPT ![t] = FALSE]

\* Defect: a token is both handed to a waiting thread and stored.
TxSignalTwice(t) ==
    /\ TxAt(t, "signal")
    /\ \/ \E w \in TxThreads :
             TxAt(w, "wait") /\ txPc' = [txPc EXCEPT ![t] = "idle", ![w] = "point"]
       \/ (\A w \in TxThreads : ~TxAt(w, "wait")) /\ TxGo(t, "idle")
    /\ txTokens' = txTokens + 1
    /\ TxReturn(t)
    /\ UNCHANGED <<toSet, own, txDma, txHistory>>

\* rt_sem_send hands the token to a thread that waits, else stores it.
TxSignal(t) ==
    /\ TxAt(t, "signal")
    /\ \/ /\ \E w \in TxThreads :
                TxAt(w, "wait") /\ txPc' = [txPc EXCEPT ![t] = "idle", ![w] = "point"]
          /\ UNCHANGED txTokens
       \/ /\ \A w \in TxThreads : ~TxAt(w, "wait")
          /\ TxGo(t, "idle")
          /\ txTokens' = txTokens + 1
    /\ TxReturn(t)
    /\ UNCHANGED <<toSet, own, txDma, txHistory>>

-----------------------------------------------------------------------------
(* The frame.                                                              *)

TxPoint(t) ==
    /\ TxAt(t, "point")
    /\ txBuffer' = [txBuffer EXCEPT ![t] = toSet]
    /\ TxGo(t, "copy")
    /\ UNCHANGED <<txTokens, txStatus, txStamp, toSet, txRing, txDma, txHistory>>

\* The frame is copied before anyone asks whose the buffer is.
TxCopy(t) ==
    /\ TxAt(t, "copy")
    /\ body' = [body EXCEPT ![txBuffer[t]] = t]
    /\ TxGo(t, "test")
    /\ UNCHANGED <<txTokens, txBuffer, txStatus, txStamp, toSet, own, ttss, txDma, txHistory>>

TxNoDescriptor(t) ==
    /\ TxAt(t, "test")
    /\ own[toSet]
    /\ TxGo(t, "signal")
    /\ UNCHANGED <<txTokens, txBuffer, txStatus, txStamp, toSet, txRing, txDma, txHistory>>

TxDescriptor(t) ==
    /\ TxAt(t, "test")
    /\ ~own[toSet]
    /\ TxGo(t, "handover")
    /\ UNCHANGED <<txTokens, txBuffer, txStatus, txStamp, toSet, txRing, txDma, txHistory>>

TxHandover(t) ==
    /\ TxAt(t, "handover")
    /\ own' = [own EXCEPT ![toSet] = TRUE]
    /\ TxGo(t, "resume")
    /\ UNCHANGED <<txTokens, txBuffer, txStatus, txStamp, toSet, body, ttss, txDma, txHistory>>

\* Defect: a suspended DMA is left suspended.
TxResumeNot(t) ==
    /\ TxAt(t, "resume")
    /\ TxGo(t, "stamp")
    /\ UNCHANGED <<txTokens, txBuffer, txStatus, txStamp, toSet, txRing, txDma, txHistory>>

TxResume(t) ==
    /\ TxAt(t, "resume")
    /\ tbus' = FALSE
    /\ TxGo(t, "stamp")
    /\ UNCHANGED <<txTokens, txBuffer, txStatus, txStamp, toSet, txRing, dmaAt, txHistory>>

-----------------------------------------------------------------------------
(* The time stamp.                                                         *)

TxStamped(t) ==
    /\ TxAt(t, "stamp")
    /\ ttss[toSet] # NoFrame
    /\ txStamp' = [txStamp EXCEPT ![t] = ttss[toSet]]
    /\ TxGo(t, "clear")
    /\ UNCHANGED <<txTokens, txBuffer, txStatus, toSet, txRing, txDma, txHistory>>

\* PHY_READ_TO rounds without a time stamp, or with one only in the last round:
\* the frame has none, but the call is a success.
TxGiveUp(t) ==
    /\ TxAt(t, "stamp")
    /\ gaveUp' = TRUE
    /\ TxGo(t, "clear")
    /\ UNCHANGED <<txTokens, txBuffer, txStatus, txStamp, toSet, txRing, txDma, timedOut>>

\* Status &= ~TTSS reads the word, which the DMA may write ...
TxReadStatus(t) ==
    /\ TxAt(t, "clear")
    /\ txStatus' = [txStatus EXCEPT ![t] = own[toSet]]
    /\ TxGo(t, "advance")
    /\ UNCHANGED <<txTokens, txBuffer, txStamp, toSet, txRing, txDma, txHistory>>

\* Defect: the time stamp is left in the descriptor.
TxAdvanceUncleared(t) ==
    /\ TxAt(t, "advance")
    /\ own' = [own EXCEPT ![toSet] = txStatus[t]]
    /\ toSet' = Following(toSet)
    /\ TxGo(t, "signal")
    /\ UNCHANGED <<txTokens, txBuffer, txStatus, txStamp, body, ttss, txDma, txHistory>>

\* ... before it is written back with the OWN bit it had.
TxAdvance(t) ==
    /\ TxAt(t, "advance")
    /\ own' = [own EXCEPT ![toSet] = txStatus[t]]
    /\ ttss' = [ttss EXCEPT ![toSet] = NoFrame]
    /\ toSet' = Following(toSet)
    /\ TxGo(t, "signal")
    /\ UNCHANGED <<txTokens, txBuffer, txStatus, txStamp, body, txDma, txHistory>>

-----------------------------------------------------------------------------
(* The DMA sends the frames in the order of the ring.                      *)

DmaSend ==
    /\ ~tbus
    /\ own[dmaAt]
    /\ own' = [own EXCEPT ![dmaAt] = FALSE]
    /\ ttss' = [ttss EXCEPT ![dmaAt] = body[dmaAt]]
    /\ dmaAt' = Following(dmaAt)
    /\ UNCHANGED <<txCpu, body, tbus, txHistory>>

DmaSuspend ==
    /\ ~tbus
    /\ ~own[dmaAt]
    /\ tbus' = TRUE
    /\ UNCHANGED <<txCpu, txRing, dmaAt, txHistory>>

-----------------------------------------------------------------------------

EthTxInit ==
    /\ txPc = [t \in TxThreads |-> "idle"]
    /\ txTokens = 1
    /\ txBuffer = [t \in TxThreads |-> 0]
    /\ txStatus = [t \in TxThreads |-> FALSE]
    /\ txStamp = [t \in TxThreads |-> NoFrame]
    /\ toSet = 0
    /\ own = [d \in Descriptors |-> FALSE]
    /\ body = [d \in Descriptors |-> OldFrame]
    /\ ttss = [d \in Descriptors |-> NoFrame]
    /\ dmaAt = 0 /\ tbus = TRUE
    /\ timedOut = FALSE /\ gaveUp = FALSE

\* What a thread does of its own accord once it sends.
TxStep(t) ==
    \/ TxTimeout(t) \/ TxPoint(t) \/ TxCopy(t) \/ TxNoDescriptor(t)
    \/ TxDescriptor(t) \/ TxHandover(t) \/ TxResume(t) \/ TxStamped(t)
    \/ TxGiveUp(t) \/ TxReadStatus(t) \/ TxAdvance(t) \/ TxSignal(t)

DmaStep == DmaSend \/ DmaSuspend

EthTxNext == (\E t \in TxThreads : TxCall(t) \/ TxStep(t)) \/ DmaStep

EthTxSpec == EthTxInit /\ [][EthTxNext]_txVars

\* The threads go on sending, the waits end, and the DMA runs.
EthTxFairness ==
    /\ \A t \in TxThreads : WF_txVars(TxCall(t) \/ TxStep(t))
    /\ WF_txVars(DmaStep)

EthTxFairSpec == EthTxSpec /\ EthTxFairness

-----------------------------------------------------------------------------
(* Properties.                                                             *)

Frames == TxThreads \cup {NoFrame, OldFrame}

Inside == {"point", "copy", "test", "handover", "resume", "stamp",
           "clear", "advance", "signal"}

\* Every variable has its type.
EthTxTypeOK ==
    /\ txPc \in [TxThreads -> Inside \cup {"idle", "wait"}]
    /\ txTokens \in Nat
    /\ txBuffer \in [TxThreads -> Descriptors]
    /\ txStatus \in [TxThreads -> BOOLEAN]
    /\ txStamp \in [TxThreads -> Frames]
    /\ toSet \in Descriptors /\ dmaAt \in Descriptors
    /\ own \in [Descriptors -> BOOLEAN]
    /\ body \in [Descriptors -> Frames]
    /\ ttss \in [Descriptors -> Frames]
    /\ tbus \in BOOLEAN /\ timedOut \in BOOLEAN /\ gaveUp \in BOOLEAN

Holds(t) == txPc[t] \in Inside

\* Only one thread at a time works on the descriptors.
TxExclusive == \A t, u \in TxThreads : Holds(t) /\ Holds(u) => t = u

\* Two threads work on the descriptors only after one has waited 250 ms for
\* the semaphore: never before, and never because of the token that a thread
\* that was not given one has released (ethernetif.c:230-263).
TxExclusiveUntilTimeout == ~timedOut => TxExclusive

\* A frame that waits for the DMA is not overwritten by the next one, which is
\* copied before the OWN bit is tested, as long as every frame got its time
\* stamp in time: then the DMA was done with it before its sender returned.
WaitingFrameKept ==
    ~timedOut /\ ~gaveUp =>
        \A t \in TxThreads : TxAt(t, "copy") => ~own[txBuffer[t]]

\* The time stamp that a sender gets is the one of its own frame, unless an
\* earlier wait was given up: that frame's stamp is then left for the next
\* frame to use the descriptor (stm32f4x7_eth.c:1272-1290).
StampOfOwnFrame ==
    ~timedOut /\ ~gaveUp => \A t \in TxThreads : txStamp[t] \in {NoFrame, t}

\* As long as no wait for the semaphore has timed out, frames go on being
\* sent, whatever else goes wrong (time stamps that do not come, a descriptor
\* given back to the DMA by the clearing of its flag): the ring never jams with
\* no descriptor left for the frame that would wake up the DMA.  A single wait
\* that times out can jam it for good: two threads then advance DMATxDescToSet
\* past a descriptor that the DMA waits for (stm32f4x7_eth.c:1204-1296).
TxNeverJams == []~timedOut => []<>(\E t \in TxThreads : TxAt(t, "handover"))
=============================================================================
