------------------------------- MODULE EthRx -------------------------------
(***************************************************************************)
(* Receiving frames: the receive DMA and its interrupt                     *)
(* (src/code/src/stm32f4xx_it.c), the Ethernet thread that drains the ring *)
(* (ethernetif_input, low_level_input of ethernetif.c, with the driver's   *)
(* ETH_Get_Received_Frame_interrupt) and the mailbox of the TCP/IP thread. *)
(*                                                                         *)
(* Priorities matter: a thread runs only while no interrupt is served, and *)
(* the TCP/IP thread only while the Ethernet thread is blocked.            *)
(***************************************************************************)
EXTENDS Integers

CONSTANTS
    RxDescriptors,  \* ETH_RXBUFNB
    MailboxSlots,   \* TCPIP_MBOX_SIZE, or MEMP_NUM_TCPIP_MSG_INPKT if less
    SemaphoreLimit  \* osFeature_Semaphore

ASSUME RxAssumption ==
    /\ RxDescriptors \in Nat \ {0} /\ MailboxSlots \in Nat \ {0}
    /\ SemaphoreLimit \in Nat
    /\ SemaphoreLimit > RxDescriptors + MailboxSlots

VARIABLES
    rxFrames,   \* the frames that wait in the ring
    rs,         \* RS: a frame was received, the interrupt is requested
    rbus,       \* RBUS: the DMA found no descriptor and is suspended
    isr,        \* ETH_IRQHandler: "idle", or what it does next
    rxTokens,   \* the tokens of s_xRxSemaphore
    rx,         \* the Ethernet thread: it waits, has input or an output
    mailbox,    \* the pbufs in the mailbox of the TCP/IP thread
    refused     \* history: the last drain ended because a frame was dropped

rxVars == <<rxFrames, rs, rbus, isr, rxTokens, rx, mailbox, refused>>

-----------------------------------------------------------------------------
(* The DMA, which runs at any time.                                        *)

RxArrive ==
    /\ ~rbus
    /\ rxFrames < RxDescriptors
    /\ rxFrames' = rxFrames + 1
    /\ rs' = TRUE
    /\ UNCHANGED <<rbus, isr, rxTokens, rx, mailbox, refused>>

\* The frame is lost, and so are all that follow until the DMA is resumed.
RxUnavailable ==
    /\ ~rbus
    /\ rxFrames = RxDescriptors
    /\ rbus' = TRUE
    /\ UNCHANGED <<rxFrames, rs, isr, rxTokens, rx, mailbox, refused>>

-----------------------------------------------------------------------------
(* The interrupt.                                                          *)

IsrEnter ==
    /\ isr = "idle"
    /\ rs
    /\ isr' = "signal"
    /\ UNCHANGED <<rxFrames, rs, rbus, rxTokens, rx, mailbox, refused>>

\* Defect: the flag is cleared without a signal.
IsrClearFirst ==
    /\ isr = "signal"
    /\ rs' = FALSE
    /\ isr' = "idle"
    /\ UNCHANGED <<rxFrames, rbus, rxTokens, rx, mailbox, refused>>

\* sys_sem_signal does not return when the semaphore is at its limit.
IsrSignal ==
    /\ isr = "signal"
    /\ IF rxTokens < SemaphoreLimit
       THEN rxTokens' = rxTokens + 1 /\ isr' = "clear"
       ELSE isr' = "stuck" /\ UNCHANGED rxTokens
    /\ UNCHANGED <<rxFrames, rs, rbus, rx, mailbox, refused>>

\* A frame that has arrived since the signal gets none of its own.
IsrClear ==
    /\ isr = "clear"
    /\ rs' = FALSE
    /\ isr' = "idle"
    /\ UNCHANGED <<rxFrames, rbus, rxTokens, rx, mailbox, refused>>

-----------------------------------------------------------------------------
(* The Ethernet thread.                                                    *)

\* The 100 ms of the wait only lead to the next wait.
RxWait ==
    /\ isr = "idle" /\ rx = "wait"
    /\ rxTokens > 0
    /\ rxTokens' = rxTokens - 1
    /\ rx' = "input"
    /\ UNCHANGED <<rxFrames, rs, rbus, isr, mailbox, refused>>

\* low_level_input takes a frame out of the ring, gives the descriptor back and
\* resumes the DMA.
TakeFrame ==
    /\ isr = "idle" /\ rx = "input"
    /\ rxFrames > 0
    /\ rxFrames' = rxFrames - 1
    /\ rbus' = FALSE

RxInput ==
    /\ TakeFrame
    /\ rx' = "pass"
    /\ UNCHANGED <<rs, isr, rxTokens, mailbox, refused>>

\* Defect: no pbuf, so the DMA is not resumed.
RxDropEarly ==
    /\ isr = "idle" /\ rx = "input"
    /\ rxFrames > 0
    /\ rxFrames' = rxFrames - 1
    /\ rx' = "wait"
    /\ refused' = TRUE
    /\ UNCHANGED <<rs, rbus, isr, rxTokens, mailbox>>

\* The frame has an error or the pool, which the sockets and the network queues
\* hold pbufs of, is exhausted.
RxDrop ==
    /\ TakeFrame
    /\ rx' = "wait"
    /\ refused' = TRUE
    /\ UNCHANGED <<rs, isr, rxTokens, mailbox>>

\* No frame, but low_level_input looks for the error bit in the descriptor NULL
\* and, if it does not find it set there, gets an empty pbuf.
RxNoFrame ==
    /\ isr = "idle" /\ rx = "input"
    /\ rxFrames = 0
    /\ rbus' = FALSE
    /\ \/ rx' = "wait" /\ refused' = FALSE
       \/ rx' = "pass" /\ UNCHANGED refused
    /\ UNCHANGED <<rxFrames, rs, isr, rxTokens, mailbox>>

RxPass ==
    /\ isr = "idle" /\ rx = "pass"
    /\ mailbox < MailboxSlots
    /\ mailbox' = mailbox + 1
    /\ rx' = "input"
    /\ UNCHANGED <<rxFrames, rs, rbus, isr, rxTokens, refused>>

\* The mailbox is full, perhaps with messages of other threads: the pbuf is
\* freed, and the drain ends.
RxRefused ==
    /\ isr = "idle" /\ rx = "pass"
    /\ rx' = "wait"
    /\ refused' = TRUE
    /\ UNCHANGED <<rxFrames, rs, rbus, isr, rxTokens, mailbox>>

\* Defect: the TCP/IP thread has the priority of the Ethernet thread.
TcpipFetchAnyTime ==
    /\ isr = "idle"
    /\ mailbox > 0
    /\ mailbox' = mailbox - 1
    /\ UNCHANGED <<rxFrames, rs, rbus, isr, rxTokens, rx, refused>>

TcpipFetch ==
    /\ isr = "idle" /\ rx = "wait" /\ rxTokens = 0
    /\ mailbox > 0
    /\ mailbox' = mailbox - 1
    /\ UNCHANGED <<rxFrames, rs, rbus, isr, rxTokens, rx, refused>>

-----------------------------------------------------------------------------

EthRxInit ==
    /\ rxFrames = 0 /\ rs = FALSE /\ rbus = FALSE
    /\ isr = "idle"
    /\ rxTokens = 0
    /\ rx = "wait"
    /\ mailbox = 0
    /\ refused = FALSE

DmaReceive == RxArrive \/ RxUnavailable
IsrStep == IsrEnter \/ IsrSignal \/ IsrClear
RxStep  == \/ RxWait \/ RxInput \/ RxDrop \/ RxNoFrame \/ RxPass \/ RxRefused

EthRxNext == DmaReceive \/ IsrStep \/ RxStep \/ TcpipFetch

EthRxSpec == EthRxInit /\ [][EthRxNext]_rxVars

\* The interrupt is served, and the thread gets to run between interrupts: it
\* needs SF, as the next frame can interrupt it before each of its steps.
EthRxFairness == WF_rxVars(IsrStep) /\ SF_rxVars(RxStep)

EthRxFairSpec == EthRxSpec /\ EthRxFairness

-----------------------------------------------------------------------------
(* Properties.                                                             *)

\* Every variable has its type.
EthRxTypeOK ==
    /\ rxFrames \in 0..RxDescriptors
    /\ rs \in BOOLEAN /\ rbus \in BOOLEAN /\ refused \in BOOLEAN
    /\ isr \in {"idle", "signal", "clear", "stuck"}
    /\ rxTokens \in 0..SemaphoreLimit
    /\ rx \in {"wait", "input", "pass"}
    /\ mailbox \in 0..MailboxSlots

\* Somebody is about to look into the ring.
DrainAwaited == rs \/ rxTokens > 0 \/ rx # "wait" \/ isr = "signal"

\* The semaphore never reaches its limit, however fast frames arrive: a token
\* that is not used up by a drain stands for a frame in the ring or a pbuf in
\* the mailbox, which empties only when there are no tokens.  So the interrupt
\* never ends in the endless loop of sys_sem_signal (sys_arch.c:236-241).
IsrReturns == isr # "stuck"

\* A suspended DMA, and a full ring, always have a drain on the way that will
\* free a descriptor and resume it, though flags are lost between the signal
\* and the clearing and drains end early (stm32f4xx_it.c:145-158).
FullRingIsDrained == rbus \/ rxFrames = RxDescriptors => DrainAwaited

\* A frame can be left in the ring with nobody to look for it, until the next
\* one arrives, only when the last drain ended with a frame that was dropped
\* (ethernetif.c:371-386).
FrameIsAwaited == rxFrames > 0 /\ ~refused => DrainAwaited
=============================================================================
