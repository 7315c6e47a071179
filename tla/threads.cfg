CONSTANTS
    QueueSize = 4
    Pbufs = {p1, p2, p3, p4}
    None = None
    EventMessages = {e1, e2, e3}
    GeneralMessages = {g1, g2}
    BadMessages = {e3, g2}
    QueueLimit = 2
    MailboxSize = 2
    TxThreads = {ptpd, tcpip}
    TxDescriptors = 2
    NoFrame = NoFrame
    OldFrame = OldFrame
    RxDescriptors = 3
    MailboxSlots = 2
    SemaphoreLimit = 6
SPECIFICATION ThreadsSpec
INVARIANTS
    ThreadsTypeOK
    EveryPbufHasOneOwner
    NoLostWakeup
    EventsFirst
    TxExclusiveUntilTimeout
    WaitingFrameKept
    StampOfOwnFrame
    IsrReturns
    FullRingIsDrained
    FrameIsAwaited
PROPERTIES
    RingIsFifo
    QueueCallbackReturns
    LoopHandlesEvents
    TransmitNeverJams
