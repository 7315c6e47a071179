CONSTANTS
    OwnClock = 2
    OwnQuality <- Own6
    Capacity = 2
    Announces <- Rivals
    SlaveOnly = FALSE
    DelayMechanism = "P2P"
    SequenceIds = {0}
    ZeroIntervals = TRUE
SPECIFICATION Spec
INVARIANTS
    NoStrayTimer
    GrandmasterNeverSlave
