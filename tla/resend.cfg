CONSTANTS
    OwnClock = 2
    OwnQuality <- Own248
    Capacity = 2
    Announces <- Rivals
    SlaveOnly = FALSE
    DelayMechanism = "E2E"
    SequenceIds = {0}
    ZeroIntervals = TRUE
SPECIFICATION FairSpec
PROPERTIES
    MasterKeepsSending
