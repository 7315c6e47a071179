CONSTANTS
    OwnClock = 2
    OwnQuality <- Own255
    Capacity = 2
    Announces <- Rivals
    SlaveOnly = TRUE
    DelayMechanism = "E2E"
    SequenceIds = {0}
    ZeroIntervals = TRUE
SPECIFICATION FairSpec
PROPERTIES
    SlaveKeepsAsking
