CONSTANTS
    OwnClock = 2
    OwnQuality <- Own248
    Capacity = 2
    Announces <- ThreeMasters
    SlaveOnly = FALSE
    DelayMechanism = "P2P"
    SequenceIds = {0}
    ZeroIntervals = TRUE
SPECIFICATION Spec
INVARIANTS
    WatchesMaster
    MasterIsOwnParent
PROPERTIES
    NeverReinitialized
