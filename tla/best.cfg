CONSTANTS
    OwnClock = 2
    OwnQuality <- Own255
    Capacity = 3
    Announces <- TwoMasters
    SlaveOnly = TRUE
    DelayMechanism = "E2E"
    SequenceIds = {0}
    ZeroIntervals = FALSE
SPECIFICATION Spec
INVARIANTS
    BestMasterSelected
