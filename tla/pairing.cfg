CONSTANTS
    OwnClock = 2
    OwnQuality <- Own255
    Capacity = 2
    Announces <- TwoMasters
    SlaveOnly = TRUE
    DelayMechanism = "E2E"
    SequenceIds = {0}
    ZeroIntervals = FALSE
SPECIFICATION Spec
INVARIANTS
    OffsetOfOneMaster
