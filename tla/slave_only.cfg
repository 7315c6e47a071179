CONSTANTS
    OwnClock = 2
    OwnQuality <- Own255
    Capacity = 2
    Announces <- ChangingMasters
    SlaveOnly = TRUE
    DelayMechanism = "E2E"
    SequenceIds = {0, 1}
    ZeroIntervals = FALSE
SPECIFICATION LiveSpec
INVARIANTS
    ListenOnlyNeverMaster
    DelayTimerKept
    ParentIsSelected
    EventsAreFresh
    SlaveCalibrated
    IInv
PROPERTIES
    RingIsMasterQueue
    MissingMasterGivenUp
    SteadyMasterFollowed
    SlaveGoesOnAsking
