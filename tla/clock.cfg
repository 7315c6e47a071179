CONSTANTS
    Peers = {a, b}
    SeqMod = 3
    LifeTime = 2
    MaxMessages = 3
    Cleared = Cleared
    NsPerSec = 1000000
    FilterBits = 20
    MaxAdjOffset = 100000
    AdjFreqMax = 512
    Ap = 2
    Ai = 16
    SOffset = 1
    SDelay = 2
    FirstOffsets <- SetOffsets
    Frequencies <- SetFrequency
    PathDelays = {40}
    FirstDelays = {0, 400000}
    Errors = {20}
    MaxFrequency = 200
    MaxError = 20
    MaxDhcpTries = 5
    LineSize = 3
    InputSize = 4
    MaxUnits = 4
SPECIFICATION ClockSpec
CHECK_DEADLOCK FALSE
INVARIANTS
    ClockTypeOK
    EndToEndSample
    PeerSample
    FilterWithinSamples
    SetAtMostThrice
    ConfiguredIsUpUnlessRefused
    ConsoleFaithful
PROPERTIES
    AddressRemains
    ServoSettles
    PtpStarts
    ConsoleServed
