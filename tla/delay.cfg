CONSTANTS
    Peers = {a}
    SeqMod = 3
    LifeTime = 2
    MaxMessages = 2
    Cleared = Cleared
SPECIFICATION DelaySpec
INVARIANTS
    SendTimeValid
