SPECIFICATION JitterSpec
CONSTANTS
    SeqMod = 16
    MinDelay = 1
    MaxDelay = 1
    Full = 5
    Depths <- MCDepths
    Delays <- MCDelays
    Starts <- MCStarts
    Pauses = FALSE
    Player = TRUE
    MaxTime = 11
    MaxSent = 7
    MaxTransit = 2
CHECK_DEADLOCK FALSE
INVARIANTS
    JitterTypeOK
    JitterAbsorbed
PROPERTY PlayoutSteady
