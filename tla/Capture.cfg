SPECIFICATION CaptureSpec
CONSTANTS
    NoExt = NoExt
    Streams <- MCStreams
    FirstNumbers <- MCFirstNumbers
    Headers <- MCHeaders
    Voice <- MCVoice
    Modulus = 16
    HugeGap = 2
    MaxPackets = 4
    MaxFlight = 2
    MaxSip = 1
INVARIANTS
    CaptureTypeOK
    LossCounted
    SpansFaithful
    AudioKept
CHECK_DEADLOCK FALSE
