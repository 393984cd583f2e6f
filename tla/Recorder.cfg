SPECIFICATION Spec
CONSTANTS
    key = key
    squelch = squelch
    Callers <- MCCallers
    Limits <- MCLimits
    DefaultMaxRecordings = 2
    HardLimitMaxRecordings = 3
    MaxSamples = 2
    MaxClock = 1
    SameMs = FALSE
INVARIANTS
    TypeOK
    CatalogueBacked
PROPERTY LostOnlyToRetention
