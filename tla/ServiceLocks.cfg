SPECIFICATION Spec
CONSTANTS
    A = A
    Nobody = Nobody
    Panicked = Panicked
    Channels <- MCChannels
    Activities <- MCActivities
    Shutdown = TRUE
    Stalls = TRUE
INVARIANT NoCircularWait
CHECK_DEADLOCK FALSE
