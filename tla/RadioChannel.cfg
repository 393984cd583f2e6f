SPECIFICATION FairSpec
CONSTANTS
    MaxSessions = 2
    MaxRecs = 2
INVARIANTS
    TypeOK
    KeyedCoherent
    NoStrayCarrier
    SessionsOwned
    TapesRun
PROPERTIES
    PTTPriority
    ImplementsVoiceLink
    VoiceReleased
    CarrierLossHandled
    CloseEndsSessions
