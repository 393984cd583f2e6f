SPECIFICATION FairSpec
CONSTANTS
    radio = radio
    phone = phone
    grs = grs
    Targets <- MCTargets
    Stations <- MCStations
    Home <- MCHome
    NoTarget = NoTarget
    MaxFlight = 2
INVARIANTS
    TypeOK
    OnlineAnswered
PROPERTY StatusFollows
