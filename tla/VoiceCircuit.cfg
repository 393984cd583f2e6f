SPECIFICATION FairSpec
CONSTANTS
    Calls = {c1}
    NoCall = NoCall
    AutoAnswer = TRUE
    MaxAnswers = 1
    DefaultPtime = 0
    ChannelPtime = 30
INVARIANTS
    TypeOK
    SquelchIsOperators
PROPERTIES
    PtimeAgreed
    CarrierHeard
    SilenceHeard
