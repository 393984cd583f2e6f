SPECIFICATION FairSpec
CONSTANT MaxCalls = 2
INVARIANTS
    TypeOK
    CallOwned
    ReceivedTapedApart
PROPERTY HangupCompletes
