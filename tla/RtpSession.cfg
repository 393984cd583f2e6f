SPECIFICATION FairSpec
CONSTANTS
    Signals = {"ptt", "squelch"}
    Ptimes = {20}
    MaxLoops = 2
    MaxSeq = 3
INVARIANTS
    TypeOK
    NumberedOnce
PROPERTY CloseEnds
