SPECIFICATION HubFairSpec
CONSTANTS
    handler = handler
    rxLoop = rxLoop
    web = web
    browser = browser
    Loggers <- MCLoggers
    Recovering <- MCRecovering
    Subs <- MCSubs
    Clients <- MCClients
    MaxLogs = 2
    Capacity = 1
    Replay = 2
    MaxEntries = 3
CHECK_DEADLOCK FALSE
INVARIANTS
    HubTypeOK
    DeliveredOnce
    NothingMissed
PROPERTY EntriesShown
