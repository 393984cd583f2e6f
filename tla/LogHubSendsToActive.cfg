SPECIFICATION Spec
CONSTANTS
    handler = handler
    rxLoop = rxLoop
    web = web
    other = other
    Loggers <- MCLoggers
    Recovering <- MCRecovering
    Subs <- MCSubs
    MaxLogs = 2
    Capacity = 2
    MaxEntries = 4
CHECK_DEADLOCK FALSE
INVARIANT SendsToActive
