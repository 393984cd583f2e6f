SPECIFICATION Spec
CONSTANTS
    MaxSessions = 2
    MaxRecs = 3
INVARIANT NoOrphanRecording
