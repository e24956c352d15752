SPECIFICATION Spec
CONSTANTS
    Msgs = {m1, m2}
    Sessions = {s1}
    SessionOf <- OneSession
    ConvMsgs = {m1, m2}
    CancelCap = 2
    CleanupLimit = 1
    MaxReplies = 1
    MaxFailures = 0
    MaxLosses = 0
    MaxCrashes = 0
CHECK_DEADLOCK FALSE
PROPERTIES QueuedCancelSkipped
