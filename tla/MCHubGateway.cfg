SPECIFICATION FairSpec
CONSTANTS
    Msgs = {m1, m2}
    Sessions = {s1}
    SessionOf <- OneSession
    ConvMsgs = {}
    CancelCap = 1
    CleanupLimit = 1
    MaxReplies = 1
    MaxFailures = 1
    MaxLosses = 1
    MaxCrashes = 2
CHECK_DEADLOCK FALSE
INVARIANTS DoneOnlyIfReplied AnsweredIsDone
PROPERTIES TerminalIsFinal SilentAfterCancel ImplementsSerialWorker QueueDrains ProcessingEnds
