SPECIFICATION FeedSpec
CONSTANTS
    PageSize = 1
    Kept = 2
    Instants = {0, 1, 2, 3}
    Tick = 2
    Stored = 3
    MaxCalls = 1
    MaxFailures = 1
INVARIANT FeedComplete
CHECK_DEADLOCK FALSE
