SPECIFICATION Spec
CONSTANTS
    PageSize = 1
    Kept = 2
    Instants = {0, 1, 2, 3}
    Tick = 2
    Stored = 2
    MaxCalls = 2
    MaxFailures = 1
    Days = {1, 2}
    Stamps = {1, 2}
    Loads = {l1, l2}
    MaxUpdates = 3
    MaxBreaks = 1
    Sends = {s1, s2}
    BufferSize = 2
    SocketLimit = 1
    MaxReceived = 3
    MaxFaults = 3
INVARIANTS FeedTypeOK FeedWhole PanelTypeOK McpTypeOK HeardOnce
PROPERTIES PanelRunSettles SendsEnd
CHECK_DEADLOCK FALSE
