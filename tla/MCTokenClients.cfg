SPECIFICATION FairSpec
CONSTANTS
    Scripts = {s1, s2}
    Plugins = {g1}
    Tabs = {t1, t2}
    Fetches = {f1, f2}
    MaxCalls = 3
    MaxFaults = 1
INVARIANTS Exclusive NoReplay NotExpelled
CHECK_DEADLOCK FALSE
PROPERTIES CallsEnd
