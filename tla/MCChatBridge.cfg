SPECIFICATION FairSpec
CONSTANTS
    Msgs = {m1, m2}
    Bridges = {b1, b2, b3}
    MaxFaults = 2
CHECK_DEADLOCK FALSE
INVARIANTS HandedAtMostOnce NotPassedOver
PROPERTIES EventuallyHanded
