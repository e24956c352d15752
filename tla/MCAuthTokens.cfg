SPECIFICATION Spec
CONSTANTS
    Reqs = {r1, r2}
    Tokens = {t1, t2, t3}
    Sessions = {s1, s2}
    None = None
    MaxAttempts = 1
    MaxWrong = 1
    MaxFaults = 1
SYMMETRY Symmetry
INVARIANTS OneLivePerChain
PROPERTIES ImplementsTokenChains LockHonoured
