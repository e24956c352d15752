SPECIFICATION Spec
CONSTANTS
    u1 = u1
    u2 = u2
    u3 = u3
    r1 = r1
    r2 = r2
    Users <- MCUsers
    SameMail <- MCSameMail
    Viewer = u1
    Reqs <- MCReqs
    MaxEvents = 5
    MaxFaults = 1
SYMMETRY Alike
INVARIANTS TypeOK AdminRemains BlockedOnlyByUse PanelTrue
CHECK_DEADLOCK FALSE
