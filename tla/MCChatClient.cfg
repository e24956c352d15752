SPECIFICATION FairSpec
CONSTANTS
    Msgs = {m1, m2, f1}
    Typed = {m1, m2}
    Replies = {}
    Foreign = {f1}
    Reloads = {q1, q2}
    Page = 1
    Limit = 1
    PutStates = {"processing"}
    MaxEvents = 3
INVARIANTS TypeOK OnePlace
PROPERTIES Arrives PageSettles
