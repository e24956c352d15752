SPECIFICATION Spec
CONSTANTS
    Msgs = {m1}
    Reqs = {r1, r2, r3}
SYMMETRY Symmetry
INVARIANTS RoomInStep
PROPERTIES NoUnclaimedCancel ImplementsRegister
