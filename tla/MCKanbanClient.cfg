SPECIFICATION BoardSpec
CONSTANTS
    r1 = r1
    k1 = k1
    k2 = k2
    todo = todo
    done = done
    Reqs = {r1}
    Columns = {todo, done}
    MaxTasks = 2
    MaxRequests = 2
    Gap = 8
    Threshold = 2
    Given = {}
    Calls = {k1, k2}
    ColumnOrder <- TodoThenDone
    MaxOthers = 1
    MaxFaults = 1
INVARIANTS BoardTypeOK BoardTrue
SYMMETRY Alike
CHECK_DEADLOCK FALSE
