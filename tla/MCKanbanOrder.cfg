SPECIFICATION Spec
CONSTANTS
    r1 = r1
    r2 = r2
    todo = todo
    done = done
    Reqs = {r1, r2}
    Columns = {todo, done}
    MaxTasks = 3
    MaxRequests = 5
    Gap = 8
    Threshold = 2
    Given <- GivenPositions
SYMMETRY Alike
CHECK_DEADLOCK FALSE
PROPERTIES PlacedBeside ImplementsTaskLists Heals
