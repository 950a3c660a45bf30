\* Two POSTs write at the same time.
SPECIFICATION Spec
CONSTANTS
    a = a
    b = b
    Entry = {a, b}
    Handle = {}
    Content <- ListsWithA
    Worker = {w1, w2}
    Inode = {i1, i2, i3}
    None = None
    MaxAsks = 2
    MaxCrashes = 0
    Hazards = {"overlap"}
CHECK_DEADLOCK FALSE
PROPERTY WantedIsKept
SYMMETRY WorkerSymmetry
