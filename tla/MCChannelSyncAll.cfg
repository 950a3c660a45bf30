\* Every hazard at once.
SPECIFICATION Spec
CONSTANTS
    a = a
    b = b
    Entry = {a, b}
    Handle = {b}
    Content <- Lists
    Worker = {w1, w2}
    Inode = {i1, i2, i3}
    None = None
    MaxAsks = 2
    MaxCrashes = 1
    Hazards = {"overlap", "sameSecond", "bootWrite", "unresolved"}
CHECK_DEADLOCK FALSE
INVARIANT TypeOK
PROPERTY RemovalWasRead
SYMMETRY WorkerSymmetry
