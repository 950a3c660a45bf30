\* The file is written while the first reconcile runs.
SPECIFICATION FairSpec
CONSTANTS
    a = a
    b = b
    Entry = {a, b}
    Handle = {}
    Content <- Lists
    Worker = {w1, w2}
    Inode = {i1, i2, i3}
    None = None
    MaxAsks = 1
    MaxCrashes = 0
    Hazards = {"bootWrite"}
CHECK_DEADLOCK FALSE
PROPERTY Applied
