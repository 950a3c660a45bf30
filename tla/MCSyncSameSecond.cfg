\* Two writes of the same length in one second.
SPECIFICATION FairSpec
CONSTANTS
    a = a
    b = b
    Entry = {a, b}
    Handle = {}
    Content <- Lists
    Worker = {w1, w2}
    Inode = {i1, i2, i3}
    None = None
    MaxAsks = 2
    MaxCrashes = 0
    Hazards = {"sameSecond"}
CHECK_DEADLOCK FALSE
PROPERTY Applied
