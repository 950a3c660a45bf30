\* A lookup fails.
SPECIFICATION FairSpec
CONSTANTS
    a = a
    b = b
    Entry = {a, b}
    Handle = {b}
    Content <- Lists
    Worker = {w1, w2}
    Inode = {i1, i2, i3}
    None = None
    MaxAsks = 1
    MaxCrashes = 0
    Hazards = {"unresolved"}
CHECK_DEADLOCK FALSE
PROPERTY RemovalsApplied
