\* Writes in turn, in different seconds, after the first reconcile.
SPECIFICATION FairSpec
CONSTANTS
    a = a
    b = b
    Entry = {a, b}
    Handle = {b}
    Content <- Lists
    Worker = {w1, w2}
    Inode = {i1, i2, i3}
    None = None
    MaxAsks = 2
    MaxCrashes = 1
    Hazards = {}
CHECK_DEADLOCK FALSE
INVARIANT FileIsWhole
PROPERTIES
    WantedIsKept
    Applied
