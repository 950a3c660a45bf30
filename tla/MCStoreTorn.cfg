\* A write stops half-way and the process goes on.
SPECIFICATION Spec
CONSTANTS
    Key = {k1, k2, k3}
    NoKey = NoKey
    RecentCap = 2
    CompactLines = 2
    CompactMargin = 1
    MaxRetained = 2
    MaxSeq = 4
    MaxLines = 4
    Faults = {"tear"}
INVARIANT NotLost
