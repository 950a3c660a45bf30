\* The log cannot be reopened after a compaction.
SPECIFICATION Spec
CONSTANTS
    Key = {k1, k2, k3}
    NoKey = NoKey
    RecentCap = 2
    CompactLines = 2
    CompactMargin = 1
    MaxRetained = 2
    MaxSeq = 4
    MaxLines = 4
    Faults = {"reopen"}
INVARIANT NotLost
