\* Polls with max=0.
SPECIFICATION Spec
CONSTANTS
    Key = {k1, k2, k3}
    NoKey = NoKey
    RecentCap = 1
    CompactLines = 2
    CompactMargin = 1
    MaxRetained = 2
    MaxSeq = 4
    MaxLines = 4
    Faults = {}
INVARIANT PollWithinLimit
