\* An honest client and a disk that fails only by crashing the process.
SPECIFICATION Spec
CONSTANTS
    Key = {k1, k2, k3}
    NoKey = NoKey
    RecentCap = 2
    CompactLines = 4
    CompactMargin = 2
    MaxRetained = 3
    MaxSeq = 6
    MaxLines = 6
    Faults = {}
SYMMETRY KeySymmetry
INVARIANTS
    NotLost
    SeqFresh
    NoDuplicateInWindow
    PollNeverSkips
    FeedHasNoHole
    FeedIsDistinct
PROPERTY ImplementsFeed
