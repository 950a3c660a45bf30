\* A disk that fails: torn writes, failing syncs, a log that cannot be
\* reopened after a compaction.
SPECIFICATION Spec
CONSTANTS
    Key = {k1, k2}
    NoKey = NoKey
    RecentCap = 1
    CompactLines = 2
    CompactMargin = 1
    MaxRetained = 1
    MaxSeq = 2
    MaxLines = 3
    Faults = {"tear", "sync", "reopen"}
SYMMETRY KeySymmetry
INVARIANTS
    TypeOK
    SuppressedIsHeld
PROPERTIES
    CompactionExact
    LoadExact
