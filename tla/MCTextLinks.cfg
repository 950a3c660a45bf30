SPECIFICATION TextSpec
CONSTANTS
    Alphabet = {}
    MaxText = 0
    Videos = {"v1"}
    Channels = {"c1"}
    Malformed = {"bad"}
    Titles <- MCTitles
    Times = {"t1", "t2"}
    MaxElements = 0
    MaxFields = 4
    Ids = {"c1", "c2", "c3"}
    Junk = "cut"
    Entries <- MCEntries
    Edits <- MCEdits
    Pages <- LinkPages
    MaxPosts = 2
    MaxEdits = 1
    MaxMoves = 1
    MaxLines = 2
    Faults = {}
CHECK_DEADLOCK FALSE
INVARIANT DesiredIsOwn
