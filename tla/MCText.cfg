SPECIFICATION TextSpec
CONSTANTS
    Alphabet = {9, 10, 32, 34, 37, 38, 43, 50, 53, 61, 92}
    MaxText = 4
    Videos = {"v1"}
    Channels = {"c1"}
    Malformed = {"bad"}
    Titles <- MCTitles
    Times = {"t1", "t2"}
    MaxElements = 3
    MaxFields = 4
    Ids = {"c1", "c2", "c3"}
    Junk = "cut"
    Entries <- MCEntries
    Edits <- MCEdits
    Pages <- MCPages
    MaxPosts = 2
    MaxEdits = 1
    MaxMoves = 1
    MaxLines = 2
    Faults = {"cut"}
CHECK_DEADLOCK FALSE
INVARIANTS
    RowsReadBack
    RequestReadsBack
    ParsedAsWritten
    FileIsAsListed
    DesiredIsOwn
