SPECIFICATION Spec
CONSTANTS
    c1 = c1
    g1 = g1
    g2 = g2
    Channel = {c1}
    Get = {g1}
    Lease = 2
    Grants = {3}
    Lead = 1
    PendingTimeout = 1
    Cooldown = 1
    Backoffs = {2}
    Grace = 2
    MaxToken = 2
    MaxTime = 3
    MaxChanges = 2
    MaxCrashes = 1
    MaxFailures = 1
INVARIANT IndexConsistent
INVARIANT UnsubscribeAnswerable
INVARIANT ActiveIsOnDisk
INVARIANT KnownToRelay
CHECK_DEADLOCK FALSE
