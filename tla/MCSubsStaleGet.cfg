SPECIFICATION Spec
CONSTANTS
    c1 = c1
    g1 = g1
    g2 = g2
    Channel = {c1}
    Get = {g1}
    Lease = 2
    Grants = {3}
    Lead = 1
    PendingTimeout = 1
    Cooldown = 1
    Backoffs = {1, 2}
    Grace = 2
    MaxToken = 2
    MaxTime = 4
    MaxChanges = 2
    MaxCrashes = 0
    MaxFailures = 0
INVARIANT LiveIsDelivering
CHECK_DEADLOCK FALSE
