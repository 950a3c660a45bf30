SPECIFICATION Spec
CONSTANTS
    c1 = c1
    g1 = g1
    g2 = g2
    Channel = {c1}
    Get = {g1}
    Lease = 2
    Grants = {1, 4}
    Lead = 1
    PendingTimeout = 1
    Cooldown = 1
    Backoffs = {1, 2}
    Grace = 2
    MaxToken = 1
    MaxTime = 4
    MaxChanges = 1
    MaxCrashes = 0
    MaxFailures = 0
INVARIANTS
    TypeOK
    NeverParked
    LiveIsDelivering
PROPERTY ActiveUntilLapsed
CHECK_DEADLOCK FALSE
