\* A request whose body is held never completes.
SPECIFICATION Spec
CONSTANTS
    t1 = t1
    t2 = t2
    t3 = t3
    h1 = h1
    h2 = h2
    k1 = k1
    k2 = k2
    k3 = k3
    None = None
    Thread = {t1, t2, t3}
    Handler = {h1, h2}
    Conn = {k1, k2, k3}
    MinThreads = 1
    MaxThreads = 2
    MaxRequests = 2
    MaxStuck = 1
    Hazards = {"held"}
CHECK_DEADLOCK FALSE
INVARIANT NoneEaten
